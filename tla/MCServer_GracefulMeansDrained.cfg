CONSTANTS
    c1 = c1
    c2 = c2
    c3 = c3
    Conns <- MCConns
    TokenLimit = 2
SPECIFICATION Spec
INVARIANT GracefulMeansDrained
\* After TryGracefulDown returns, main exits: the system may stop.
CHECK_DEADLOCK FALSE
