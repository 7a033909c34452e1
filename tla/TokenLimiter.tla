---------------------------- MODULE TokenLimiter ----------------------------
(***************************************************************************)
(* What the token limiter promises its callers (TokenLimiter is not under  *)
(* src/; this is its contract): at most Limit tickets are out at a time,   *)
(* Get blocks until a ticket is free, Put returns one, and a waiting task  *)
(* is served FIFO-or-better, so a task that keeps finding a free ticket    *)
(* eventually gets one.                                                    *)
(***************************************************************************)
EXTENDS Naturals, FiniteSets

CONSTANTS Tasks, Limit

VARIABLES waiting, holding

lvars == <<waiting, holding>>

Init == waiting = {} /\ holding = {}

\* A task calls Get.
Request(t) ==
    /\ t \notin waiting \cup holding
    /\ waiting' = waiting \cup {t}
    /\ UNCHANGED holding

\* Get returns a ticket.
Acquire(t) ==
    /\ t \in waiting
    /\ Cardinality(holding) < Limit
    /\ waiting' = waiting \ {t}
    /\ holding' = holding \cup {t}

\* Put gives the ticket back.
Release(t) ==
    /\ t \in holding
    /\ holding' = holding \ {t}
    /\ UNCHANGED waiting

Next == \E t \in Tasks : Request(t) \/ Acquire(t) \/ Release(t)

Spec == Init /\ [][Next]_lvars /\ \A t \in Tasks : SF_lvars(Acquire(t))
====
