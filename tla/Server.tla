------------------------------- MODULE Server -------------------------------
(***************************************************************************)
(* The proxy's client connections and its shutdown (server.go part of     *)
(* cluster.go): the accept loop (startNetworkListener), onConn, the        *)
(* per-connection dispatch loop with its token (getToken/releaseToken),    *)
(* Kill, Close, and TryGracefulDown with GracefulDown, kickIdleConnection  *)
(* and KillAllConnections.                                                 *)
(*                                                                         *)
(* Each connection c is one onConn goroutine.  clientConn.Run, Close and   *)
(* ShutdownOrNotify live in conn.go, not under src/: they are modelled     *)
(* from what server.go relies on (status CAS Reading <-> Dispatching at    *)
(* the top of the loop, Close removing the client from s.clients).  The    *)
(* caller of Close and TryGracefulDown (main) is not under src/ either:    *)
(* it calls Close, then TryGracefulDown, then exits.  No audit plugin is   *)
(* loaded, so the plugin hooks of onConn never fail.                       *)
(***************************************************************************)
EXTENDS Naturals, FiniteSets

CONSTANTS
    Conns,        \* the client connections that may arrive
    TokenLimit    \* cfg.TokenLimit, capacity of s.concurrentLimiter

ASSUME ServerAssumption ==
    /\ TokenLimit \in Nat \ {0}
    /\ IsFiniteSet(Conns)

\* clientConn.status
Dispatching == "dispatching"
Reading == "reading"
WaitShutdown == "waitShutdown"
Shutdown == "shutdown"
Statuses == {Dispatching, Reading, WaitShutdown, Shutdown}

\* Where the goroutine of a connection is: not arrived yet, in the
\* handshake, blocked reading the next packet, blocked in getToken,
\* running a query, or returned.
Phases == {"new", "handshake", "reading", "waitToken", "dispatching", "gone"}

VARIABLES
    listening,       \* s.listener is open
    inShutdownMode,  \* s.inShutdownMode
    srv,             \* Close: "running", "stray" (startShutdown done), "closed"
    gd,              \* TryGracefulDown: "off", "loop", "tick", "done", "killed"
    phase,           \* phase[c]
    status,          \* status[c]: conn.status
    inTxn,           \* the session of c is inside a transaction
    closed,          \* connections whose network connection the server closed
    clients,         \* DOMAIN s.clients
    tokens           \* tickets taken from s.concurrentLimiter

vars == <<listening, inShutdownMode, srv, gd, phase, status, inTxn, closed,
          clients, tokens>>
connVars == <<phase, status, inTxn, closed, clients, tokens>>
srvVars == <<listening, inShutdownMode, srv, gd>>

Init ==
    /\ listening = TRUE
    /\ inShutdownMode = FALSE
    /\ srv = "running"
    /\ gd = "off"
    /\ phase = [c \in Conns |-> "new"]
    /\ status = [c \in Conns |-> Dispatching]
    /\ inTxn = [c \in Conns |-> FALSE]
    /\ closed = {}
    /\ clients = {}
    /\ tokens = 0

-----------------------------------------------------------------------------
(* A connection.                                                           *)

\* clientConn.Close: the entry of s.clients is deleted under s.rwlock.
Leave(c) == clients' = clients \ {c}

\* Run returns: its deferred Close runs.
Exit(c) ==
    /\ phase' = [phase EXCEPT ![c] = "gone"]
    /\ Leave(c)

\* startNetworkListener: Accept returns a connection; go s.onConn.
Accept(c) ==
    /\ listening /\ phase[c] = "new"
    /\ phase' = [phase EXCEPT ![c] = "handshake"]
    /\ UNCHANGED <<srvVars, status, inTxn, closed, clients, tokens>>

\* onConn: the handshake fails; conn.Close, and the client never entered
\* s.clients.
HandshakeFail(c) ==
    /\ phase[c] = "handshake"
    /\ phase' = [phase EXCEPT ![c] = "gone"]
    /\ UNCHANGED <<srvVars, status, inTxn, closed, clients, tokens>>

\* onConn: s.clients[id] = conn under Lock, then conn.Run, whose first CAS
\* moves the status from Dispatching to Reading.
Register(c) ==
    /\ phase[c] = "handshake"
    /\ phase' = [phase EXCEPT ![c] = "reading"]
    /\ status' = [status EXCEPT ![c] = Reading]
    /\ clients' = clients \cup {c}
    /\ UNCHANGED <<srvVars, inTxn, closed, tokens>>

\* The client sends a packet.  The CAS Reading -> Dispatching succeeds and
\* dispatch calls getToken, or it fails (WaitShutdown) and Run returns.
ClientSend(c) ==
    /\ phase[c] = "reading" /\ c \notin closed
    /\ \/ /\ status[c] = Reading
          /\ status' = [status EXCEPT ![c] = Dispatching]
          /\ phase' = [phase EXCEPT ![c] = "waitToken"]
          /\ UNCHANGED clients
       \/ /\ status[c] # Reading
          /\ Exit(c)
          /\ UNCHANGED status
    /\ UNCHANGED <<srvVars, inTxn, closed, tokens>>

\* The client hangs up: readPacket fails and Run returns.
ClientQuit(c) ==
    /\ phase[c] = "reading" /\ c \notin closed
    /\ Exit(c)
    /\ UNCHANGED <<srvVars, status, inTxn, closed, tokens>>

\* The server closed the network connection: readPacket fails.
ConnExit(c) ==
    /\ phase[c] = "reading" /\ c \in closed
    /\ Exit(c)
    /\ UNCHANGED <<srvVars, status, inTxn, closed, tokens>>

\* Faulty variant for the mutation runs: Get does not wait for a free ticket.
GetTokenNoLimit(c) ==
    /\ phase[c] = "waitToken"
    /\ tokens' = tokens + 1
    /\ phase' = [phase EXCEPT ![c] = "dispatching"]
    /\ UNCHANGED <<srvVars, status, inTxn, closed, clients>>

\* getToken: concurrentLimiter.Get returns a ticket.
GetToken(c) ==
    /\ phase[c] = "waitToken" /\ tokens < TokenLimit
    /\ tokens' = tokens + 1
    /\ phase' = [phase EXCEPT ![c] = "dispatching"]
    /\ UNCHANGED <<srvVars, status, inTxn, closed, clients>>

\* Faulty variant for the mutation runs: the ticket is put back only when
\* the loop goes on (releaseToken not deferred).
FinishQueryNoRelease(c) ==
    /\ phase[c] = "dispatching"
    /\ inTxn' \in [Conns -> BOOLEAN] /\ \A d \in Conns \ {c} : inTxn'[d] = inTxn[d]
    /\ IF status[c] = Dispatching
         THEN /\ tokens' = tokens - 1
              /\ status' = [status EXCEPT ![c] = Reading]
              /\ phase' = [phase EXCEPT ![c] = "reading"]
              /\ UNCHANGED clients
         ELSE Exit(c) /\ UNCHANGED <<status, tokens>>
    /\ UNCHANGED <<srvVars, closed>>

\* The query ends (or killConn cancels it); the deferred releaseToken puts
\* the ticket back; the session may have opened or ended a transaction.
\* At the top of Run the CAS Dispatching -> Reading fails when Kill or a
\* shutdown changed the status, and Run returns.
FinishQuery(c) ==
    /\ phase[c] = "dispatching"
    /\ tokens' = tokens - 1
    /\ inTxn' \in [Conns -> BOOLEAN] /\ \A d \in Conns \ {c} : inTxn'[d] = inTxn[d]
    /\ IF status[c] = Dispatching
         THEN /\ status' = [status EXCEPT ![c] = Reading]
              /\ phase' = [phase EXCEPT ![c] = "reading"]
              /\ UNCHANGED clients
         ELSE Exit(c) /\ UNCHANGED status
    /\ UNCHANGED <<srvVars, closed>>

\* Kill(connectionID, false) for a client in s.clients: its status becomes
\* WaitShutdown and killConn cancels its running query, if any.
Kill(c) ==
    /\ c \in clients
    /\ status' = [status EXCEPT ![c] = WaitShutdown]
    /\ UNCHANGED <<srvVars, phase, inTxn, closed, clients, tokens>>

-----------------------------------------------------------------------------
(* Shutdown.                                                               *)

\* startShutdown: inShutdownMode, then the GracefulWaitBeforeShutdown sleep
\* during which the listener still accepts stray connections.
StartShutdown ==
    /\ srv = "running"
    /\ inShutdownMode' = TRUE /\ srv' = "stray"
    /\ UNCHANGED <<listening, gd, connVars>>

\* The rest of Close: under Lock, the listeners are closed; the accept
\* loops end with a nil error because inShutdownMode is set.
CloseListeners ==
    /\ srv = "stray"
    /\ listening' = FALSE /\ srv' = "closed"
    /\ UNCHANGED <<inShutdownMode, gd, connVars>>

\* ShutdownOrNotify: a client outside a transaction that is Reading is
\* switched to Shutdown and closed by kickIdleConnection (Close deletes it
\* from s.clients); one that is busy is told WaitShutdown; one inside a
\* transaction is left alone.
Kickable(c) == ~inTxn[c] /\ status[c] = Reading
Notified(c) == ~inTxn[c] /\ status[c] # Reading

\* One pass of the GracefulDown loop: kickIdleConnection, then the count.
KickIdle ==
    LET kicked == {c \in clients : Kickable(c)}
    IN  /\ status' = [c \in Conns |-> IF c \in kicked THEN Shutdown
                                      ELSE IF c \in clients /\ Notified(c)
                                           THEN WaitShutdown ELSE status[c]]
        /\ closed' = closed \cup kicked
        /\ clients' = clients \ kicked

\* TryGracefulDown, called once Close has returned: GracefulDown's first
\* ConnectionCount.
GracefulStart ==
    /\ srv = "closed" /\ gd = "off"
    /\ gd' = IF clients = {} THEN "done" ELSE "loop"
    /\ UNCHANGED <<listening, inShutdownMode, srv, connVars>>

GracefulKick ==
    /\ gd = "loop"
    /\ KickIdle
    /\ gd' = IF clients' = {} THEN "done" ELSE "tick"
    /\ UNCHANGED <<listening, inShutdownMode, srv, phase, inTxn, tokens>>

\* The one-second ticker of GracefulDown.
GracefulTick ==
    /\ gd = "tick"
    /\ gd' = "loop"
    /\ UNCHANGED <<listening, inShutdownMode, srv, connVars>>

\* Faulty variant for the mutation runs: a context without deadline.
TimeoutLost == FALSE

\* gracefulCloseConnectionsTimeout expires: TryGracefulDown calls
\* KillAllConnections, which marks every client Shutdown and closes its
\* network connection (closeWithoutLock leaves it in s.clients).
Timeout ==
    /\ gd \in {"loop", "tick"}
    /\ gd' = "killed"
    /\ status' = [c \in Conns |-> IF c \in clients THEN Shutdown ELSE status[c]]
    /\ closed' = closed \cup clients
    /\ UNCHANGED <<listening, inShutdownMode, srv, phase, inTxn, clients, tokens>>

-----------------------------------------------------------------------------

ConnStep(c) ==
    \/ Accept(c) \/ HandshakeFail(c) \/ Register(c) \/ ClientSend(c)
    \/ ClientQuit(c) \/ ConnExit(c) \/ GetToken(c) \/ FinishQuery(c)
    \/ Kill(c)

Next ==
    \/ \E c \in Conns : ConnStep(c)
    \/ StartShutdown \/ CloseListeners \/ GracefulStart \/ GracefulKick
    \/ GracefulTick \/ Timeout

(* Fairness.  The goroutines of the server are scheduled: the sleep of     *)
(* startShutdown ends, main calls TryGracefulDown once Close returns, the  *)
(* ticker and the 15s timeout fire, a closed connection's read fails, and  *)
(* a query ends (killConn cancels it).  A connection waiting in getToken   *)
(* is served FIFO-or-better (strong fairness).  The clients themselves     *)
(* (arriving, handshaking, sending, hanging up) get no fairness.           *)
Fairness ==
    /\ WF_vars(CloseListeners) /\ WF_vars(GracefulStart)
    /\ WF_vars(GracefulKick) /\ WF_vars(GracefulTick) /\ WF_vars(Timeout)
    /\ \A c \in Conns : /\ WF_vars(ConnExit(c)) /\ WF_vars(FinishQuery(c))
                        /\ SF_vars(GetToken(c))

Spec == Init /\ [][Next]_vars /\ Fairness

-----------------------------------------------------------------------------
(* Properties.                                                             *)

TypeOK ==
    /\ listening \in BOOLEAN /\ inShutdownMode \in BOOLEAN
    /\ srv \in {"running", "stray", "closed"}
    /\ gd \in {"off", "loop", "tick", "done", "killed"}
    /\ phase \in [Conns -> Phases]
    /\ status \in [Conns -> Statuses]
    /\ inTxn \in [Conns -> BOOLEAN]
    /\ closed \subseteq Conns
    /\ clients \subseteq Conns
    /\ tokens \in 0..TokenLimit

\* The connections whose goroutine is at phase p.
InPhase(p) == {c \in Conns : phase[c] = p}

(* Every ticket taken by getToken is held by a connection running a query, *)
(* and every such connection holds exactly one: no exit path of Run (a     *)
(* kill, a shutdown, a closed connection) loses a ticket.                  *)
TokensHeld == tokens = Cardinality(InPhase("dispatching"))

(* The connections use s.concurrentLimiter as the token limiter promises:  *)
(* a refinement with the waiting and running connections as its tasks.    *)
Limiter == INSTANCE TokenLimiter
    WITH Tasks <- Conns, Limit <- TokenLimit,
         waiting <- InPhase("waitToken"),
         holding <- InPhase("dispatching")

(* Once shutdown has started, TryGracefulDown returns: either every client *)
(* has left, or the 15s timeout kills the rest (a client idling inside a   *)
(* transaction is never kicked).                                           *)
ShutdownEnds == srv = "stray" ~> gd \in {"done", "killed"}

(* When GracefulDown reports that no client is left, no connection is     *)
(* still being served: none is in its handshake or past it.                *)
GracefulMeansDrained ==
    gd = "done" => \A c \in Conns : phase[c] \in {"new", "gone"}

(* A client killed with KILL CONNECTION (Kill with query = false) leaves    *)
(* s.clients, also when it is idle.                                        *)
KilledClientsLeave ==
    \A c \in Conns : (status[c] = WaitShutdown /\ c \in clients) ~> c \notin clients
====
