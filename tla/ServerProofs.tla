---------------------------- MODULE ServerProofs ----------------------------
(***************************************************************************)
(* Proofs about the connection set and its token limiter (Server), for     *)
(* every finite set of connections and every TokenLimit allowed by         *)
(* ServerAssumption.                                                       *)
(***************************************************************************)
EXTENDS Server, FiniteSetTheorems, TLAPS

(* The inductive invariant.  TypeOK alone is not inductive: FinishQuery    *)
(* decrements tokens, which stays a natural number only because the        *)
(* connection that finishes holds one of the tokens counted.  TokensHeld   *)
(* gives exactly that, and TokensHeld needs TypeOK to count a finite set.  *)
IInv == TypeOK /\ TokensHeld

(* Every set of connections is finite. *)
LEMMA ConnsFinite ==
    ASSUME NEW S \in SUBSET Conns
    PROVE  IsFiniteSet(S) /\ Cardinality(S) \in Nat
BY ServerAssumption, FS_Subset, FS_CardinalityType

(* A step that moves one connection c to phase v moves c into the set of   *)
(* connections at phase v and out of every other.                         *)
LEMMA InPhaseExcept ==
    ASSUME NEW c \in Conns, NEW v, NEW p,
           phase' = [phase EXCEPT ![c] = v], phase \in [Conns -> Phases]
    PROVE  InPhase(p)' = IF v = p THEN InPhase(p) \cup {c}
                                  ELSE InPhase(p) \ {c}
BY DEF InPhase

(* A connection that is neither at nor moved to phase p leaves the set of  *)
(* connections at p as it is.                                              *)
LEMMA InPhaseSame ==
    ASSUME NEW c \in Conns, NEW v, NEW p, v # p, phase[c] # p,
           phase' = [phase EXCEPT ![c] = v], phase \in [Conns -> Phases]
    PROVE  InPhase(p)' = InPhase(p)
BY DEF InPhase

(* A step that moves no connection leaves the ticket count true.          *)
LEMMA PhaseUnchangedHeld ==
    ASSUME TokensHeld, phase' = phase, tokens' = tokens
    PROVE  TokensHeld'
BY DEF TokensHeld, InPhase

(* A connection that moves between two phases other than dispatching, with *)
(* tokens untouched, leaves the ticket count true.                        *)
LEMMA OtherMoveHeld ==
    ASSUME NEW c \in Conns, NEW v, v # "dispatching",
           phase[c] # "dispatching", phase \in [Conns -> Phases],
           phase' = [phase EXCEPT ![c] = v], tokens' = tokens, TokensHeld
    PROVE  TokensHeld'
<1>1. InPhase("dispatching")' = InPhase("dispatching")
      BY InPhaseSame
<1> QED BY <1>1 DEF TokensHeld

(* getToken: one more ticket, one more connection dispatching. *)
LEMMA GetTokenIInv ==
    ASSUME IInv, NEW c \in Conns, GetToken(c)
    PROVE  IInv'
<1> DEFINE H == InPhase("dispatching")
<1>1. H' = H \cup {c} /\ c \notin H
      BY InPhaseExcept DEF GetToken, IInv, TypeOK, InPhase
<1>2. IsFiniteSet(H)
      BY ConnsFinite DEF InPhase
<1>3. Cardinality(H') = Cardinality(H) + 1
      BY <1>1, <1>2, FS_AddElement
<1>4. TokensHeld'
      BY <1>3 DEF GetToken, IInv, TokensHeld
<1>5. TypeOK'
      BY ServerAssumption DEF GetToken, IInv, TypeOK, Phases, srvVars
<1> QED BY <1>4, <1>5 DEF IInv

(* releaseToken: the finishing connection gives its ticket back, whether   *)
(* the loop goes on or Run returns.                                        *)
LEMMA FinishQueryIInv ==
    ASSUME IInv, NEW c \in Conns, FinishQuery(c)
    PROVE  IInv'
<1> DEFINE H == InPhase("dispatching")
<1>1. \E v \in Phases \ {"dispatching"} : phase' = [phase EXCEPT ![c] = v]
      BY DEF FinishQuery, Exit, Phases
<1>2. H' = H \ {c} /\ c \in H
      BY <1>1, InPhaseExcept DEF FinishQuery, IInv, TypeOK, InPhase
<1>3. IsFiniteSet(H)
      BY ConnsFinite DEF InPhase
<1>4. /\ Cardinality(H') = Cardinality(H) - 1
      /\ Cardinality(H') \in Nat
      BY <1>2, <1>3, FS_RemoveElement, ConnsFinite DEF InPhase
<1>5. tokens' = tokens - 1
      BY DEF FinishQuery
<1>6. tokens = Cardinality(H) /\ tokens \in 0..TokenLimit
      BY DEF IInv, TokensHeld, TypeOK
<1>7. TokensHeld' /\ tokens' \in 0..TokenLimit
      <2>1. tokens' = Cardinality(H')
            BY <1>4, <1>5, <1>6
      <2>2. tokens' \in 0..TokenLimit
            BY <1>4, <1>5, <1>6, <2>1, ServerAssumption
      <2> QED BY <2>1, <2>2 DEF TokensHeld
<1>8. phase' \in [Conns -> Phases]
      BY <1>1 DEF IInv, TypeOK
<1>9. /\ status' \in [Conns -> Statuses]
      /\ clients' \subseteq Conns
      /\ inTxn' \in [Conns -> BOOLEAN]
      BY DEF FinishQuery, Exit, Leave, IInv, TypeOK, Statuses
<1>10. UNCHANGED <<listening, inShutdownMode, srv, gd, closed>>
      BY DEF FinishQuery, srvVars
<1> QED BY <1>7, <1>8, <1>9, <1>10 DEF IInv, TypeOK

(* The steps of a connection other than getToken and releaseToken never    *)
(* touch a ticket or a dispatching connection.                             *)
LEMMA ConnStepIInv ==
    ASSUME IInv, NEW c \in Conns, ConnStep(c)
    PROVE  IInv'
<1> USE DEF IInv
<1>1. CASE Accept(c)
      BY <1>1, OtherMoveHeld DEF Accept, TypeOK, Phases, srvVars
<1>2. CASE HandshakeFail(c)
      BY <1>2, OtherMoveHeld DEF HandshakeFail, TypeOK, Phases, srvVars
<1>3. CASE Register(c)
      BY <1>3, OtherMoveHeld DEF Register, TypeOK, Phases, Statuses, srvVars
<1>4. CASE ClientSend(c)
      <2>1. TokensHeld'
            BY <1>4, OtherMoveHeld DEF ClientSend, Exit, TypeOK
      <2>2. TypeOK'
            BY <1>4 DEF ClientSend, Exit, Leave, TypeOK, Phases, Statuses,
                        srvVars
      <2> QED BY <2>1, <2>2
<1>5. CASE ClientQuit(c)
      BY <1>5, OtherMoveHeld DEF ClientQuit, Exit, Leave, TypeOK, Phases,
                                 srvVars
<1>6. CASE ConnExit(c)
      BY <1>6, OtherMoveHeld DEF ConnExit, Exit, Leave, TypeOK, Phases,
                                 srvVars
<1>7. CASE GetToken(c)
      BY <1>7, GetTokenIInv
<1>8. CASE FinishQuery(c)
      BY <1>8, FinishQueryIInv
<1>9. CASE Kill(c)
      BY <1>9, PhaseUnchangedHeld DEF Kill, TypeOK, Statuses, srvVars
<1> QED BY <1>1, <1>2, <1>3, <1>4, <1>5, <1>6, <1>7, <1>8, <1>9
        DEF ConnStep

(* The shutdown goroutines move no connection and take no ticket. *)
LEMMA ServerStepIInv ==
    ASSUME IInv,
           \/ StartShutdown \/ CloseListeners \/ GracefulStart
           \/ GracefulKick \/ GracefulTick \/ Timeout
    PROVE  IInv'
<1> USE DEF IInv
<1>1. phase' = phase /\ tokens' = tokens
      BY DEF StartShutdown, CloseListeners, GracefulStart, GracefulKick,
             GracefulTick, Timeout, connVars
<1>2. TokensHeld'
      BY <1>1, PhaseUnchangedHeld
<1>3. ASSUME StartShutdown \/ CloseListeners \/ GracefulStart \/ GracefulTick
      PROVE  TypeOK'
      BY <1>3 DEF StartShutdown, CloseListeners, GracefulStart, GracefulTick,
                  TypeOK, connVars
<1>4. ASSUME GracefulKick PROVE TypeOK'
      BY <1>4 DEF GracefulKick, KickIdle, Kickable, Notified, TypeOK, Statuses
<1>5. ASSUME Timeout PROVE TypeOK'
      BY <1>5 DEF Timeout, TypeOK, Statuses
<1>6. TypeOK'
      BY <1>3, <1>4, <1>5
<1> QED BY <1>2, <1>6

LEMMA InitIInv == Init => IInv
<1> SUFFICES ASSUME Init PROVE IInv
    OBVIOUS
<1>1. InPhase("dispatching") = {}
      BY DEF Init, InPhase
<1>2. TokensHeld
      BY <1>1, FS_EmptySet DEF Init, TokensHeld
<1>3. TypeOK
      <2>1. phase \in [Conns -> Phases] /\ status \in [Conns -> Statuses]
            BY DEF Init, Phases, Statuses
      <2>2. inTxn \in [Conns -> BOOLEAN] /\ tokens \in 0..TokenLimit
            BY ServerAssumption DEF Init
      <2> QED BY <2>1, <2>2 DEF Init, TypeOK
<1> QED BY <1>2, <1>3 DEF IInv

LEMMA NextIInv == IInv /\ [Next]_vars => IInv'
<1> SUFFICES ASSUME IInv, [Next]_vars PROVE IInv'
    OBVIOUS
<1>1. CASE \E c \in Conns : ConnStep(c)
      BY <1>1, ConnStepIInv
<1>2. CASE \/ StartShutdown \/ CloseListeners \/ GracefulStart
           \/ GracefulKick \/ GracefulTick \/ Timeout
      BY <1>2, ServerStepIInv
<1>3. CASE UNCHANGED vars
      BY <1>3 DEF vars, IInv, TypeOK, TokensHeld, InPhase
<1> QED BY <1>1, <1>2, <1>3 DEF Next

(* Type correctness: whatever the clients, Kill and the shutdown do, the   *)
(* ticket count stays between 0 and cfg.TokenLimit.                        *)
THEOREM TypeCorrect == Spec => []TypeOK
<1>1. Init => IInv
      BY InitIInv
<1>2. IInv /\ [Next]_vars => IInv'
      BY NextIInv
<1> QED BY <1>1, <1>2, PTL DEF Spec, IInv

(* No exit path of the dispatch loop (query end, Kill, shutdown kick,      *)
(* timeout) loses or duplicates a ticket of s.concurrentLimiter: the       *)
(* tickets out are exactly the connections running a query.                *)
THEOREM TokensConserved == Spec => []TokensHeld
<1>1. Init => IInv
      BY InitIInv
<1>2. IInv /\ [Next]_vars => IInv'
      BY NextIInv
<1> QED BY <1>1, <1>2, PTL DEF Spec, IInv

-----------------------------------------------------------------------------
(* The connections use s.concurrentLimiter as TokenLimiter says: under the *)
(* refinement mapping of Server (waiting = the connections blocked in      *)
(* getToken, holding = the connections running a query) every step of      *)
(* Server is a step of the limiter or leaves both sets alone.              *)

W == InPhase("waitToken")
H == InPhase("dispatching")

(* A connection moved between two phases the limiter does not see is a     *)
(* stutter of the limiter.                                                 *)
LEMMA OtherMoveStutters ==
    ASSUME NEW c \in Conns, NEW v, v \notin {"waitToken", "dispatching"},
           phase[c] \notin {"waitToken", "dispatching"},
           phase' = [phase EXCEPT ![c] = v], phase \in [Conns -> Phases]
    PROVE  [Limiter!Next]_Limiter!lvars
<1>1. W' = W /\ H' = H
      BY InPhaseSame DEF W, H
<1> QED BY <1>1 DEF Limiter!lvars, W, H

(* A step that moves no connection is a stutter of the limiter. *)
LEMMA NoMoveStutters ==
    ASSUME phase' = phase
    PROVE  [Limiter!Next]_Limiter!lvars
BY DEF Limiter!lvars, InPhase

(* The dispatch loop reads a packet and calls getToken: Get is called. *)
LEMMA SendRequests ==
    ASSUME IInv, NEW c \in Conns, phase[c] = "reading",
           phase' = [phase EXCEPT ![c] = "waitToken"]
    PROVE  Limiter!Request(c)
<1>1. W' = W \cup {c} /\ H' = H
      BY InPhaseExcept, InPhaseSame DEF IInv, TypeOK, W, H
<1>2. c \notin W \cup H
      BY DEF W, H, InPhase
<1> QED BY <1>1, <1>2 DEF Limiter!Request, W, H

(* The limiter counts its tickets with the Cardinality of FiniteSets. *)
LEMMA LimiterCardinality ==
    ASSUME NEW S
    PROVE  Limiter!Cardinality(S) = Cardinality(S)
BY DEF Limiter!Cardinality, Cardinality

(* getToken returns: Get hands out a ticket while fewer than Limit are out. *)
LEMMA GetTokenAcquires ==
    ASSUME IInv, NEW c \in Conns, GetToken(c)
    PROVE  Limiter!Acquire(c)
<1>1. W' = W \ {c} /\ H' = H \cup {c} /\ c \in W
      BY InPhaseExcept DEF GetToken, IInv, TypeOK, W, H, InPhase
<1>2. Cardinality(H) < TokenLimit
      BY DEF GetToken, IInv, TokensHeld, H
<1>3. Limiter!Acquire(c) <=> /\ c \in W /\ Cardinality(H) < TokenLimit
                             /\ W' = W \ {c} /\ H' = H \cup {c}
      BY LimiterCardinality DEF Limiter!Acquire, W, H
<1> QED BY <1>1, <1>2, <1>3, LimiterCardinality

(* releaseToken: Put gives the ticket back. *)
LEMMA FinishQueryReleases ==
    ASSUME IInv, NEW c \in Conns, FinishQuery(c)
    PROVE  Limiter!Release(c)
<1>1. PICK v \in {"reading", "gone"} : phase' = [phase EXCEPT ![c] = v]
      BY DEF FinishQuery, Exit
<1>2. v # "waitToken" /\ v # "dispatching"
      OBVIOUS
<1>3. H' = H \ {c} /\ c \in H
      BY <1>1, InPhaseExcept DEF FinishQuery, IInv, TypeOK, H, InPhase
<1>4. W' = W
      BY <1>1, <1>2, InPhaseSame DEF FinishQuery, IInv, TypeOK, W
<1> QED BY <1>3, <1>4 DEF Limiter!Release, W, H

LEMMA InitRefines == Init => Limiter!Init
BY DEF Init, Limiter!Init, InPhase

LEMMA ConnStepRefines ==
    ASSUME IInv, NEW c \in Conns, ConnStep(c)
    PROVE  [Limiter!Next]_Limiter!lvars
<1> DEFINE LNext == [Limiter!Next]_Limiter!lvars
<1>0. phase \in [Conns -> Phases]
      BY DEF IInv, TypeOK
<1>1. CASE Accept(c) \/ HandshakeFail(c) \/ Register(c)
      <2>1. PICK v \in {"handshake", "gone", "reading"} :
                /\ phase[c] \in {"new", "handshake"}
                /\ phase' = [phase EXCEPT ![c] = v]
            BY <1>1 DEF Accept, HandshakeFail, Register
      <2> QED BY <2>1, <1>0, OtherMoveStutters
<1>2. CASE ClientQuit(c) \/ ConnExit(c)
      BY <1>2, <1>0, OtherMoveStutters DEF ClientQuit, ConnExit, Exit
<1>3. CASE ClientSend(c)
      <2>1. CASE status[c] = Reading
            <3>1. phase' = [phase EXCEPT ![c] = "waitToken"] /\ phase[c] = "reading"
                  BY <1>3, <2>1 DEF ClientSend, Exit
            <3>2. Limiter!Request(c)
                  BY <3>1, SendRequests
            <3> QED BY <3>2 DEF Limiter!Next
      <2>2. CASE status[c] # Reading
            BY <1>3, <2>2, <1>0, OtherMoveStutters DEF ClientSend, Exit
      <2> QED BY <2>1, <2>2
<1>4. CASE GetToken(c)
      BY <1>4, GetTokenAcquires DEF Limiter!Next
<1>5. CASE FinishQuery(c)
      BY <1>5, FinishQueryReleases DEF Limiter!Next
<1>6. CASE Kill(c)
      BY <1>6, NoMoveStutters DEF Kill
<1> QED BY <1>1, <1>2, <1>3, <1>4, <1>5, <1>6 DEF ConnStep

LEMMA NextRefines == IInv /\ [Next]_vars => [Limiter!Next]_Limiter!lvars
<1> SUFFICES ASSUME IInv, [Next]_vars PROVE [Limiter!Next]_Limiter!lvars
    OBVIOUS
<1>1. CASE \E c \in Conns : ConnStep(c)
      BY <1>1, ConnStepRefines
<1>2. CASE \/ StartShutdown \/ CloseListeners \/ GracefulStart
           \/ GracefulKick \/ GracefulTick \/ Timeout
      <2>1. phase' = phase
            BY <1>2 DEF StartShutdown, CloseListeners, GracefulStart,
                        GracefulKick, GracefulTick, Timeout, connVars
      <2> QED BY <2>1, NoMoveStutters
<1>3. CASE UNCHANGED vars
      BY <1>3, NoMoveStutters DEF vars
<1> QED BY <1>1, <1>2, <1>3 DEF Next

(* Server refines the safety part of the limiter's contract: never more   *)
(* than cfg.TokenLimit queries run at once, a ticket goes only to a        *)
(* connection blocked in getToken, and only a running query returns one.   *)
(* The fairness part of the contract (no connection starves in getToken)  *)
(* is not stated: it would only restate the fairness assumed of GetToken.  *)
THEOREM LimiterSafety == Spec => Limiter!Init /\ [][Limiter!Next]_Limiter!lvars
<1>1. Init => IInv /\ Limiter!Init
      BY InitIInv, InitRefines
<1>2. IInv /\ [Next]_vars => IInv' /\ [Limiter!Next]_Limiter!lvars
      BY NextIInv, NextRefines
<1> QED BY <1>1, <1>2, PTL DEF Spec
====
