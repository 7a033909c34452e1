------------------------------- MODULE Cluster -------------------------------
(***************************************************************************)
(* The backend cluster of the proxy (proxy/backend/cluster.go): one Pool   *)
(* of TiDB backends per workload class ("tp", "ap"), the membership        *)
(* operations AddTidb, DeleteTidb, UpTidb and DownTidb, the health sweep   *)
(* CheckCluster/checkTidbs that runs in its own goroutine, and the         *)
(* rebuild of the pools from the pod list when the process (re)starts      *)
(* (parseCluster, MakeTidbs, ParseTidbs in server.go).                     *)
(*                                                                         *)
(* Data abstraction.  A backend is named by its pod address (a model       *)
(* value of Addr); "self" is Self.  A weight in TidbsWeights is            *)
(* represented by the address it was parsed for, so that the index        *)
(* alignment of Tidbs and TidbsWeights is observable.  RoundRobinQ holds   *)
(* the number of member indices the balancer table was last built for     *)
(* (InitBalancer puts every index 1..Len(TidbsWeights) in it).  Time is    *)
(* kept as the age of the last successful ping of each backend, capped     *)
(* one past DownAfterNoAlive, which is all checkTidbs compares.            *)
(*                                                                         *)
(* A nil *DB stored in a pool is NilDB.  Dereferencing it panics the Go    *)
(* process: crashed becomes TRUE, every goroutine is gone, and only a      *)
(* Restart (the pod restarted by Kubernetes) continues.                    *)
(***************************************************************************)
EXTENDS Naturals, Sequences, FiniteSets

CONSTANTS
    Addr,              \* pod addresses of the TiDB backends
    Self,              \* the "self" sentinel: the proxy as compute node
    NilDB,             \* a nil *DB stored in Tidbs
    PodClass,          \* the workload class of each pod
    PodOrder,          \* the order in which GetPod lists the pods
    DownAfterNoAlive,  \* cluster.DownAfterNoAlive, in seconds (0: never down)
    SweepInterval,     \* the sleep of CheckCluster between sweeps, seconds
    MaxWeights         \* bound on the length of TidbsWeights

Classes == {"tp", "ap"}
Up == "Up"
Down == "Down"
ManualDown == "ManualDown"
States == {Up, Down, ManualDown}

ASSUME ClusterAssumption ==
    /\ Self \notin Addr /\ NilDB \notin Addr /\ Self # NilDB
    /\ PodClass \in [Addr -> Classes]
    /\ PodOrder \in Seq(Addr)
    \* GetPod lists each pod once: pod names are unique in a namespace.
    /\ \A i, j \in 1..Len(PodOrder) : i # j => PodOrder[i] # PodOrder[j]
    /\ DownAfterNoAlive \in Nat
    /\ SweepInterval \in Nat
    /\ MaxWeights \in Nat

Member == Addr \cup {Self, NilDB}
AgeCap == DownAfterNoAlive + 1
Age == 0..AgeCap
\* What the sweep's copy knows of a *DB: Live while it is still the pool's
\* *DB of its address, else the state and ping age it had when replaced.
DeadObj == [dead : {TRUE}, st : States, age : Age]
Live == [dead |-> FALSE, st |-> Up, age |-> 0]

VARIABLES
    Tidbs,         \* Tidbs[c]: pool.Tidbs of class c
    TidbsWeights,  \* TidbsWeights[c]: pool.TidbsWeights of class c
    RoundRobinQ,   \* RoundRobinQ[c]: indices the balancer table covers
    state,         \* state[a]: db.state of the current *DB of a
    pingAge,       \* pingAge[a]: seconds since db.lastPing of a, capped
    podLive,       \* podLive[a]: GetOnePod finds a and it is not predelete
    reachable,     \* reachable[a]: Open and Ping of a succeed
    swPc,          \* the health sweep goroutine: "sleep", "pools", "scan", "up"
    swSleep,       \* seconds left of its time.Sleep
    swTodo,        \* pools of BackendPools not yet visited by this sweep
    swPool,        \* the pool being scanned
    swList,        \* the copy of pool.Tidbs taken under RLock
    swIdx,         \* the loop index i over that copy
    swObj,         \* Live, or the frozen state of a snapshot *DB replaced since
    crashed,       \* the process has panicked
    bootCls,       \* parseCluster: the class being parsed, or "done"
    bootIdx        \* ParseTidbs: the position in PodOrder (0: the proxy)

vars == <<Tidbs, TidbsWeights, RoundRobinQ, state, pingAge, podLive,
          reachable, swPc, swSleep, swTodo, swPool, swList, swIdx, swObj,
          crashed, bootCls, bootIdx>>
swVars == <<swPc, swSleep, swTodo, swPool, swList, swIdx, swObj>>
envVars == <<podLive, reachable>>
poolVars == <<Tidbs, TidbsWeights, RoundRobinQ>>
bootVars == <<bootCls, bootIdx>>

-----------------------------------------------------------------------------
(* Helpers for the loops over pool.Tidbs.                                  *)

\* s holds a (a loop over pool.Tidbs that compares each addr with a).
Contains(s, a) == \E i \in 1..Len(s) : s[i] = a

\* Faulty variant for the mutation runs: the loop skips the first entry.
IndexOfFromSecond(s, a) ==
    IF \E i \in 2..Len(s) : s[i] = a
      THEN CHOOSE i \in 2..Len(s) : s[i] = a /\ \A j \in 2..(i - 1) : s[j] # a
      ELSE 0

\* Index of the first entry of s equal to a, 0 if there is none.
IndexOf(s, a) ==
    IF Contains(s, a)
      THEN CHOOSE i \in 1..Len(s) : s[i] = a /\ \A j \in 1..(i - 1) : s[j] # a
      ELSE 0

\* A loop comparing Tidbs[i].addr with a dereferences a nil entry before it
\* reaches a (or the end).
NilBefore(s, a) ==
    \E i \in 1..Len(s) : s[i] = NilDB /\ \A j \in 1..(i - 1) : s[j] # a

HasNil(s) == \E i \in 1..Len(s) : s[i] = NilDB

\* The sequence s[1..n] without its k-th entry (the loops of
\* InitBalancerAfterDeleteTidb copy every index but k of Tidbs).
Drop(s, k, n) == [j \in 1..(n - 1) |-> s[IF j < k THEN j ELSE j + 1]]

InPool(a) == \E c \in Classes : Contains(Tidbs[c], a)

\* The *DB of a in the sweep's copy is replaced: freeze its state there.
Retire(a) ==
    swObj' = [swObj EXCEPT ![a] = IF @ = Live
                                    THEN [dead |-> TRUE, st |-> state[a],
                                          age |-> pingAge[a]]
                                    ELSE @]

\* A panic: the process dies, nothing else changes.
Panic ==
    /\ crashed' = TRUE
    /\ UNCHANGED <<poolVars, state, pingAge, envVars, swVars>>

-----------------------------------------------------------------------------
(* Start-up: parseCluster makes two empty pools and, for "tp" then "ap",  *)
(* lists the pods of the class (for "tp" the proxy pod first, which        *)
(* MakeTidbs writes "self@4.0"), and ParseTidbs loops over that list: it   *)
(* appends the weight, then opens the backend and skips it (continue)      *)
(* when Open fails, else appends the *DB.  InitBalancer ends ParseTidbs.   *)
(* parseCluster then starts CheckCluster, whose first sweep runs at once,  *)
(* and the server begins to serve.  The list of a class is GetPod's        *)
(* snapshot: the pods of PodOrder that exist, are not predelete and are of *)
(* the class, in that order.  bootIdx walks PodOrder (0 is the proxy).     *)

\* parseCluster on a fresh process: new pools, every *DB opened anew.
BootReset ==
    /\ Tidbs' = [c \in Classes |-> <<>>]
    /\ TidbsWeights' = [c \in Classes |-> <<>>]
    /\ RoundRobinQ' = [c \in Classes |-> 0]
    /\ state' = [a \in Addr |-> Up]
    /\ pingAge' = [a \in Addr |-> 0]
    /\ swPc' = "pools" /\ swSleep' = 0 /\ swTodo' = Classes
    /\ swPool' = "tp" /\ swList' = <<>> /\ swIdx' = 1
    /\ swObj' = [a \in Addr |-> Live]
    /\ crashed' = FALSE
    /\ bootCls' = "tp" /\ bootIdx' = 0

Init ==
    /\ podLive \in [Addr -> BOOLEAN]
    /\ reachable \in [Addr -> BOOLEAN]
    /\ Tidbs = [c \in Classes |-> <<>>]
    /\ TidbsWeights = [c \in Classes |-> <<>>]
    /\ RoundRobinQ = [c \in Classes |-> 0]
    /\ state = [a \in Addr |-> Up]
    /\ pingAge = [a \in Addr |-> 0]
    /\ swPc = "pools" /\ swSleep = 0 /\ swTodo = Classes
    /\ swPool = "tp" /\ swList = <<>> /\ swIdx = 1
    /\ swObj = [a \in Addr |-> Live]
    /\ crashed = FALSE
    /\ bootCls = "tp" /\ bootIdx = 0

\* The pod at bootIdx is in the list of class c (GetPod's filter).
Listed(a, c) == podLive[a] /\ PodClass[a] = c

\* One iteration of the loop of ParseTidbs.
ParseTidb ==
    LET c == bootCls
        a == PodOrder[bootIdx]
    IN
    /\ c \in Classes /\ bootIdx <= Len(PodOrder)
    /\ \/ /\ bootIdx = 0                          \* "self": no Open
          /\ TidbsWeights' = [TidbsWeights EXCEPT ![c] = Append(@, Self)]
          /\ Tidbs' = [Tidbs EXCEPT ![c] = Append(@, Self)]
       \/ /\ bootIdx > 0 /\ Listed(a, c)
          /\ TidbsWeights' = [TidbsWeights EXCEPT ![c] = Append(@, a)]
          /\ Tidbs' = IF reachable[a]              \* Open fails: continue
                        THEN [Tidbs EXCEPT ![c] = Append(@, a)] ELSE Tidbs
       \/ /\ bootIdx > 0 /\ ~Listed(a, c)
          /\ UNCHANGED <<Tidbs, TidbsWeights>>
    /\ bootIdx' = bootIdx + 1
    /\ UNCHANGED <<RoundRobinQ, state, pingAge, envVars, swVars, crashed,
                   bootCls>>

\* The listing of a class fails: GetProxyPod (tp only, before any entry)
\* or GetPod returns an error or no pod, and the loop breaks with what this
\* attempt appended: nothing, or for tp the proxy alone.  dnsCheck returns
\* nil for the nil Pod, and ParseTidbs parses the shorter list.
ListFailed ==
    /\ bootCls \in Classes
    /\ bootIdx \in IF bootCls = "tp" THEN {0, 1} ELSE {1}
    /\ bootIdx' = Len(PodOrder) + 1
    /\ UNCHANGED <<poolVars, state, pingAge, envVars, swVars, crashed,
                   bootCls>>

\* The end of the list: InitBalancer, then the next class of norms.
ParseDone ==
    /\ bootCls \in Classes /\ bootIdx > Len(PodOrder)
    /\ RoundRobinQ' = [RoundRobinQ EXCEPT ![bootCls] =
                          Len(TidbsWeights[bootCls])]
    /\ bootCls' = IF bootCls = "tp" THEN "ap" ELSE "done"
    /\ bootIdx' = 1
    /\ UNCHANGED <<Tidbs, TidbsWeights, state, pingAge, envVars, swVars,
                   crashed>>

\* The proxy is up: parseCluster has returned and CheckCluster runs.
Running == ~crashed /\ bootCls = "done"

-----------------------------------------------------------------------------
(* Time and the environment: the clock, the pods, the backends' health.    *)

CapAge(n) == IF n < AgeCap THEN n + 1 ELSE AgeCap

\* One second passes: ages grow, the sweep's time.Sleep runs down.
Tick ==
    /\ pingAge' = [a \in Addr |-> CapAge(pingAge[a])]
    /\ swSleep' = IF swSleep > 0 THEN swSleep - 1 ELSE 0
    /\ swObj' = [a \in Addr |-> IF swObj[a] = Live THEN Live
                                ELSE [swObj[a] EXCEPT !.age = CapAge(@)]]
    /\ UNCHANGED <<poolVars, state, envVars, crashed, swPc, swTodo, swPool,
                   swList, swIdx, bootVars>>

\* A pod is created, deleted or labelled predelete; not while ParseTidbs
\* works on the list that GetPod returned for its class.
SetPodLive(a) ==
    /\ bootCls # PodClass[a]
    /\ podLive' = [podLive EXCEPT ![a] = ~@]
    /\ UNCHANGED <<poolVars, state, pingAge, reachable, swVars, crashed,
                   bootVars>>

\* A backend starts or stops answering.
SetReachable(a) ==
    /\ reachable' = [reachable EXCEPT ![a] = ~@]
    /\ UNCHANGED <<poolVars, state, pingAge, podLive, swVars, crashed,
                   bootVars>>

\* The process panicked; Kubernetes restarts it and parseCluster rebuilds
\* the pools from the pod list.
Restart ==
    /\ crashed
    /\ BootReset
    /\ UNCHANGED envVars

-----------------------------------------------------------------------------
(* The operations on a pool.  Each is one step: its lock section (or, for  *)
(* UpDB and DownTidb, its unlocked scan) runs without interference from    *)
(* another writer.  They leave envVars and the sweep's control unchanged;  *)
(* the callers say what happens to those.                                  *)

\* pool.DownTidb(addr, s): copy Tidbs under RLock, then Close the first *DB
\* with that address and store s in its state.
DownTidb(c, a, s) ==
    LET T == Tidbs[c] IN
    \/ /\ T = <<>>                               \* ErrNoTidbDB
       /\ UNCHANGED <<poolVars, state, pingAge, crashed>>
    \/ /\ T # <<>>
       /\ NilBefore(T, a)                        \* Tidb.addr on a nil *DB
       /\ Panic
    \/ /\ T # <<>>
       /\ ~NilBefore(T, a)
       /\ state' = IF Contains(T, a) THEN [state EXCEPT ![a] = s] ELSE state
       /\ UNCHANGED <<poolVars, pingAge, crashed>>

\* pool.UpTidb(addr): UpDB looks up the weight by a loop over Tidbs, opens
\* a new *DB and pings it (on failure it returns nil); then, under Lock,
\* the new *DB (or nil) replaces the one with that address, or is appended
\* when there is none.  The balancer table is not rebuilt.
UpTidb(c, a) ==
    LET T == Tidbs[c]
        k == IndexOf(T, a)
        new == IF reachable[a] THEN a ELSE NilDB
    IN
    \/ /\ HasNil(T) \/ k > Len(TidbsWeights[c])  \* db.addr on nil, W[i] range
       /\ Panic
       /\ UNCHANGED swObj
    \/ /\ ~HasNil(T) /\ k <= Len(TidbsWeights[c])
       /\ Tidbs' = [Tidbs EXCEPT ![c] = IF k > 0 THEN [T EXCEPT ![k] = new]
                                                 ELSE Append(T, new)]
       /\ state' = IF reachable[a] THEN [state EXCEPT ![a] = Up] ELSE state
       /\ pingAge' = IF reachable[a] THEN [pingAge EXCEPT ![a] = 0] ELSE pingAge
       /\ IF k > 0 THEN Retire(a) ELSE UNCHANGED swObj
       /\ UNCHANGED <<TidbsWeights, RoundRobinQ, crashed>>

\* Faulty variant for the mutation runs: the loop stops at the first member.
TidbExistFirstOnly(T, a) == Len(T) > 0 /\ T[1] = a

\* The loop of AddTidb over pool.Tidbs that returns ErrTidbExist.
TidbExist(T, a) == Contains(T, a)

\* cluster.AddTidb(addr, tidbType), called with the pod's own class.  Under
\* Lock: the duplicate check, GetOnePod, the weight appended, then OpenDB;
\* when OpenDB fails the error is returned after the weight was appended.
AddTidb(a) ==
    LET c == PodClass[a]
        T == Tidbs[c]
        W == TidbsWeights[c]
    IN
    /\ Running /\ UNCHANGED bootVars
    /\ \/ /\ NilBefore(T, a)                     \* v.addr on a nil *DB
          /\ Panic
       \/ /\ ~NilBefore(T, a)
          /\ TidbExist(T, a) \/ ~podLive[a]      \* ErrTidbExist, pod == nil
          /\ UNCHANGED <<poolVars, state, pingAge, crashed>>
       \/ /\ ~NilBefore(T, a) /\ ~TidbExist(T, a) /\ podLive[a]
          /\ Len(W) < MaxWeights
          /\ TidbsWeights' = [TidbsWeights EXCEPT ![c] = Append(W, a)]
          /\ \/ /\ reachable[a]                  \* OpenDB succeeds
                /\ Tidbs' = [Tidbs EXCEPT ![c] = Append(T, a)]
                /\ RoundRobinQ' = [RoundRobinQ EXCEPT ![c] = Len(W) + 1]
                /\ state' = [state EXCEPT ![a] = Up]
                /\ pingAge' = [pingAge EXCEPT ![a] = 0]
             \/ /\ ~reachable[a]                 \* OpenDB fails
                /\ UNCHANGED <<Tidbs, RoundRobinQ, state, pingAge>>
          /\ UNCHANGED crashed
    /\ UNCHANGED <<envVars, swVars>>

\* The index of the last entry InitBalancerAfterDeleteTidb copies from the
\* weights when it drops entry k of n.
LastKept(k, n) == IF k = n THEN n - 1 ELSE n

\* cluster.DeleteTidb(addr, tidbType): InitBalancerAfterDeleteTidb under
\* Lock, then the drain loop (util.Retry of CanDelete, 30 x 1s), which
\* only waits and logs and changes no state.
DeleteTidb(a) ==
    LET c == PodClass[a]
        T == Tidbs[c]
        W == TidbsWeights[c]
        n == Len(T)
        k == IndexOf(T, a)
    IN
    /\ Running /\ UNCHANGED bootVars
    /\ \/ /\ n = 0                               \* ErrNoTidbDB
          /\ UNCHANGED <<poolVars, state, pingAge, crashed, swObj>>
       \/ /\ n > 0 /\ NilBefore(T, a)            \* first loop hits nil
          /\ Panic
          /\ UNCHANGED swObj
       \/ /\ n > 0 /\ ~NilBefore(T, a) /\ k = 0  \* ErrTidbNotExist
          /\ UNCHANGED <<poolVars, state, pingAge, crashed, swObj>>
       \/ /\ n = 1 /\ k = 1                      \* the only member
          /\ Tidbs' = [Tidbs EXCEPT ![c] = <<>>]
          /\ TidbsWeights' = [TidbsWeights EXCEPT ![c] = <<>>]
          /\ RoundRobinQ' = [RoundRobinQ EXCEPT ![c] = 0]
          /\ Retire(a)
          /\ UNCHANGED <<state, pingAge, crashed>>
       \/ /\ n > 1 /\ k > 0 /\ ~NilBefore(T, a)
          /\ HasNil(T) \/ LastKept(k, n) > Len(W) \* second loop panics
          /\ Panic
          /\ UNCHANGED swObj
       \/ /\ n > 1 /\ k > 0 /\ ~NilBefore(T, a)
          /\ ~HasNil(T) /\ LastKept(k, n) <= Len(W)
          /\ Tidbs' = [Tidbs EXCEPT ![c] = Drop(T, k, n)]
          /\ TidbsWeights' = [TidbsWeights EXCEPT ![c] = Drop(W, k, n)]
          /\ RoundRobinQ' = [RoundRobinQ EXCEPT ![c] = n - 1]
          /\ Retire(a)
          /\ UNCHANGED <<state, pingAge, crashed>>
    /\ UNCHANGED <<envVars, swPc, swSleep, swTodo, swPool, swList, swIdx>>

\* An operator's DownTidb(addr, ManualDown).
ManualDownTidb(a) ==
    /\ Running /\ UNCHANGED bootVars
    /\ DownTidb(PodClass[a], a, ManualDown)
    /\ UNCHANGED <<envVars, swVars>>

-----------------------------------------------------------------------------
(* The health sweep: CheckCluster calls checkTidbs and sleeps              *)
(* SweepInterval seconds, for as long as cluster.Online, which nothing     *)
(* clears.  checkTidbs visits the pools in Go's map order (any order); for *)
(* each it copies pool.Tidbs under RLock and works on the copy unlocked.   *)

\* The state and ping age of the *DB the sweep's copy holds for a.
ObjState(a) == IF swObj[a] = Live THEN state[a] ELSE swObj[a].st
ObjAge(a) == IF swObj[a] = Live THEN pingAge[a] ELSE swObj[a].age

SweepWake ==
    /\ Running /\ UNCHANGED bootVars
    /\ swPc = "sleep" /\ swSleep = 0
    /\ swPc' = "pools" /\ swTodo' = Classes
    /\ UNCHANGED <<poolVars, state, pingAge, envVars, crashed, swSleep,
                   swPool, swList, swIdx, swObj>>

\* The next pool of the map.  An empty pool ends checkTidbs (return, not
\* continue): the pools not yet visited are skipped for this sweep.
SweepPool(c) ==
    /\ Running /\ UNCHANGED bootVars
    /\ swPc = "pools" /\ c \in swTodo
    /\ IF Tidbs[c] = <<>>
         THEN /\ swPc' = "sleep" /\ swSleep' = SweepInterval
              /\ UNCHANGED <<swTodo, swPool, swList, swIdx, swObj>>
         ELSE /\ swPc' = "scan" /\ swTodo' = swTodo \ {c} /\ swPool' = c
              /\ swList' = Tidbs[c] /\ swIdx' = 1
              /\ swObj' = [a \in Addr |-> Live]
              /\ UNCHANGED swSleep
    /\ UNCHANGED <<poolVars, state, pingAge, envVars, crashed>>

SweepDone ==
    /\ Running /\ UNCHANGED bootVars
    /\ swPc = "pools" /\ swTodo = {}
    /\ swPc' = "sleep" /\ swSleep' = SweepInterval
    /\ UNCHANGED <<poolVars, state, pingAge, envVars, crashed, swTodo,
                   swPool, swList, swIdx, swObj>>

\* The end of the copy: on to the next pool.
SweepNextPool ==
    /\ Running /\ UNCHANGED bootVars
    /\ swPc = "scan" /\ swIdx > Len(swList)
    /\ swPc' = "pools"
    /\ UNCHANGED <<poolVars, state, pingAge, envVars, crashed, swSleep,
                   swTodo, swPool, swList, swIdx, swObj>>

\* Tidbs[i]: skip self; Ping; on success a Down *DB goes to UpTidb (phase
\* "up"), any other gets SetLastPing and, unless ManualDown, state Up; on
\* failure, after DownAfterNoAlive seconds without a ping, DownTidb(addr,
\* Down) on the pool.
SweepProbe ==
    LET e == swList[swIdx] IN
    /\ Running /\ UNCHANGED bootVars
    /\ swPc = "scan" /\ swIdx <= Len(swList)
    /\ \/ /\ e = NilDB                           \* Tidbs[i].Self on nil
          /\ Panic
          /\ UNCHANGED swVars
       \/ /\ e = Self
          /\ swIdx' = swIdx + 1
          /\ UNCHANGED <<poolVars, state, pingAge, crashed, swPc, swSleep,
                         swTodo, swPool, swList, swObj>>
       \/ /\ e \in Addr /\ reachable[e] /\ ObjState(e) = Down
          /\ swPc' = "up"
          /\ UNCHANGED <<poolVars, state, pingAge, crashed, swSleep, swTodo,
                         swPool, swList, swIdx, swObj>>
       \/ /\ e \in Addr /\ reachable[e] /\ ObjState(e) # Down
          /\ IF swObj[e] = Live
               THEN /\ pingAge' = [pingAge EXCEPT ![e] = 0]
                    /\ state' = [state EXCEPT ![e] =
                                   IF @ = ManualDown THEN @ ELSE Up]
               ELSE UNCHANGED <<pingAge, state>>
          /\ swIdx' = swIdx + 1
          /\ UNCHANGED <<poolVars, crashed, swPc, swSleep, swTodo, swPool,
                         swList, swObj>>
       \/ /\ e \in Addr /\ ~reachable[e]
          /\ DownAfterNoAlive > 0 /\ ObjAge(e) > DownAfterNoAlive
          /\ DownTidb(swPool, e, Down)
          /\ crashed' \/ swIdx' = swIdx + 1       \* on, unless it panicked
          /\ UNCHANGED <<swPc, swSleep, swTodo, swPool, swList, swObj>>
       \/ /\ e \in Addr /\ ~reachable[e]
          /\ ~(DownAfterNoAlive > 0 /\ ObjAge(e) > DownAfterNoAlive)
          /\ swIdx' = swIdx + 1
          /\ UNCHANGED <<poolVars, state, pingAge, crashed, swPc, swSleep,
                         swTodo, swPool, swList, swObj>>
    /\ UNCHANGED envVars

\* pool.UpTidb for the Down *DB that answered.  The SetLastPing and state
\* Up that follow it write the *DB of the copy, which UpTidb has just
\* replaced (or which had already left the pool): they change nothing the
\* pool still holds.
SweepUp ==
    /\ Running /\ UNCHANGED bootVars
    /\ swPc = "up"
    /\ UpTidb(swPool, swList[swIdx])
    /\ crashed' \/ (swPc' = "scan" /\ swIdx' = swIdx + 1)
    /\ UNCHANGED <<envVars, swSleep, swTodo, swPool, swList>>

SweepStep ==
    \/ SweepWake \/ (\E c \in Classes : SweepPool(c)) \/ SweepDone
    \/ SweepNextPool \/ SweepProbe \/ SweepUp

-----------------------------------------------------------------------------

Next ==
    \/ Tick
    \/ Restart
    \/ ParseTidb
    \/ ParseDone
    \/ ListFailed
    \/ \E a \in Addr : \/ SetPodLive(a) \/ SetReachable(a)
                       \/ AddTidb(a) \/ DeleteTidb(a)
                       \/ ManualDownTidb(a)
    \/ SweepStep

Spec == Init /\ [][Next]_vars

-----------------------------------------------------------------------------
(* Properties.                                                             *)

TypeOK ==
    /\ Tidbs \in [Classes -> Seq(Member)]
    /\ TidbsWeights \in [Classes -> Seq(Addr \cup {Self})]
    /\ RoundRobinQ \in [Classes -> Nat]
    /\ state \in [Addr -> States]
    /\ pingAge \in [Addr -> Age]
    /\ podLive \in [Addr -> BOOLEAN]
    /\ reachable \in [Addr -> BOOLEAN]
    /\ swPc \in {"sleep", "pools", "scan", "up"}
    /\ swSleep \in 0..SweepInterval
    /\ swTodo \subseteq Classes
    /\ swPool \in Classes
    /\ swList \in Seq(Member)
    /\ swIdx \in Nat \ {0}
    /\ swObj \in [Addr -> {Live} \cup DeadObj]
    /\ crashed \in BOOLEAN
    /\ bootCls \in Classes \cup {"done"}
    /\ bootIdx \in 0..(Len(PodOrder) + 1)

(* No pool ever holds two *DBs of the same address.  AddTidb rejects a     *)
(* duplicate under the lock, but UpTidb, called by the sweep on its        *)
(* unlocked copy, appends the address when it is no longer in the pool:    *)
(* the two must not both add it.                                          *)
NoDuplicateMember ==
    \A c \in Classes : \A i, j \in 1..Len(Tidbs[c]) :
        i # j /\ Tidbs[c][i] \in Addr => Tidbs[c][i] # Tidbs[c][j]

(* The weights are index-aligned with the members (the spec's weight       *)
(* alignment invariant): TidbsWeights[i] is the weight parsed for          *)
(* Tidbs[i], so that InitBalancer and UpDB give each backend its own       *)
(* weight and GetNextTidb never indexes past Tidbs.                        *)
WeightsAligned ==
    \A c \in Classes :
        /\ Len(TidbsWeights[c]) = Len(Tidbs[c])
        /\ \A i \in 1..Len(Tidbs[c]) :
              Tidbs[c][i] # NilDB => TidbsWeights[c][i] = Tidbs[c][i]

(* No pool holds a nil *DB: every loop over pool.Tidbs (checkTidbs,        *)
(* AddTidb, DeleteTidb, UpTidb, DownTidb) dereferences its entries.        *)
NoNilMember == \A c \in Classes : ~HasNil(Tidbs[c])

(* The health sweep never changes the state of a ManualDown backend (the   *)
(* spec: ManualDown is operator-forced and never cleared by the sweep).    *)
SweepKeepsManualDown ==
    [][SweepStep => \A a \in Addr :
                      InPool(a) /\ state[a] = ManualDown
                        => state'[a] = ManualDown]_vars

(* A backend of a pool is set Down only when its own last successful ping  *)
(* is more than DownAfterNoAlive seconds old (checkTidbs' grace window).   *)
GraceWindow ==
    [][\A a \in Addr :
         InPool(a) /\ state[a] # Down /\ state'[a] = Down
           => pingAge[a] > DownAfterNoAlive]_vars

(* A backend joins a pool only while its pod exists and is not marked      *)
(* predelete (the GetOnePod check of AddTidb, the pod list of a restart):  *)
(* a member the reconciler removed does not come back by itself.           *)
JoinOnlyLivePods ==
    [][\A a \in Addr : ~InPool(a) /\ InPool(a)' => podLive[a]]_vars
(* Every sweep probes every pool that holds a backend: when checkTidbs     *)
(* ends and CheckCluster sleeps, no pool with a backend is left unvisited, *)
(* whatever order Go's map iteration picks (an empty pool must be skipped, *)
(* not end the sweep).                                                     *)
SweepVisitsEveryPool ==
    [][swPc = "pools" /\ swPc' = "sleep" /\ ~crashed'
         => \A c \in swTodo, a \in Addr : ~Contains(Tidbs[c], a)]_vars
====
