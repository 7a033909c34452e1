---------------------------- MODULE ClusterProofs ----------------------------
(***************************************************************************)
(* Proofs about the backend pools of Cluster: the type invariant and       *)
(* NoDuplicateMember hold in every reachable state, for every set of pods, *)
(* every listing order and every value of the timing constants.           *)
(***************************************************************************)
EXTENDS Cluster, WellFoundedInduction, TLAPS

\* While the sweep is in phase "up" it works on an address of its copy:
\* SweepUp calls UpTidb on swList[swIdx].
SweepUpTarget ==
    swPc = "up" => swIdx \in 1..Len(swList) /\ swList[swIdx] \in Addr

\* During start-up the pool being parsed holds only pods listed before
\* bootIdx, and the ap pool is still empty while tp is parsed.
BootMembers ==
    /\ bootCls \in Classes =>
         \A i \in 1..Len(Tidbs[bootCls]) :
            Tidbs[bootCls][i] \in Addr =>
              \E j \in 1..(bootIdx - 1) : PodOrder[j] = Tidbs[bootCls][i]
    /\ bootCls = "tp" => Tidbs["ap"] = <<>>

(* The inductive invariant.  TypeOK is not inductive alone: SweepUp reads  *)
(* reachable[swList[swIdx]], which is a value only when the probe stopped  *)
(* at an address of its copy (SweepUpTarget).  NoDuplicateMember is not   *)
(* inductive alone: ParseTidb appends each listed pod without a check,     *)
(* which is safe only because the pool being parsed holds just the pods   *)
(* listed before it, each listed once (BootMembers).                       *)
IInv == TypeOK /\ NoDuplicateMember /\ SweepUpTarget /\ BootMembers

-----------------------------------------------------------------------------
(* Lemmas about the helpers on sequences.                                  *)

\* No address occurs twice in s (NoDuplicateMember for one pool).
Distinct(s) == \A i, j \in 1..Len(s) : i # j /\ s[i] \in Addr => s[i] # s[j]

(* When s contains a, IndexOf finds its first occurrence: the loops of     *)
(* UpTidb and DeleteTidb stop at an index of s that holds a.  The least    *)
(* such index exists because < is well-founded on Nat.                     *)
LEMMA IndexOfFound ==
    ASSUME NEW S, NEW s \in Seq(S), NEW a, Contains(s, a)
    PROVE  /\ IndexOf(s, a) \in 1..Len(s)
           /\ s[IndexOf(s, a)] = a
<1> DEFINE T == {i \in 1..Len(s) : s[i] = a}
<1>1. T \subseteq Nat /\ T # {}
      BY DEF Contains
<1>2. \E x \in T : \A y \in T : ~(<<y, x>> \in OpToRel(<, Nat))
      BY <1>1, WFMin, NatLessThanWellFounded, Zenon
<1>3. PICK i \in T : \A y \in T : ~(<<y, i>> \in OpToRel(<, Nat))
      BY <1>2, Zenon
<1>4. i \in 1..Len(s) /\ s[i] = a
      OBVIOUS
<1>5. \A j \in 1..(i - 1) : s[j] # a
      <2>1. SUFFICES ASSUME NEW j \in 1..(i - 1), s[j] = a
                     PROVE  FALSE
            OBVIOUS
      <2>2. j \in T
            BY <1>4, <2>1
      <2>3. j \in Nat /\ i \in Nat /\ j < i
            BY <2>1
      <2>4. <<j, i>> \in OpToRel(<, Nat)
            BY <2>3, Zenon DEF OpToRel
      <2> QED BY <1>3, <2>2, <2>4, Zenon
<1>6. \E k \in 1..Len(s) : s[k] = a /\ \A j \in 1..(k - 1) : s[j] # a
      BY <1>4, <1>5
<1> QED BY <1>6 DEF IndexOf

(* IndexOf is 0 exactly when s does not contain a. *)
LEMMA IndexOfAbsent ==
    ASSUME NEW s, NEW a, ~Contains(s, a)
    PROVE  IndexOf(s, a) = 0
BY DEF IndexOf

(* Appending an entry that is not an address already in s keeps s free of  *)
(* duplicates (AddTidb after its TidbExist loop, UpTidb when IndexOf is 0, *)
(* ParseTidb for a pod not yet listed).                                    *)
LEMMA DistinctAppend ==
    ASSUME NEW S, NEW s \in Seq(S), Distinct(s), NEW e,
           e \in Addr => ~Contains(s, e)
    PROVE  Distinct(Append(s, e))
BY DEF Distinct, Contains

(* Overwriting entry k with the address it holds, or with something that  *)
(* is not an address, keeps s free of duplicates (UpTidb's replacement).   *)
LEMMA DistinctExcept ==
    ASSUME NEW S, NEW s \in Seq(S), Distinct(s), NEW k \in 1..Len(s), NEW e,
           e = s[k] \/ e \notin Addr
    PROVE  Distinct([s EXCEPT ![k] = e])
BY DEF Distinct

(* Drop(s, k, n) reads s at n - 1 distinct indices: it is a sequence over  *)
(* the same set when s has LastKept(k, n) entries, and it keeps the       *)
(* entries distinct when s has exactly n.                                  *)
LEMMA DropType ==
    ASSUME NEW S, NEW s \in Seq(S), NEW n \in Nat \ {0}, NEW k \in 1..n,
           LastKept(k, n) <= Len(s)
    PROVE  /\ Drop(s, k, n) \in Seq(S)
           /\ Len(Drop(s, k, n)) = n - 1
<1>1. \A j \in 1..(n - 1) : (IF j < k THEN j ELSE j + 1) \in 1..Len(s)
      BY DEF LastKept
<1>2. Drop(s, k, n) \in [1..(n - 1) -> S]
      BY <1>1 DEF Drop
<1> QED BY <1>2

LEMMA DistinctDrop ==
    ASSUME NEW S, NEW s \in Seq(S), Distinct(s), NEW k \in 1..Len(s)
    PROVE  Distinct(Drop(s, k, Len(s)))
<1> DEFINE n == Len(s)
           ix(j) == IF j < k THEN j ELSE j + 1
<1>1. \A j \in 1..(n - 1) : ix(j) \in 1..n
      OBVIOUS
<1>2. \A i, j \in 1..(n - 1) : i # j => ix(i) # ix(j)
      OBVIOUS
<1>3. Len(Drop(s, k, n)) = n - 1 /\ \A j \in 1..(n - 1) : Drop(s, k, n)[j] = s[ix(j)]
      BY DEF Drop
<1> QED BY <1>1, <1>2, <1>3 DEF Distinct
(* CapAge keeps an age within 0..AgeCap. *)
LEMMA CapAgeType ==
    ASSUME NEW n \in Age
    PROVE  CapAge(n) \in Age
BY ClusterAssumption DEF CapAge, Age, AgeCap

NoDupDistinct == NoDuplicateMember <=> \A c \in Classes : Distinct(Tidbs[c])

(* NoDuplicateMember says that each pool is Distinct. *)
LEMMA NoDupIsDistinct == NoDupDistinct /\ NoDupDistinct'
BY DEF NoDupDistinct, NoDuplicateMember, Distinct

-----------------------------------------------------------------------------
(* Each action preserves IInv.                                             *)

LEMMA InitIInv == Init => IInv
<1> SUFFICES ASSUME Init PROVE IInv
    OBVIOUS
<1>1. TypeOK
  <2>1. Tidbs \in [Classes -> Seq(Member)] /\ TidbsWeights \in [Classes -> Seq(Addr \cup {Self})]
        BY DEF Init
  <2>2. RoundRobinQ \in [Classes -> Nat] /\ state \in [Addr -> States]
        BY DEF Init, States, Up
  <2>3. pingAge \in [Addr -> Age]
        BY ClusterAssumption DEF Init, Age, AgeCap
  <2>4. swObj \in [Addr -> {Live} \cup DeadObj]
        BY DEF Init
  <2>5. swSleep \in 0..SweepInterval /\ bootIdx \in 0..(Len(PodOrder) + 1)
        BY ClusterAssumption DEF Init
  <2>6. podLive \in [Addr -> BOOLEAN] /\ reachable \in [Addr -> BOOLEAN]
        BY DEF Init
  <2>9. swIdx \in Nat \ {0}
        BY DEF Init
  <2>10. crashed \in BOOLEAN
         BY Zenon DEF Init
  <2>8. swList \in Seq(Member)
        BY DEF Init
  <2>7. /\ swPc \in {"sleep", "pools", "scan", "up"} /\ swTodo \subseteq Classes
        /\ swPool \in Classes /\ bootCls \in Classes \cup {"done"}
        BY DEF Init, Classes
  <2> QED BY <2>1, <2>2, <2>3, <2>4, <2>5, <2>6, <2>7, <2>8, <2>9,
             <2>10 DEF TypeOK, Classes
<1>2. NoDuplicateMember
      BY DEF Init, NoDuplicateMember
<1>3. SweepUpTarget
      BY DEF Init, SweepUpTarget
<1>4. BootMembers
      BY DEF Init, BootMembers, Classes
<1> QED BY <1>1, <1>2, <1>3, <1>4 DEF IInv

(* A panic changes crashed only. *)
LEMMA PanicIInv ==
    ASSUME IInv, Panic, UNCHANGED bootVars
    PROVE  IInv'
<1>1. TypeOK'
      BY DEF IInv, TypeOK, Panic, poolVars, envVars, swVars, bootVars
<1>2. (NoDuplicateMember /\ SweepUpTarget /\ BootMembers)'
      BY DEF IInv, NoDuplicateMember, SweepUpTarget, BootMembers, Panic,
             poolVars, swVars, bootVars
<1> QED BY <1>1, <1>2 DEF IInv

LEMMA TickIInv ==
    ASSUME IInv, Tick
    PROVE  IInv'
<1>1. pingAge' \in [Addr -> Age]
      BY CapAgeType DEF IInv, TypeOK, Tick
<1>2. swObj' \in [Addr -> {Live} \cup DeadObj]
      BY CapAgeType DEF IInv, TypeOK, Tick, DeadObj
<1>3. swSleep' \in 0..SweepInterval
      BY ClusterAssumption DEF IInv, TypeOK, Tick
<1>4. TypeOK'
      BY <1>1, <1>2, <1>3 DEF IInv, TypeOK, Tick, poolVars, envVars, bootVars
<1>5. (NoDuplicateMember /\ SweepUpTarget /\ BootMembers)'
      BY DEF IInv, NoDuplicateMember, SweepUpTarget, BootMembers, Tick,
             poolVars, bootVars
<1> QED BY <1>4, <1>5 DEF IInv

LEMMA EnvIInv ==
    ASSUME IInv, NEW a \in Addr, SetPodLive(a) \/ SetReachable(a)
    PROVE  IInv'
<1>1. TypeOK'
      BY DEF IInv, TypeOK, SetPodLive, SetReachable, poolVars, swVars, bootVars
<1>2. (NoDuplicateMember /\ SweepUpTarget /\ BootMembers)'
      BY DEF IInv, NoDuplicateMember, SweepUpTarget, BootMembers, SetPodLive,
             SetReachable, poolVars, swVars, bootVars
<1> QED BY <1>1, <1>2 DEF IInv

LEMMA RestartIInv ==
    ASSUME IInv, Restart
    PROVE  IInv'
<1>1. podLive' \in [Addr -> BOOLEAN] /\ reachable' \in [Addr -> BOOLEAN]
      BY DEF IInv, TypeOK, Restart, envVars
<1>2. TypeOK'
  <2>1. /\ Tidbs' \in [Classes -> Seq(Member)]
        /\ TidbsWeights' \in [Classes -> Seq(Addr \cup {Self})]
        /\ RoundRobinQ' \in [Classes -> Nat] /\ state' \in [Addr -> States]
        BY DEF Restart, BootReset, States, Up
  <2>2. pingAge' \in [Addr -> Age]
        BY ClusterAssumption DEF Restart, BootReset, Age, AgeCap
  <2>3. swObj' \in [Addr -> {Live} \cup DeadObj]
        BY DEF Restart, BootReset
  <2>4. swSleep' \in 0..SweepInterval /\ bootIdx' \in 0..(Len(PodOrder) + 1)
        BY ClusterAssumption DEF Restart, BootReset
  <2>5. swList' \in Seq(Member) /\ swIdx' \in Nat \ {0}
        BY DEF Restart, BootReset
  <2>7. crashed' \in BOOLEAN
        BY Zenon DEF Restart, BootReset
  <2>6. /\ swPc' \in {"sleep", "pools", "scan", "up"} /\ swTodo' \subseteq Classes
        /\ swPool' \in Classes /\ bootCls' \in Classes \cup {"done"}
        BY DEF Restart, BootReset, Classes
  <2> QED BY <1>1, <2>1, <2>2, <2>3, <2>4, <2>5, <2>6, <2>7
          DEF TypeOK, Classes
<1>3. (NoDuplicateMember /\ SweepUpTarget /\ BootMembers)'
      BY DEF NoDuplicateMember, SweepUpTarget, BootMembers, Restart, BootReset,
             Classes
<1> QED BY <1>2, <1>3 DEF IInv
(* A step that leaves the pools and start-up alone keeps them duplicate-   *)
(* free and BootMembers true.                                             *)
LEMMA PoolsSame ==
    ASSUME IInv, UNCHANGED <<Tidbs, bootVars>>
    PROVE  (NoDuplicateMember /\ BootMembers)'
BY DEF IInv, NoDuplicateMember, BootMembers, bootVars

(* A step that leaves the sweep's phase, copy and index alone keeps         *)
(* SweepUpTarget.                                                          *)
LEMMA SweepSame ==
    ASSUME IInv, UNCHANGED <<swPc, swList, swIdx>>
    PROVE  SweepUpTarget'
BY DEF IInv, SweepUpTarget

(* The sweep's control steps: they move swPc between "sleep", "pools" and  *)
(* "scan" and take a copy of a pool, never entering "up".                  *)
LEMMA SweepControlIInv ==
    ASSUME IInv,
           \/ SweepWake \/ SweepDone \/ SweepNextPool
           \/ \E c \in Classes : SweepPool(c)
    PROVE  IInv'
<1>1. UNCHANGED <<Tidbs, bootVars>> /\ swPc' # "up"
      BY DEF SweepWake, SweepDone, SweepNextPool, SweepPool, poolVars
<1>2. SweepUpTarget'
      BY <1>1 DEF SweepUpTarget
<1>3. UNCHANGED <<TidbsWeights, RoundRobinQ, state, pingAge, envVars, crashed>>
      BY DEF SweepWake, SweepDone, SweepNextPool, SweepPool, poolVars
<1>4. /\ swSleep' \in 0..SweepInterval /\ swTodo' \subseteq Classes
      /\ swPool' \in Classes /\ swList' \in Seq(Member) /\ swIdx' \in Nat \ {0}
      /\ swObj' \in [Addr -> {Live} \cup DeadObj]
      /\ swPc' \in {"sleep", "pools", "scan", "up"}
  <2>1. CASE SweepWake \/ SweepNextPool
        BY <2>1 DEF IInv, TypeOK, SweepWake, SweepNextPool
  <2>2. CASE SweepDone
        BY <2>2, ClusterAssumption DEF IInv, TypeOK, SweepDone
  <2>3. CASE \E c \in Classes : SweepPool(c)
    <3>1. PICK c \in Classes : SweepPool(c)
          BY <2>3
    <3>2. CASE Tidbs[c] = <<>>
          BY <3>1, <3>2, ClusterAssumption DEF IInv, TypeOK, SweepPool
    <3>3. CASE Tidbs[c] # <<>>
          BY <3>1, <3>3 DEF IInv, TypeOK, SweepPool
    <3> QED BY <3>2, <3>3
  <2> QED BY <2>1, <2>2, <2>3
<1>5. TypeOK'
      BY <1>1, <1>3, <1>4 DEF IInv, TypeOK, envVars, bootVars
<1> QED BY <1>1, <1>2, <1>5, PoolsSame DEF IInv

(* InitBalancer at the end of a class, and the move to the next class.    *)
LEMMA ParseDoneIInv ==
    ASSUME IInv, ParseDone
    PROVE  IInv'
<1>1. RoundRobinQ' \in [Classes -> Nat]
      BY DEF IInv, TypeOK, ParseDone
<1>2. bootCls' \in Classes \cup {"done"} /\ bootIdx' \in 0..(Len(PodOrder) + 1)
      BY ClusterAssumption DEF ParseDone, Classes
<1>3. TypeOK'
      BY <1>1, <1>2 DEF IInv, TypeOK, ParseDone, envVars, swVars
<1>4. NoDuplicateMember'
      BY DEF IInv, NoDuplicateMember, ParseDone
<1>5. BootMembers'
      <2>1. CASE bootCls = "tp"
            BY <2>1 DEF IInv, BootMembers, ParseDone, Classes
      <2>2. CASE bootCls = "ap"
            BY <2>2 DEF ParseDone, BootMembers, Classes
      <2> QED BY <2>1, <2>2 DEF ParseDone, Classes
<1>6. SweepUpTarget'
      BY SweepSame DEF ParseDone, swVars
<1> QED BY <1>3, <1>4, <1>5, <1>6 DEF IInv
(* A failed listing ends the class early: the pool keeps the entries      *)
(* parsed so far, all of them listed before the new, larger bootIdx.      *)
LEMMA ListFailedIInv ==
    ASSUME IInv, ListFailed
    PROVE  IInv'
<1>1. bootIdx \in 0..(Len(PodOrder) + 1) /\ bootIdx' = Len(PodOrder) + 1
      BY DEF IInv, TypeOK, ListFailed
<1>2. TypeOK'
      BY <1>1 DEF IInv, TypeOK, ListFailed, poolVars, envVars, swVars
<1>3. NoDuplicateMember'
      BY DEF IInv, NoDuplicateMember, ListFailed, poolVars
<1>4. BootMembers'
      BY <1>1 DEF IInv, BootMembers, ListFailed, poolVars
<1>5. SweepUpTarget'
      BY SweepSame DEF ListFailed, swVars
<1> QED BY <1>2, <1>3, <1>4, <1>5 DEF IInv
(* Appending to one pool an entry that is not an address it already holds  *)
(* keeps the pools typed and free of duplicates.                           *)
LEMMA AppendToPool ==
    ASSUME IInv, NEW c \in Classes, NEW e \in Member,
           e \in Addr => ~Contains(Tidbs[c], e),
           Tidbs' = [Tidbs EXCEPT ![c] = Append(Tidbs[c], e)]
    PROVE  Tidbs' \in [Classes -> Seq(Member)] /\ NoDuplicateMember'
<1>1. Tidbs[c] \in Seq(Member) /\ Distinct(Tidbs[c])
      BY NoDupIsDistinct DEF IInv, TypeOK, NoDupDistinct
<1>2. Distinct(Append(Tidbs[c], e))
      BY <1>1, DistinctAppend
<1>3. \A d \in Classes : Distinct(Tidbs'[d])
      BY <1>1, <1>2, NoDupIsDistinct DEF IInv, TypeOK, NoDupDistinct
<1> QED BY <1>3, NoDupIsDistinct DEF IInv, TypeOK, NoDupDistinct

(* The pod ParseTidb reaches is not yet in the pool being parsed: every    *)
(* address there is a pod listed before it, and PodOrder lists each pod    *)
(* once.                                                                   *)
LEMMA ParseFresh ==
    ASSUME IInv, bootCls \in Classes, bootIdx \in 1..Len(PodOrder)
    PROVE  ~Contains(Tidbs[bootCls], PodOrder[bootIdx])
<1> SUFFICES ASSUME NEW i \in 1..Len(Tidbs[bootCls]),
                    Tidbs[bootCls][i] = PodOrder[bootIdx]
             PROVE  FALSE
    BY DEF Contains
<1>1. Tidbs[bootCls][i] \in Addr
      BY ClusterAssumption
<1>2. PICK j \in 1..(bootIdx - 1) : PodOrder[j] = Tidbs[bootCls][i]
      BY <1>1 DEF IInv, BootMembers
<1> QED BY <1>2, ClusterAssumption

(* One iteration of ParseTidbs.                                            *)
LEMMA ParseTidbIInv ==
    ASSUME IInv, ParseTidb
    PROVE  IInv'
<1> DEFINE c == bootCls
           a == PodOrder[bootIdx]
           T == Tidbs[c]
<1>1. /\ c \in Classes /\ bootIdx \in 0..Len(PodOrder)
      /\ bootIdx' = bootIdx + 1 /\ bootCls' = c
      /\ T \in Seq(Member) /\ TidbsWeights[c] \in Seq(Addr \cup {Self})
      BY DEF IInv, TypeOK, ParseTidb
<1>2. bootIdx > 0 => a \in Addr /\ ~Contains(T, a)
      BY <1>1, ParseFresh, ClusterAssumption
<1>3. \E e \in {Self} \cup {PodOrder[k] : k \in {bootIdx} \ {0}} :
          /\ e \in Addr => ~Contains(T, e)
          /\ TidbsWeights' = TidbsWeights
             \/ TidbsWeights' = [TidbsWeights EXCEPT ![c] = Append(@, e)]
          /\ Tidbs' = Tidbs \/ Tidbs' = [Tidbs EXCEPT ![c] = Append(T, e)]
      BY <1>2, ClusterAssumption DEF ParseTidb
<1>4. PICK e \in {Self} \cup {PodOrder[k] : k \in {bootIdx} \ {0}} :
          /\ e \in Addr => ~Contains(T, e)
          /\ TidbsWeights' = TidbsWeights
             \/ TidbsWeights' = [TidbsWeights EXCEPT ![c] = Append(@, e)]
          /\ Tidbs' = Tidbs \/ Tidbs' = [Tidbs EXCEPT ![c] = Append(T, e)]
      BY <1>3
<1>5. e \in Member /\ e \in Addr \cup {Self} /\ (e \in Addr => e = a /\ bootIdx > 0)
      BY <1>1, ClusterAssumption DEF Member
<1>6. Tidbs' \in [Classes -> Seq(Member)] /\ NoDuplicateMember'
  <2>1. CASE Tidbs' = Tidbs
        BY <2>1 DEF IInv, TypeOK, NoDuplicateMember
  <2>2. CASE Tidbs' = [Tidbs EXCEPT ![c] = Append(T, e)]
        BY <1>1, <1>4, <1>5, <2>2, AppendToPool
  <2> QED BY <1>4, <2>1, <2>2
<1>7. TidbsWeights' \in [Classes -> Seq(Addr \cup {Self})]
  <2>1. CASE TidbsWeights' = TidbsWeights
        BY <2>1 DEF IInv, TypeOK
  <2>2. CASE TidbsWeights' = [TidbsWeights EXCEPT ![c] = Append(@, e)]
        BY <1>1, <1>5, <2>2 DEF IInv, TypeOK
  <2> QED BY <1>4, <2>1, <2>2
<1>8. bootIdx' \in 0..(Len(PodOrder) + 1)
      BY <1>1, ClusterAssumption DEF ParseTidb
<1>9. TypeOK'
      BY <1>6, <1>7, <1>8, <1>1 DEF IInv, TypeOK, ParseTidb, envVars, swVars
<1>10. BootMembers'
  <2>1. \A i \in 1..Len(Tidbs'[c]) :
           Tidbs'[c][i] \in Addr =>
             \E j \in 1..(bootIdx' - 1) : PodOrder[j] = Tidbs'[c][i]
    <3>1. CASE Tidbs' = Tidbs
          BY <1>1, <3>1 DEF IInv, BootMembers
    <3>2. CASE Tidbs' = [Tidbs EXCEPT ![c] = Append(T, e)]
      <4>1. Tidbs'[c] = Append(T, e)
            BY <1>1, <3>2 DEF IInv, TypeOK
      <4>2. \A i \in 1..Len(T) :
               T[i] \in Addr => \E j \in 1..(bootIdx' - 1) : PodOrder[j] = T[i]
            BY <1>1 DEF IInv, BootMembers
      <4>3. e \in Addr => \E j \in 1..(bootIdx' - 1) : PodOrder[j] = e
            BY <1>1, <1>5
      <4> QED BY <1>1, <4>1, <4>2, <4>3
    <3> QED BY <1>4, <3>1, <3>2
  <2>2. c = "tp" => Tidbs'["ap"] = <<>>
    <3>1. CASE Tidbs' = Tidbs
          BY <3>1 DEF IInv, BootMembers
    <3>2. CASE Tidbs' = [Tidbs EXCEPT ![c] = Append(T, e)]
          BY <1>1, <3>2 DEF IInv, BootMembers, TypeOK, Classes
    <3> QED BY <1>4, <3>1, <3>2
  <2> QED BY <1>1, <2>1, <2>2 DEF BootMembers
<1>11. SweepUpTarget'
       BY SweepSame DEF ParseTidb, swVars
<1> QED BY <1>6, <1>9, <1>10, <1>11 DEF IInv
(* Retiring the *DB of a freezes a state and an age of the right types.   *)
LEMMA RetireType ==
    ASSUME TypeOK, NEW a \in Addr, Retire(a)
    PROVE  swObj' \in [Addr -> {Live} \cup DeadObj]
BY DEF TypeOK, Retire, DeadObj

(* Once start-up is over, BootMembers holds whatever the pools are.       *)
LEMMA RunningBoot ==
    ASSUME Running, UNCHANGED bootVars
    PROVE  BootMembers'
BY DEF Running, bootVars, BootMembers, Classes

(* An operator's DownTidb(addr, ManualDown). *)
LEMMA ManualDownIInv ==
    ASSUME IInv, NEW a \in Addr, ManualDownTidb(a)
    PROVE  IInv'
<1>1. CASE Panic
      BY <1>1, PanicIInv DEF ManualDownTidb
<1>2. CASE ~Panic
  <2>1. UNCHANGED <<poolVars, pingAge, crashed, envVars, swVars, bootVars>>
        /\ state' \in [Addr -> States]
        BY <1>2 DEF ManualDownTidb, DownTidb, IInv, TypeOK, States
  <2>2. TypeOK'
        BY <2>1 DEF IInv, TypeOK, poolVars, envVars, swVars, bootVars
  <2> QED BY <2>1, <2>2, PoolsSame, SweepSame DEF IInv, poolVars, swVars
<1> QED BY <1>1, <1>2

(* One probe of checkTidbs' loop, one case per branch on the entry e.     *)
LEMMA SweepProbeIInv ==
    ASSUME IInv, SweepProbe
    PROVE  IInv'
<1> DEFINE e == swList[swIdx]
           Moves == UNCHANGED <<poolVars, crashed, swPc, swSleep, swTodo,
                                swPool, swList, swObj>>
                    /\ swIdx' = swIdx + 1
<1>1. Running /\ UNCHANGED <<bootVars, envVars>> /\ swPc = "scan"
      /\ swIdx \in 1..Len(swList) /\ e \in Member
      BY DEF SweepProbe, IInv, TypeOK
<1>2. 0 \in Age
      BY ClusterAssumption DEF Age, AgeCap
(* A probe that moves on to the next entry and types state and pingAge.   *)
<1>3. ASSUME Moves, state' \in [Addr -> States], pingAge' \in [Addr -> Age]
      PROVE  IInv'
  <2>1. TypeOK'
        BY <1>1, <1>3 DEF IInv, TypeOK, envVars, bootVars, poolVars
  <2>2. SweepUpTarget'
        BY <1>1, <1>3 DEF SweepUpTarget
  <2> QED BY <1>1, <1>3, <2>1, <2>2, PoolsSame, RunningBoot DEF IInv, poolVars
<1>4. CASE e = NilDB
      <2>1. Panic /\ UNCHANGED swVars
            BY <1>4, ClusterAssumption DEF SweepProbe
      <2> QED BY <1>1, <2>1, PanicIInv
<1>5. CASE e = Self
      <2>1. Moves /\ UNCHANGED <<state, pingAge>>
            BY <1>5, ClusterAssumption DEF SweepProbe
      <2> QED BY <2>1, <1>3 DEF IInv, TypeOK
<1>6. CASE e \in Addr /\ reachable[e] /\ ObjState(e) = Down
      <2>1. swPc' = "up" /\ UNCHANGED <<poolVars, state, pingAge, crashed,
                                        swSleep, swTodo, swPool, swList,
                                        swIdx, swObj>>
            BY <1>6, ClusterAssumption DEF SweepProbe
      <2>2. TypeOK'
            BY <1>1, <2>1 DEF IInv, TypeOK, envVars, bootVars, poolVars
      <2>3. SweepUpTarget'
            BY <1>1, <1>6, <2>1 DEF SweepUpTarget
      <2> QED BY <1>1, <2>1, <2>2, <2>3, PoolsSame, RunningBoot DEF IInv,
                 poolVars
<1>7. CASE e \in Addr /\ reachable[e] /\ ObjState(e) # Down
      <2>1. Moves
            BY <1>7, ClusterAssumption DEF SweepProbe
      <2>2. state' \in [Addr -> States] /\ pingAge' \in [Addr -> Age]
            BY <1>2, <1>7, ClusterAssumption DEF SweepProbe, IInv, TypeOK, States, Up
      <2> QED BY <2>1, <2>2, <1>3
<1>8. CASE e \in Addr /\ ~reachable[e]
           /\ DownAfterNoAlive > 0 /\ ObjAge(e) > DownAfterNoAlive
      <2>1. DownTidb(swPool, e, Down) /\ (crashed' \/ swIdx' = swIdx + 1)
            /\ UNCHANGED <<swPc, swSleep, swTodo, swPool, swList, swObj>>
            BY <1>8, ClusterAssumption DEF SweepProbe
      <2>2. CASE Panic
            BY <1>1, <2>1, <2>2, PanicIInv DEF Panic, swVars
      <2>3. CASE ~Panic
        <3>1. UNCHANGED <<poolVars, pingAge, crashed>>
              /\ state' \in [Addr -> States]
              BY <1>8, <2>1, <2>3 DEF DownTidb, IInv, TypeOK, States, Down
        <3>2. ~crashed'
              BY <1>1, <3>1 DEF Running
        <3> QED BY <1>3, <2>1, <3>1, <3>2 DEF IInv, TypeOK
      <2> QED BY <2>2, <2>3
<1>9. CASE e \in Addr /\ ~reachable[e]
           /\ ~(DownAfterNoAlive > 0 /\ ObjAge(e) > DownAfterNoAlive)
      <2>1. Moves /\ UNCHANGED <<state, pingAge>>
            BY <1>9, ClusterAssumption DEF SweepProbe
      <2> QED BY <2>1, <1>3 DEF IInv, TypeOK
<1> QED BY <1>1, <1>4, <1>5, <1>6, <1>7, <1>8, <1>9 DEF Member
(* Replacing one pool by a duplicate-free sequence of members keeps the    *)
(* pools typed and free of duplicates.                                     *)
LEMMA SetPool ==
    ASSUME IInv, NEW c \in Classes, NEW s \in Seq(Member), Distinct(s),
           Tidbs' = [Tidbs EXCEPT ![c] = s]
    PROVE  Tidbs' \in [Classes -> Seq(Member)] /\ NoDuplicateMember'
<1>1. \A d \in Classes : Distinct(Tidbs'[d])
      BY NoDupIsDistinct DEF IInv, TypeOK, NoDupDistinct
<1> QED BY <1>1, NoDupIsDistinct DEF IInv, TypeOK, NoDupDistinct

(* UpTidb's store under Lock: the new *DB (or nil) replaces the first one  *)
(* with its address, which IndexOf finds, or is appended when there is     *)
(* none; either way no address is doubled.                                 *)
LEMMA UpTidbPool ==
    ASSUME IInv, NEW c \in Classes, NEW a \in Addr, NEW new \in {a, NilDB},
           Tidbs' = [Tidbs EXCEPT ![c] =
                       IF IndexOf(Tidbs[c], a) > 0
                         THEN [Tidbs[c] EXCEPT ![IndexOf(Tidbs[c], a)] = new]
                         ELSE Append(Tidbs[c], new)]
    PROVE  Tidbs' \in [Classes -> Seq(Member)] /\ NoDuplicateMember'
<1> DEFINE T == Tidbs[c]
           k == IndexOf(T, a)
<1>1. T \in Seq(Member) /\ Distinct(T) /\ new \in Member
      BY NoDupIsDistinct DEF IInv, TypeOK, NoDupDistinct, Member
<1>2. CASE Contains(T, a)
  <2>1. k \in 1..Len(T) /\ T[k] = a
        BY <1>1, <1>2, IndexOfFound
  <2>2. new = T[k] \/ new \notin Addr
        BY <2>1, ClusterAssumption
  <2>3. Distinct([T EXCEPT ![k] = new]) /\ [T EXCEPT ![k] = new] \in Seq(Member)
        BY <1>1, <2>1, <2>2, DistinctExcept
  <2>4. k > 0
        BY <1>1, <2>1
  <2>5. Tidbs' = [Tidbs EXCEPT ![c] = [T EXCEPT ![k] = new]]
        BY <2>4
  <2> QED BY <2>3, <2>5, SetPool
<1>3. CASE ~Contains(T, a)
  <2>1. k = 0
        BY <1>3, IndexOfAbsent
  <2>2. new \in Addr => ~Contains(T, new)
        BY <1>3, ClusterAssumption
  <2>3. Tidbs' = [Tidbs EXCEPT ![c] = Append(T, new)]
        BY <2>1
  <2> QED BY <1>1, <2>2, <2>3, AppendToPool
<1> QED BY <1>2, <1>3

(* The sweep's UpTidb for the Down *DB that answered.                      *)
LEMMA SweepUpIInv ==
    ASSUME IInv, SweepUp
    PROVE  IInv'
<1> DEFINE a == swList[swIdx]
           c == swPool
           T == Tidbs[c]
           k == IndexOf(T, a)
           new == IF reachable[a] THEN a ELSE NilDB
<1>1. /\ Running /\ swPc = "up" /\ a \in Addr /\ c \in Classes
      /\ UNCHANGED <<envVars, swSleep, swTodo, swPool, swList, bootVars>>
      /\ UpTidb(c, a)
      BY DEF SweepUp, IInv, SweepUpTarget, TypeOK
<1>2. CASE Panic
      BY <1>1, <1>2, PanicIInv DEF Panic
<1>3. CASE ~Panic
  <2>1. /\ Tidbs' = [Tidbs EXCEPT ![c] = IF k > 0 THEN [T EXCEPT ![k] = new]
                                                 ELSE Append(T, new)]
        /\ state' = IF reachable[a] THEN [state EXCEPT ![a] = Up] ELSE state
        /\ pingAge' = IF reachable[a] THEN [pingAge EXCEPT ![a] = 0] ELSE pingAge
        /\ IF k > 0 THEN Retire(a) ELSE UNCHANGED swObj
        /\ UNCHANGED <<TidbsWeights, RoundRobinQ, crashed>>
        BY <1>1, <1>3 DEF UpTidb
  <2>2. swPc' = "scan" /\ swIdx' = swIdx + 1
        BY <1>1, <2>1 DEF SweepUp, Running
  <2>3. new \in {a, NilDB}
        OBVIOUS
  <2>4. Tidbs' \in [Classes -> Seq(Member)] /\ NoDuplicateMember'
        BY <1>1, <2>1, <2>3, UpTidbPool
  <2>5. swObj' \in [Addr -> {Live} \cup DeadObj]
    <3>1. CASE k > 0
          BY <1>1, <2>1, <3>1, RetireType DEF IInv
    <3>2. CASE ~(k > 0)
          BY <2>1, <3>2 DEF IInv, TypeOK
    <3> QED BY <3>1, <3>2
  <2>6. state' \in [Addr -> States] /\ pingAge' \in [Addr -> Age]
    <3>1. 0 \in Age /\ Up \in States
          BY ClusterAssumption DEF Age, AgeCap, States
    <3>2. CASE reachable[a]
          BY <1>1, <2>1, <3>1, <3>2 DEF IInv, TypeOK
    <3>3. CASE ~reachable[a]
          BY <2>1, <3>3 DEF IInv, TypeOK
    <3> QED BY <3>2, <3>3
  <2>7. TypeOK'
        BY <1>1, <2>1, <2>2, <2>4, <2>5, <2>6 DEF IInv, TypeOK, envVars, bootVars
  <2>8. SweepUpTarget'
        BY <2>2 DEF SweepUpTarget
  <2> QED BY <1>1, <2>4, <2>7, <2>8, RunningBoot DEF IInv
<1> QED BY <1>2, <1>3
(* cluster.AddTidb: the address joins only after the TidbExist loop found  *)
(* it absent, so the append doubles no address.                            *)
LEMMA AddTidbIInv ==
    ASSUME IInv, NEW a \in Addr, AddTidb(a)
    PROVE  IInv'
<1> DEFINE c == PodClass[a]
           T == Tidbs[c]
           W == TidbsWeights[c]
<1>1. /\ c \in Classes /\ Running /\ UNCHANGED <<bootVars, envVars, swVars>>
      /\ T \in Seq(Member) /\ W \in Seq(Addr \cup {Self})
      BY ClusterAssumption DEF AddTidb, IInv, TypeOK
(* A step that leaves the pools, state and ages alone. *)
<1>2. ASSUME UNCHANGED <<poolVars, state, pingAge, crashed>>
      PROVE  IInv'
      BY <1>1, <1>2, PoolsSame, SweepSame, RunningBoot
         DEF IInv, TypeOK, poolVars, envVars, swVars, bootVars
<1>3. CASE NilBefore(T, a)
      BY <1>1, <1>3, PanicIInv DEF AddTidb
<1>4. CASE ~NilBefore(T, a) /\ (TidbExist(T, a) \/ ~podLive[a])
      BY <1>2, <1>4 DEF AddTidb
<1>5. CASE ~NilBefore(T, a) /\ ~TidbExist(T, a) /\ podLive[a]
  <2>1. TidbsWeights' = [TidbsWeights EXCEPT ![c] = Append(W, a)]
        /\ UNCHANGED crashed
        BY <1>5 DEF AddTidb
  <2>2. TidbsWeights' \in [Classes -> Seq(Addr \cup {Self})]
        BY <1>1, <2>1 DEF IInv, TypeOK
  <2>3. CASE reachable[a]
    <3>1. /\ Tidbs' = [Tidbs EXCEPT ![c] = Append(T, a)]
          /\ RoundRobinQ' = [RoundRobinQ EXCEPT ![c] = Len(W) + 1]
          /\ state' = [state EXCEPT ![a] = Up]
          /\ pingAge' = [pingAge EXCEPT ![a] = 0]
          BY <1>5, <2>3 DEF AddTidb
    <3>2. Tidbs' \in [Classes -> Seq(Member)] /\ NoDuplicateMember'
          BY <1>1, <1>5, <3>1, AppendToPool DEF TidbExist, Member
    <3>5. RoundRobinQ' \in [Classes -> Nat]
          BY <1>1, <3>1 DEF IInv, TypeOK
    <3>6. state' \in [Addr -> States]
          BY <3>1 DEF IInv, TypeOK, States, Up
    <3>7. pingAge' \in [Addr -> Age]
          BY <3>1, ClusterAssumption DEF IInv, TypeOK, Age, AgeCap
    <3>3. /\ RoundRobinQ' \in [Classes -> Nat] /\ state' \in [Addr -> States]
          /\ pingAge' \in [Addr -> Age]
          BY <3>5, <3>6, <3>7
    <3>4. TypeOK'
          BY <1>1, <2>1, <2>2, <3>2, <3>3
          DEF IInv, TypeOK, envVars, swVars, bootVars
    <3> QED BY <1>1, <3>2, <3>4, SweepSame, RunningBoot DEF IInv, swVars
  <2>4. CASE ~reachable[a]
    <3>1. UNCHANGED <<Tidbs, RoundRobinQ, state, pingAge>>
          BY <1>5, <2>4 DEF AddTidb
    <3>2. TypeOK'
          BY <1>1, <2>1, <2>2, <3>1 DEF IInv, TypeOK, envVars, swVars, bootVars
    <3> QED BY <1>1, <3>1, <3>2, PoolsSame, SweepSame, RunningBoot
            DEF IInv, swVars
  <2> QED BY <2>3, <2>4
<1> QED BY <1>3, <1>4, <1>5
(* cluster.DeleteTidb: InitBalancerAfterDeleteTidb empties the pool or     *)
(* drops the entry IndexOf found, from the members and the weights alike.  *)
LEMMA DeleteTidbIInv ==
    ASSUME IInv, NEW a \in Addr, DeleteTidb(a)
    PROVE  IInv'
<1> DEFINE c == PodClass[a]
           T == Tidbs[c]
           W == TidbsWeights[c]
           n == Len(T)
           k == IndexOf(T, a)
<1>1. /\ c \in Classes /\ Running
      /\ UNCHANGED <<bootVars, envVars, swPc, swSleep, swTodo, swPool, swList,
                     swIdx>>
      /\ T \in Seq(Member) /\ W \in Seq(Addr \cup {Self}) /\ Distinct(T)
      BY ClusterAssumption, NoDupIsDistinct
         DEF DeleteTidb, IInv, TypeOK, NoDupDistinct
<1>2. CASE Panic
      BY <1>1, <1>2, PanicIInv
(* The pool's new members and weights, with the *DB of a retired. *)
<1>3. ASSUME NEW s \in Seq(Member), Distinct(s),
             NEW w \in Seq(Addr \cup {Self}), NEW r \in Nat,
             Tidbs' = [Tidbs EXCEPT ![c] = s],
             TidbsWeights' = [TidbsWeights EXCEPT ![c] = w],
             RoundRobinQ' = [RoundRobinQ EXCEPT ![c] = r],
             Retire(a), UNCHANGED <<state, pingAge, crashed>>
      PROVE  IInv'
  <2>1. Tidbs' \in [Classes -> Seq(Member)] /\ NoDuplicateMember'
        BY <1>1, <1>3, SetPool
  <2>2. /\ TidbsWeights' \in [Classes -> Seq(Addr \cup {Self})]
        /\ RoundRobinQ' \in [Classes -> Nat]
        BY <1>1, <1>3 DEF IInv, TypeOK
  <2>3. swObj' \in [Addr -> {Live} \cup DeadObj]
        BY <1>3, RetireType DEF IInv
  <2>4. TypeOK'
        BY <1>1, <1>3, <2>1, <2>2, <2>3 DEF IInv, TypeOK, envVars, bootVars
  <2> QED BY <1>1, <2>1, <2>4, SweepSame, RunningBoot DEF IInv
<1>4. CASE ~Panic
  <2>1. \/ UNCHANGED <<poolVars, state, pingAge, crashed, swObj>>
        \/ /\ n = 1 /\ k = 1
           /\ Tidbs' = [Tidbs EXCEPT ![c] = <<>>]
           /\ TidbsWeights' = [TidbsWeights EXCEPT ![c] = <<>>]
           /\ RoundRobinQ' = [RoundRobinQ EXCEPT ![c] = 0]
           /\ Retire(a) /\ UNCHANGED <<state, pingAge, crashed>>
        \/ /\ n > 1 /\ k > 0 /\ LastKept(k, n) <= Len(W)
           /\ Tidbs' = [Tidbs EXCEPT ![c] = Drop(T, k, n)]
           /\ TidbsWeights' = [TidbsWeights EXCEPT ![c] = Drop(W, k, n)]
           /\ RoundRobinQ' = [RoundRobinQ EXCEPT ![c] = n - 1]
           /\ Retire(a) /\ UNCHANGED <<state, pingAge, crashed>>
        BY <1>4 DEF DeleteTidb
  <2>2. CASE UNCHANGED <<poolVars, state, pingAge, crashed, swObj>>
        BY <1>1, <2>2, PoolsSame, SweepSame, RunningBoot
           DEF IInv, TypeOK, poolVars, envVars, bootVars
  <2>3. CASE n = 1 /\ k = 1
             /\ Tidbs' = [Tidbs EXCEPT ![c] = <<>>]
             /\ TidbsWeights' = [TidbsWeights EXCEPT ![c] = <<>>]
             /\ RoundRobinQ' = [RoundRobinQ EXCEPT ![c] = 0]
             /\ Retire(a) /\ UNCHANGED <<state, pingAge, crashed>>
    <3>1. Distinct(<<>>) /\ <<>> \in Seq(Member) /\ <<>> \in Seq(Addr \cup {Self})
          /\ 0 \in Nat
          BY DEF Distinct
    <3> QED BY <2>3, <3>1, <1>3, Zenon
  <2>4. CASE n > 1 /\ k > 0 /\ LastKept(k, n) <= Len(W)
             /\ Tidbs' = [Tidbs EXCEPT ![c] = Drop(T, k, n)]
             /\ TidbsWeights' = [TidbsWeights EXCEPT ![c] = Drop(W, k, n)]
             /\ RoundRobinQ' = [RoundRobinQ EXCEPT ![c] = n - 1]
             /\ Retire(a) /\ UNCHANGED <<state, pingAge, crashed>>
    <3>1. k \in 1..n
      <4>1. Contains(T, a)
            BY <2>4, IndexOfAbsent
      <4> QED BY <1>1, <4>1, IndexOfFound
    <3>2. Drop(T, k, n) \in Seq(Member) /\ Distinct(Drop(T, k, n))
          BY <1>1, <2>4, <3>1, DropType, DistinctDrop DEF LastKept
    <3>3. Drop(W, k, n) \in Seq(Addr \cup {Self}) /\ n - 1 \in Nat
          BY <1>1, <2>4, <3>1, DropType
    <3> QED BY <2>4, <3>2, <3>3, <1>3, Zenon
  <2> QED BY <2>1, <2>2, <2>3, <2>4
<1> QED BY <1>2, <1>4
(* Every step of Next, and every stutter, preserves IInv. *)
LEMMA NextIInv == IInv /\ [Next]_vars => IInv'
<1> SUFFICES ASSUME IInv, [Next]_vars PROVE IInv'
    OBVIOUS
<1>1. CASE Tick
      BY <1>1, TickIInv
<1>2. CASE Restart
      BY <1>2, RestartIInv
<1>3. CASE ParseTidb
      BY <1>3, ParseTidbIInv
<1>4. CASE ParseDone \/ ListFailed
      BY <1>4, ParseDoneIInv, ListFailedIInv
<1>5. CASE \E a \in Addr : \/ SetPodLive(a) \/ SetReachable(a)
                          \/ AddTidb(a) \/ DeleteTidb(a)
                          \/ ManualDownTidb(a)
      BY <1>5, EnvIInv, AddTidbIInv, DeleteTidbIInv, ManualDownIInv
<1>6. CASE SweepStep
      BY <1>6, SweepControlIInv, SweepProbeIInv, SweepUpIInv DEF SweepStep
<1>7. CASE UNCHANGED vars
      BY <1>7 DEF IInv, TypeOK, NoDuplicateMember, SweepUpTarget, BootMembers,
                  vars
<1> QED BY <1>1, <1>2, <1>3, <1>4, <1>5, <1>6, <1>7 DEF Next

-----------------------------------------------------------------------------
(* The theorems.                                                           *)

(* IInv holds in every reachable state. *)
THEOREM IInvHolds == Spec => []IInv
BY InitIInv, NextIInv, PTL DEF Spec

(* Every variable keeps its type (TypeOK): in particular the sweep only    *)
(* ever calls UpTidb on an address of its copy, DeleteTidb's Drop and      *)
(* LastKept stay within the pool, and start-up's index stays in the list. *)
THEOREM TypeCorrect == Spec => []TypeOK
BY IInvHolds, PTL DEF IInv

(* No pool ever holds two *DBs of the same address (NoDuplicateMember,     *)
(* checked by cluster_tp and cluster_ap), for every set of pods and every  *)
(* listing order: AddTidb's TidbExist loop, UpTidb's IndexOf lookup and    *)
(* ParseTidbs over a listing without repeats each keep the pools free of   *)
(* duplicates, whatever the sweep and the operations interleave.           *)
THEOREM NoDuplicateMemberHolds == Spec => []NoDuplicateMember
BY IInvHolds, PTL DEF IInv

====
