--------------------------- MODULE AutoscalerProofs ---------------------------
(***************************************************************************)
(* Proofs about the scale-in/scale-out loop (Autoscaler), for every        *)
(* Debounce and MaxTidbs allowed by AutoscalerAssumption.                  *)
(***************************************************************************)
EXTENDS Autoscaler, TLAPS

(* The inductive invariant.  TypeOK alone is not inductive for the         *)
(* debounce: a scale-in step resets count and sinceIn, a quiet step that   *)
(* does not reach the threshold increments both, so count never exceeds   *)
(* the number of quiet samples in a row that sinceIn counts.              *)
IInv ==
    /\ TypeOK
    /\ count <= sinceIn

LEMMA InitIInv == Init => IInv
BY AutoscalerAssumption DEF Init, IInv, TypeOK, Requests, None

LEMMA SendTarget ==
    ASSUME NEW r \in Requests, target \in Requests, Send(r)
    PROVE  target' \in Requests /\ sent' \in Requests
BY DEF Send

LEMMA SampleIInv == IInv /\ Sample => IInv'
<1> SUFFICES ASSUME IInv, Sample PROVE IInv'
    OBVIOUS
<1>1. CASE load = "quiet" /\ DebounceReached(count) /\ ScaleInWanted(TpLen)
      <2>1. Send(ScaleIn) /\ count' = 0 /\ sinceIn' = 0
            BY <1>1 DEF Sample
      <2>2. target' \in Requests /\ sent' \in Requests
            BY <2>1, SendTarget DEF IInv, TypeOK, Requests
      <2>3. UNCHANGED <<load, selfIn, others>>
            BY DEF Sample
      <2> QED BY <2>1, <2>2, <2>3, AutoscalerAssumption DEF IInv, TypeOK
<1>2. CASE load = "quiet" /\ DebounceReached(count) /\ ~ScaleInWanted(TpLen)
      <2>1. /\ count' = 0 /\ sinceIn' = QuietMore(sinceIn)
            /\ target' = target /\ sent' = None
            /\ UNCHANGED <<load, selfIn, others>>
            BY <1>2 DEF Sample
      <2> QED BY <2>1, AutoscalerAssumption
              DEF IInv, TypeOK, QuietMore, Requests
<1>3. CASE load = "quiet" /\ ~DebounceReached(count)
      <2>1. /\ count' = count + 1 /\ sinceIn' = QuietMore(sinceIn)
            /\ target' = target /\ sent' = None
            /\ UNCHANGED <<load, selfIn, others>>
            BY <1>3 DEF Sample
      <2> QED BY <1>3, <2>1, AutoscalerAssumption
              DEF IInv, TypeOK, QuietMore, DebounceReached, Requests
<1>4. CASE load = "loud"
      <2>1. /\ count' = 0 /\ sinceIn' = 0
            /\ target' \in Requests /\ sent' \in Requests
            /\ UNCHANGED <<load, selfIn, others>>
            BY <1>4, SendTarget DEF Sample, IInv, TypeOK, Requests, None
      <2> QED BY <2>1, AutoscalerAssumption DEF IInv, TypeOK
<1> QED BY <1>1, <1>2, <1>3, <1>4 DEF IInv, TypeOK

LEMMA NextIInv == IInv /\ [Next]_vars => IInv'
<1> SUFFICES ASSUME IInv, [Next]_vars PROVE IInv'
    OBVIOUS
<1>1. CASE Sample
      BY <1>1, SampleIInv
<1>2. CASE SetLoad
      BY <1>2 DEF SetLoad, IInv, TypeOK
<1>3. CASE ScalerRemove
      BY <1>3, AutoscalerAssumption DEF ScalerRemove, IInv, TypeOK
<1>4. CASE ScalerAdd
      BY <1>4, AutoscalerAssumption DEF ScalerAdd, IInv, TypeOK
<1>5. CASE UNCHANGED vars
      BY <1>5 DEF vars, IInv, TypeOK
<1> QED BY <1>1, <1>2, <1>3, <1>4, <1>5 DEF Next

(* Every reachable state of CheckClusterSilence is well typed: count stays *)
(* below the debounce threshold of 15 (0..Debounce-1), the tp TiDB count   *)
(* within its bound, and every request is a ScaleRequest the loop sends.   *)
THEOREM TypeCorrect == Spec => []TypeOK
<1>1. Init => IInv
      BY InitIInv
<1>2. IInv /\ [Next]_vars => IInv'
      BY NextIInv
<1>3. IInv => TypeOK
      BY DEF IInv
<1> QED BY <1>1, <1>2, <1>3, PTL DEF Spec

(* The debounce of CheckClusterSilence: a sample sends the scale-in        *)
(* request (Hashrate 0) only after Debounce quiet samples in a row, for    *)
(* every value of the threshold.                                           *)
THEOREM DebounceCorrect == Spec => DebounceScaleIn
<1>1. IInv /\ [Next]_vars => [Sample /\ sent' = ScaleIn
                               => QuietMore(sinceIn) >= Debounce]_vars
      <2> SUFFICES ASSUME IInv, Sample, sent' = ScaleIn
                   PROVE  QuietMore(sinceIn) >= Debounce
          OBVIOUS
      <2>1. load = "quiet" /\ DebounceReached(count)
            BY DEF Sample, Send, ScaleIn, ScaleOut, None
      <2> QED BY <2>1, AutoscalerAssumption
              DEF IInv, TypeOK, QuietMore, DebounceReached
<1>2. Init => IInv
      BY InitIInv
<1>3. IInv /\ [Next]_vars => IInv'
      BY NextIInv
<1> QED BY <1>1, <1>2, <1>3, PTL DEF Spec, DebounceScaleIn
====
