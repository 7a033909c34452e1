------------------------------ MODULE Autoscaler ------------------------------
(***************************************************************************)
(* The scale-in/scale-out loop of the proxy, Server.CheckClusterSilence    *)
(* (server.go), together with the part of its surroundings it reacts to.   *)
(*                                                                         *)
(* Every second the loop samples the load: the cost of the tp pool plus    *)
(* the proxy's own cost against 10000, and the client QPS of the last      *)
(* flushed second against 100.  Both thresholds are abstracted to one      *)
(* bit, load \in {"quiet", "loud"}, set by the environment.  A quiet       *)
(* sample increments count; at Debounce (15) quiet samples in a row it     *)
(* asks the scaler to scale the tp TiDBs in to 0 when the tp pool has more *)
(* than one member, and resets count.  A loud sample resets count and,     *)
(* when the proxy computes (ProxyAsCompute, set by parseCluster and never  *)
(* cleared) and the tp pool has exactly one member, asks for 1 tp TiDB.    *)
(*                                                                         *)
(* The tp pool is seen as selfIn (the "self" member is there) and others   *)
(* (how many TiDB members it has).  The external scaler takes the last     *)
(* request it received as its target, and the membership reconciler then   *)
(* adds or deletes tp members one at a time until the target is met.  A    *)
(* request can fail to reach the scaler (the error is only printed).       *)
(***************************************************************************)
EXTENDS Naturals

CONSTANTS
    Debounce,   \* quiet samples before a scale-in (15 in the code)
    MaxTidbs    \* bound on the number of tp TiDB members

ASSUME AutoscalerAssumption ==
    /\ Debounce \in Nat \ {0}
    /\ MaxTidbs \in Nat \ {0}

None == "none"
ScaleIn == "in"      \* ScaleRequest with Hashrate 0
ScaleOut == "out"    \* ScaleRequest with Hashrate 1
Requests == {None, ScaleIn, ScaleOut}

VARIABLES
    count,     \* count of CheckClusterSilence
    load,      \* what the next sample sees: "quiet" or "loud"
    selfIn,    \* the tp pool holds the "self" member
    others,    \* number of TiDB members of the tp pool
    target,    \* the request the scaler works towards (None: none yet)
    sent,      \* the request the last sample sent (None: none)
    sinceIn    \* quiet samples since the last loud sample or scale-in

vars == <<count, load, selfIn, others, target, sent, sinceIn>>

\* len(tppool.Tidbs)
TpLen == (IF selfIn THEN 1 ELSE 0) + others

ProxyAsCompute == TRUE

Init ==
    /\ count = 0
    /\ load \in {"quiet", "loud"}
    /\ selfIn \in BOOLEAN
    \* without the proxy pod in the list, parseCluster breaks out before
    \* listing the tp pods: the tp pool starts empty
    /\ others \in IF selfIn THEN 0..MaxTidbs ELSE {0}
    /\ target = None
    /\ sent = None
    /\ sinceIn = 0

\* sinceIn after one more quiet sample (it only needs to reach Debounce).
QuietMore(n) == IF n < Debounce THEN n + 1 ELSE Debounce

\* Faulty variants of the next three conditions, for the mutation runs:
\* the threshold one sample early or late, the scale-in condition off by
\* one, and the scale-out condition copied from the scale-in one.
DebounceReachedEarly(c) == c + 2 >= Debounce
DebounceReachedLate(c) == c >= Debounce
ScaleInWantedOffByOne(n) == n > 2
ScaleOutWantedCopied(n) == ProxyAsCompute /\ n > 1

\* A quiet sample that makes count reach the debounce threshold.
DebounceReached(c) == c + 1 >= Debounce

\* The scale-in condition on len(tppool.Tidbs).
ScaleInWanted(n) == n > 1

\* The scale-out condition.
ScaleOutWanted(n) == ProxyAsCompute /\ n = 1

\* A request sent by ScaleCluster: delivered, or lost.
Send(r) ==
    /\ sent' = r
    /\ target' \in {target, r}

\* One iteration of the for loop of CheckClusterSilence.
Sample ==
    /\ \/ /\ load = "quiet"
          /\ IF DebounceReached(count)
               THEN /\ count' = 0
                    /\ IF ScaleInWanted(TpLen)
                         THEN Send(ScaleIn) /\ sinceIn' = 0
                         ELSE /\ UNCHANGED target /\ sent' = None
                              /\ sinceIn' = QuietMore(sinceIn)
               ELSE /\ count' = count + 1
                    /\ UNCHANGED target /\ sent' = None
                    /\ sinceIn' = QuietMore(sinceIn)
       \/ /\ load = "loud"
          /\ count' = 0
          /\ sinceIn' = 0
          /\ IF ScaleOutWanted(TpLen)
               THEN Send(ScaleOut)
               ELSE UNCHANGED target /\ sent' = None
    /\ UNCHANGED <<load, selfIn, others>>

\* The load changes between two samples.
SetLoad ==
    /\ load' = IF load = "quiet" THEN "loud" ELSE "quiet"
    /\ UNCHANGED <<count, selfIn, others, target, sent, sinceIn>>

\* The reconciler deletes a tp TiDB the scaler has removed.
ScalerRemove ==
    /\ target = ScaleIn /\ others > 0
    /\ others' = others - 1
    /\ UNCHANGED <<count, load, selfIn, target, sent, sinceIn>>

\* The reconciler adds the tp TiDB the scaler has created.
ScalerAdd ==
    /\ target = ScaleOut /\ others < 1 /\ others < MaxTidbs
    /\ others' = others + 1
    /\ UNCHANGED <<count, load, selfIn, target, sent, sinceIn>>

Next == Sample \/ SetLoad \/ ScalerRemove \/ ScalerAdd

(* Fairness.  The loop samples every second (weak fairness of Sample); a   *)
(* request that keeps being sent is eventually delivered (strong fairness  *)
(* of a delivering Sample: ScaleCluster fails only transiently); the       *)
(* reconciler eventually applies the scaler's target.                      *)
Delivered == Sample /\ sent' # None /\ target' = sent'

Fairness ==
    /\ WF_vars(Sample)
    /\ SF_vars(Delivered)
    /\ WF_vars(ScalerRemove)
    /\ WF_vars(ScalerAdd)

Spec == Init /\ [][Next]_vars /\ Fairness

-----------------------------------------------------------------------------
(* Properties.                                                             *)

TypeOK ==
    /\ count \in 0..(Debounce - 1)
    /\ load \in {"quiet", "loud"}
    /\ selfIn \in BOOLEAN
    /\ others \in 0..MaxTidbs
    /\ target \in Requests
    /\ sent \in Requests
    /\ sinceIn \in 0..Debounce

(* Debounce (the spec's hysteresis): a scale-in request is sent only after *)
(* Debounce quiet samples in a row with no other scale-in request among    *)
(* them; 14 quiet samples followed by a loud one send nothing.             *)
DebounceScaleIn ==
    [][Sample /\ sent' = ScaleIn => QuietMore(sinceIn) >= Debounce]_vars

(* Under a load that stays high, the tp class ends up with a TiDB of its   *)
(* own beside the proxy, when the proxy is a tp member: the scale-out      *)
(* request is repeated every second until the new TiDB has joined.         *)
LoadGetsTidb ==
    selfIn => (<>[](load = "loud") => <>[](others >= 1))

(* Under a load that stays low, the tp TiDBs are scaled in until only the  *)
(* proxy computes for the tp class.                                        *)
QuietScalesIn ==
    selfIn => (<>[](load = "quiet") => <>[](others = 0))
====
