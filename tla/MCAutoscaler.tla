----------------------------- MODULE MCAutoscaler -----------------------------
(* CheckClusterSilence with a debounce of 4 quiet samples instead of 15    *)
(* and at most 3 tp TiDBs: enough for a scale-in to be reached, aborted by *)
(* a loud sample, and repeated.                                            *)
EXTENDS Autoscaler
====
