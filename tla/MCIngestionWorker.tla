------------------------- MODULE MCIngestionWorker -------------------------
(***************************************************************************)
(* IngestionWorker for TLC.  The ticks keep the order of the code's        *)
(* durations: an invocation (10 s) is shorter than the backoffs (2 and 4   *)
(* minutes) and these are shorter than the reclaim interval (15 minutes).  *)
(***************************************************************************)
EXTENDS IngestionWorker, TLC

\* Sound for the invariants only: no liveness is checked under it.
JobsAndWorkers == Permutations(Jobs) \cup Permutations(Workers)
=============================================================================
