---------------------------- MODULE MCPipelineRun ----------------------------
(***************************************************************************)
(* PipelineRun for TLC: two hotels, the second on both of two pages (the   *)
(* client's pages shift), so that the enqueue phase can end by its limit   *)
(* or by its last page, a page can hold more hotels than were requested or *)
(* none that is new, and a run can find the queue empty, or full of other  *)
(* runs' jobs.                                                             *)
(***************************************************************************)
EXTENDS PipelineRun

CONSTANTS h1, h2

TwoPages == <<{h1, h2}, {h2}>>
=============================================================================
