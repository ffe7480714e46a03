------------------------------ MODULE RunDriver ------------------------------
(***************************************************************************)
(* What PipelineRun takes a tab of the operations panel to be: it drives   *)
(* at most one run, one that nobody else drives, and has at most one step  *)
(* of it under way.                                                        *)
(***************************************************************************)
CONSTANTS Tabs, Runs, NoRun

VARIABLES phase, run

vars == <<phase, run>>

Init ==
    /\ phase = [t \in Tabs |-> "idle"]
    /\ run = [t \in Tabs |-> NoRun]

Move(t, from, to) ==
    /\ phase[t] = from
    /\ phase' = [phase EXCEPT ![t] = to]

Start(t) == Move(t, "idle", "starting") /\ UNCHANGED run

Begin(t, r) ==
    /\ \A u \in Tabs : run[u] # r
    /\ Move(t, "starting", "pausing")
    /\ run' = [run EXCEPT ![t] = r]

Send(t) == Move(t, "pausing", "stepping") /\ UNCHANGED run

Continue(t) == Move(t, "stepping", "pausing") /\ UNCHANGED run

Stop(t) ==
    /\ phase' = [phase EXCEPT ![t] = "idle"]
    /\ run' = [run EXCEPT ![t] = NoRun]

Next ==
    \E t \in Tabs :
        \/ Start(t)
        \/ \E r \in Runs : Begin(t, r)
        \/ Send(t)
        \/ Continue(t)
        \/ Stop(t)

Spec == Init /\ [][Next]_vars
=============================================================================
