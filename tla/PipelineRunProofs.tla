-------------------------- MODULE PipelineRunProofs --------------------------
(***************************************************************************)
(* Theorems about PipelineRun, for any number of runs, tabs, duplicate     *)
(* steps, jobs and pages.                                                  *)
(***************************************************************************)
EXTENDS PipelineRun, FiniteSetTheorems, TLAPS

-----------------------------------------------------------------------------
(***************************************************************************)
(* Types, and that whoever is in the middle of a step has a run.           *)
(***************************************************************************)
Outside == {"idle", "checked"}
HasRun == \A c \in Callers : at[c] \notin Outside => run[c] \in Runs
TypeInv == TypeOK /\ HasRun

\* What patchRun may be asked to write is a row.
LEMMA NewRowType ==
    ASSUME NEW status \in Statuses, NEW n \in Nat
    PROVE  NewRow(status, n) \in Row
<1>1. 1 \in DOMAIN Pages
  BY PipelineAssumption
<1> QED
  BY <1>1 DEF NewRow, Row

LEMMA AbsentType == Absent \in Row
BY NewRowType DEF Absent, Statuses

LEMMA AnsweringType ==
    ASSUME NEW s \in Row
    PROVE  Answering(s) \in Row
BY AbsentType DEF Answering, Row, Absent, NewRow

LEMMA TypeInit == Init => TypeInv
<1> SUFFICES ASSUME Init
             PROVE  TypeInv
  OBVIOUS
<1>1. MaxFaults \in Nat
  BY PipelineAssumption
<1> QED
  BY <1>1, AbsentType DEF Init, Q!Init, TypeInv, TypeOK, HasRun, Stations, Outcomes, Outside

LEMMA CountedType ==
    ASSUME TypeOK, NEW c \in Callers, NEW base \in Row,
           NEW k \in Nat, NEW s \in Nat, NEW f \in Nat
    PROVE  Counted(c, base, k, s, f) \in Row
<1>1. snap[c] \in Row
  BY DEF TypeOK
<1>2. /\ snap[c].claimed + k \in Nat
      /\ snap[c].succeeded + s \in Nat
      /\ snap[c].failed + f \in Nat
  BY <1>1 DEF Row
<1> QED
  BY <1>2 DEF Counted, Row

LEMMA EndedType ==
    ASSUME TypeOK, NEW c \in Callers, NEW new \in Row, NEW failures \in Nat
    PROVE  Ended(c, new, failures) \in Row
BY DEF Ended, FinalStatus, Row, Statuses

LEMMA OutcomeType ==
    ASSUME TypeInv, NEW c \in Callers, at[c] \in Writing
    PROVE  /\ run[c] \in Runs
           /\ Outcome(c) \in Row
<1>1. run[c] \in Runs
  BY DEF TypeInv, HasRun, Writing, Outside
<1>2. /\ Now(c) \in Row /\ snap[c] \in Row
      /\ 1 \in DOMAIN Pages
  BY <1>1, PipelineAssumption DEF TypeInv, TypeOK, Now
<1>3. Failed(c) \in Row
  BY <1>2 DEF Failed, Row, Statuses
<1>4. Advanced(c) \in Row
  BY <1>2 DEF Advanced, FinalStatus, Row, Statuses
<1>5. Enqueued(c) \in Row
  <2>1. got[c] \in Nat /\ snap[c].cursor \in 1..Len(Pages)
    BY <1>2, PipelineAssumption DEF TypeInv, TypeOK, Row
  <2>2. snap[c].cursor # Len(Pages) => snap[c].cursor + 1 \in DOMAIN Pages
    BY <2>1, PipelineAssumption
  <2>3. snap[c].enqueued + got[c] \in Nat
    BY <1>2, <2>1 DEF Row
  <2> QED
    BY <1>2, <2>2, <2>3 DEF Enqueued, Row
<1>6. Worked(c) \in Row
  <2> DEFINE new == Counted(c, Now(c), Claims(c), Successes(c), Failures(c))
  <2>1. new \in Row
    <3>1. Claims(c) \in Nat /\ Successes(c) \in Nat /\ Failures(c) \in Nat
      BY DEF Claims, Successes, Failures
    <3> QED
      BY <1>2, <3>1, CountedType DEF TypeInv
  <2>2. new.failed \in Nat
    BY <2>1 DEF Row
  <2> QED
    BY <2>1, <2>2, EndedType DEF Worked, TypeInv
<1> QED
  BY <1>1, <1>3, <1>4, <1>5, <1>6 DEF Outcome

\* Where a caller goes next, and with what.
LEMMA ProceedType ==
    ASSUME TypeOK, NEW c \in Callers, NEW station \in Stations, NEW s \in Row,
           Proceed(c, station, s)
    PROVE  /\ at' \in [Callers -> Stations]
           /\ snap' \in [Callers -> Row]
           /\ got' \in [Callers -> Nat]
           /\ outcome' \in [Callers -> Outcomes]
BY DEF Proceed, TypeOK, Outcomes

LEMMA SettleType ==
    ASSUME TypeInv, NEW c \in Callers, NEW station \in {"idle", "driving"},
           Settle(c, station), at[c] \notin Outside \/ station = "idle"
    PROVE  /\ at' \in [Callers -> Stations]
           /\ snap' \in [Callers -> Row]
           /\ got' \in [Callers -> Nat]
           /\ outcome' \in [Callers -> Outcomes]
           /\ mode' \in [Callers -> {"tab", "duplicate"}]
           /\ run' \in [Callers -> Runs \cup {NoRun}]
           /\ HasRun'
<1>1. Proceed(c, station, Absent) /\ station \in Stations
  BY DEF Settle, Stations
<1>2. /\ at' = [at EXCEPT ![c] = station]
      /\ run' = [run EXCEPT ![c] = IF station = "idle" THEN NoRun ELSE @]
      /\ mode' = [mode EXCEPT ![c] = IF station = "idle" THEN "tab" ELSE @]
  BY DEF Settle, Proceed
<1>3. HasRun'
  BY <1>2 DEF TypeInv, TypeOK, HasRun, Outside
<1> QED
  BY <1>1, <1>2, <1>3, ProceedType, AbsentType DEF TypeInv, TypeOK

\* A caller that stays in its request keeps its run.
LEMMA StaysType ==
    ASSUME TypeInv, NEW c \in Callers, NEW station,
           at[c] \notin Outside, at' = [at EXCEPT ![c] = station], run' = run
    PROVE  HasRun'
BY DEF TypeInv, TypeOK, HasRun

LEMMA TypeStep == TypeInv /\ [Next]_vars => TypeInv'
<1> SUFFICES ASSUME TypeInv, [Next]_vars
             PROVE  TypeInv'
  OBVIOUS
<1>0. CASE UNCHANGED vars
  BY <1>0 DEF vars, queue, runs, caller, history, TypeInv, TypeOK, HasRun
<1>1. ASSUME NEW c \in Callers, Start(c)
      PROVE  TypeInv'
  BY <1>1 DEF Start, queue, runs, history, TypeInv, TypeOK, HasRun, Stations, Outside
<1>2. ASSUME NEW c \in Callers, Insert(c)
      PROVE  TypeInv'
  <2>1. PICK r \in Runs, n \in 1..MaxRequested :
            /\ row' = [row EXCEPT ![r] = NewRow("running", n)]
            /\ active' = active \cup {r}
            /\ run' = [run EXCEPT ![c] = r]
    BY <1>2 DEF Insert
  <2>2. NewRow("running", n) \in Row
    BY NewRowType, PipelineAssumption DEF Statuses
  <2>3. HasRun'
    BY <1>2, <2>1 DEF Insert, TypeInv, TypeOK, HasRun
  <2> QED
    BY <1>2, <2>1, <2>2, <2>3 DEF Insert, queue, history, TypeInv, TypeOK, Stations
<1>3. ASSUME NEW c \in Callers, Duplicate(c)
      PROVE  TypeInv'
  <2>1. PICK r \in Runs : /\ dups' = [dups EXCEPT ![r] = @ + 1]
                          /\ run' = [run EXCEPT ![c] = r]
    BY <1>3 DEF Duplicate
  <2>2. HasRun'
    BY <1>3, <2>1 DEF Duplicate, TypeInv, TypeOK, HasRun
  <2> QED
    BY <1>3, <2>1, <2>2 DEF Duplicate, queue, runs, TypeInv, TypeOK, Stations
<1>4. ASSUME NEW c \in Callers, Leave(c)
      PROVE  TypeInv'
  BY <1>4, SettleType DEF Leave, queue, runs, history, TypeInv, TypeOK
<1>5. ASSUME NEW c \in Callers, Read(c)
      PROVE  TypeInv'
  <2>1. run[c] \in Runs /\ at[c] \notin Outside
    BY <1>5 DEF Read, TypeInv, HasRun, Outside
  <2>2. Now(c) \in Row
    BY <2>1 DEF Now, TypeInv, TypeOK
  <2>3. NextStation(Now(c)) \in Stations
    BY DEF NextStation, Stations
  <2>4. PICK s \in Row : Proceed(c, NextStation(Now(c)), s)
    BY <1>5, <2>2, AnsweringType DEF Read
  <2>5. HasRun'
    BY <1>5, <2>1, <2>4, StaysType DEF Read, Proceed
  <2> QED
    BY <1>5, <2>3, <2>4, <2>5, ProceedType
    DEF Read, queue, runs, history, TypeInv, TypeOK
<1>6. ASSUME NEW c \in Callers, EnqueuePage(c)
      PROVE  TypeInv'
  <2> DEFINE new == Pages[snap[c].cursor] \ Known
  <2>1. snap[c].cursor \in DOMAIN Pages
    BY DEF TypeInv, TypeOK, Row
  <2>2. new \subseteq Jobs /\ IsFiniteSet(new)
    BY <2>1, PipelineAssumption, FS_Subset
  <2>3. Cardinality(new) \in Nat /\ Cardinality(Pages[snap[c].cursor]) \in Nat
    BY <2>1, <2>2, PipelineAssumption, FS_Subset, FS_CardinalityType
  <2>4. HasRun'
    BY <1>6, StaysType DEF EnqueuePage, Outside
  <2> QED
    BY <1>6, <2>2, <2>3, <2>4
    DEF EnqueuePage, Q!Submit, runs, history, TypeInv, TypeOK, Stations
<1>7. ASSUME NEW c \in Callers, EnqueueFails(c)
      PROVE  TypeInv'
  <2>1. snap[c].cursor \in DOMAIN Pages
    BY DEF TypeInv, TypeOK, Row
  <2>2. Pages[snap[c].cursor] \subseteq Jobs
    BY <2>1, PipelineAssumption
  <2>3. queued' \subseteq Jobs /\ UNCHANGED <<leases, done, failed>>
    BY <1>7, <2>2 DEF EnqueueFails, Q!Submit, queue, TypeInv, TypeOK
  <2>4. HasRun'
    BY <1>7, StaysType DEF EnqueueFails, Proceed, Outside
  <2> QED
    BY <1>7, <2>3, <2>4, ProceedType, AbsentType
    DEF EnqueueFails, runs, history, TypeInv, TypeOK, Stations
<1>8. ASSUME NEW c \in Callers, Claim(c)
      PROVE  TypeInv'
  <2>1. run[c] \in Runs
    BY <1>8 DEF Claim, TypeInv, HasRun, Outside
  <2>2. PICK S \in SUBSET queued :
            /\ Q!Lease(c, S)
            /\ work' = [work EXCEPT ![run[c]] = @ + Cardinality(S)]
            /\ at' = [at EXCEPT ![c] = IF S = {} THEN "writing" ELSE "working"]
            /\ outcome' = [outcome EXCEPT ![c] = IF S = {} THEN "empty" ELSE "none"]
    BY <1>8 DEF Claim
  <2>3. Cardinality(S) \in Nat
    BY PipelineAssumption, FS_Subset, FS_CardinalityType DEF TypeInv, TypeOK
  <2>4. work' \in [Runs -> Nat]
    BY <2>1, <2>2, <2>3 DEF TypeInv, TypeOK
  <2>5. HasRun'
    BY <1>8, <2>2, StaysType DEF Claim, Outside
  <2> QED
    BY <1>8, <2>2, <2>4, <2>5
    DEF Claim, Q!Lease, runs, TypeInv, TypeOK, Stations, Outcomes
<1>9. ASSUME NEW c \in Callers, ClaimFails(c)
      PROVE  TypeInv'
  <2>1. HasRun'
    BY <1>9, StaysType DEF ClaimFails, Proceed, Outside
  <2> QED
    BY <1>9, <2>1, ProceedType, AbsentType
    DEF ClaimFails, queue, runs, history, TypeInv, TypeOK, Stations
<1>10. ASSUME NEW c \in Callers, JobSucceeds(c)
       PROVE  TypeInv'
  <2>1. HasRun'
    BY <1>10, StaysType DEF JobSucceeds, Outside
  <2> QED
    BY <1>10, <2>1
    DEF JobSucceeds, Q!Release, runs, TypeInv, TypeOK, Stations, Outcomes
<1>11. ASSUME NEW c \in Callers, JobFails(c)
       PROVE  TypeInv'
  <2>1. HasRun'
    BY <1>11, StaysType DEF JobFails, Outside
  <2>2. outcome' \in [Callers -> Outcomes]
    BY <1>11 DEF JobFails, TypeInv, TypeOK, Outcomes
  <2> QED
    BY <1>11, <2>1, <2>2
    DEF JobFails, Q!Release, runs, history, TypeInv, TypeOK, Stations
<1>12. ASSUME NEW c \in Callers, Write(c)
       PROVE  TypeInv'
  <2>1. run[c] \in Runs /\ Outcome(c) \in Row /\ at[c] \notin Outside
    BY <1>12, OutcomeType DEF Write, Writing, Outside
  <2>2. row' \in [Runs -> Row] /\ active' \in SUBSET Runs
    BY <1>12, <2>1 DEF Write, Patch, TypeInv, TypeOK
  <2>3. HasRun'
    BY <1>12, <2>1, StaysType DEF Write, Proceed
  <2> QED
    BY <1>12, <2>1, <2>2, <2>3, AnsweringType, ProceedType
    DEF Write, queue, history, TypeInv, TypeOK, Stations
<1>13. ASSUME NEW c \in Callers, WriteFails(c)
       PROVE  TypeInv'
  <2>1. run[c] \in Runs /\ Outcome(c) \in Row /\ at[c] \notin Outside
    BY <1>13, OutcomeType DEF WriteFails, Writing, Outside
  <2>2. row' \in [Runs -> Row] /\ active' \in SUBSET Runs
    BY <1>13, <2>1 DEF WriteFails, Patch, runs, TypeInv, TypeOK
  <2>3. CASE at[c] = "writing"
    <3>1. Proceed(c, "failing", Absent) /\ UNCHANGED <<mode, run>>
      BY <1>13, <2>3 DEF WriteFails
    <3>2. HasRun'
      BY <2>1, <3>1, StaysType DEF Proceed
    <3> QED
      BY <1>13, <2>2, <3>1, <3>2, ProceedType, AbsentType
      DEF WriteFails, queue, history, TypeInv, TypeOK, Stations
  <2>4. CASE at[c] # "writing"
    <3>1. Settle(c, "idle")
      BY <1>13, <2>4 DEF WriteFails
    <3> QED
      BY <1>13, <2>2, <3>1, SettleType
      DEF WriteFails, queue, history, TypeInv, TypeOK
  <2> QED
    BY <2>3, <2>4
<1>14. ASSUME NEW c \in Callers, Answer(c)
       PROVE  TypeInv'
  <2>1. PICK station \in {"idle", "driving"} : Settle(c, station)
    BY <1>14 DEF Answer
  <2>2. at[c] \notin Outside
    BY <1>14 DEF Answer, Outside
  <2> QED
    BY <1>14, <2>1, <2>2, SettleType
    DEF Answer, queue, runs, history, TypeInv, TypeOK
<1>15. ASSUME NEW c \in Callers, Kill(c)
       PROVE  TypeInv'
  <2>1. PICK station \in {"idle", "driving"} : Settle(c, station)
    BY <1>15 DEF Kill
  <2>2. at[c] \notin Outside
    BY <1>15 DEF Kill, Outside
  <2>3. PICK D \in SUBSET leases[c] : Q!Release(c, leases[c], D, {})
    BY <1>15 DEF Kill
  <2>4. faults' \in [Runs -> 0..MaxFaults]
    <3>1. run[c] \in Runs
      BY <2>2 DEF TypeInv, HasRun
    <3> QED
      BY <1>15, <3>1, PipelineAssumption DEF Kill, TypeInv, TypeOK
  <2> QED
    BY <1>15, <2>1, <2>2, <2>3, <2>4, SettleType
    DEF Kill, Q!Release, runs, history, TypeInv, TypeOK
<1>16. ASSUME NEW r \in Runs, GoStale(r)
       PROVE  TypeInv'
  BY <1>16 DEF GoStale, queue, caller, history, TypeInv, TypeOK, HasRun
<1>17. CASE Elsewhere
  <2>1. /\ queued' \subseteq Jobs /\ done' \subseteq Jobs /\ failed' \subseteq Jobs
        /\ leases' = leases
    BY <1>17, PipelineAssumption DEF Elsewhere, Q!Submit, TypeInv, TypeOK
  <2> QED
    BY <1>17, <2>1 DEF Elsewhere, runs, caller, history, TypeInv, TypeOK, HasRun
<1> QED
  BY <1>0, <1>1, <1>2, <1>3, <1>4, <1>5, <1>6, <1>7, <1>8, <1>9, <1>10, <1>11,
     <1>12, <1>13, <1>14, <1>15, <1>16, <1>17 DEF Next, Step

(***************************************************************************)
(* TypeCorrect: every row, every request under way and every count stays   *)
(* well typed.                                                             *)
(***************************************************************************)
THEOREM TypeCorrect == Spec => []TypeOK
<1>1. TypeInv => TypeOK
  BY DEF TypeInv
<1> QED
  BY <1>1, TypeInit, TypeStep, PTL DEF Spec

-----------------------------------------------------------------------------
(***************************************************************************)
(* The inductive invariant.  QueueInv: a job is in one place, and what a   *)
(* run's steps enriched is done and counted for that run only.  CountInv:  *)
(* the counters add up in the rows and in the copies that steps under way  *)
(* will write back, a copy never claims more successes than its run's      *)
(* steps had, and a step claims only below the size.  SoloInv: a run that  *)
(* no duplicate step touched has one caller, whose copy is the row itself. *)
(* DueInv: the jobs that such a run claimed were enriched, or have failed  *)
(* and are counted, or are the one its caller still has to count, or were  *)
(* lost with an ended function.                                            *)
(***************************************************************************)
Resting == {"idle", "checked", "driving", "failing", "answering"}

QueueInv ==
    /\ \A c \in Callers : leases[c] \cap (queued \cup done) = {}
    /\ \A b, c \in Callers : b # c => leases[b] \cap leases[c] = {}
    /\ queued \cap done = {}
    /\ \A c \in Callers : IF at[c] = "working" THEN \E j \in Jobs : leases[c] = {j}
                                               ELSE leases[c] = {}
    /\ \A r \in Runs : wins[r] \subseteq done
    /\ \A q, r \in Runs : q # r => wins[q] \cap wins[r] = {}

AddsUp(s) == s.claimed = s.succeeded + s.failed /\ s.claimed <= s.requested

Copy(c) ==
    /\ AddsUp(snap[c])
    /\ snap[c].requested = row[run[c]].requested
    /\ at[c] = "enqueueing" => snap[c].phase = "enqueue"
    /\ at[c] \in {"claiming", "working"} =>
          snap[c].phase # "enqueue" /\ snap[c].claimed < snap[c].requested
    /\ at[c] = "writing" /\ snap[c].phase # "enqueue" =>
          outcome[c] # "none" /\ snap[c].claimed < snap[c].requested

CountInv ==
    /\ \A r \in Runs : AddsUp(row[r]) /\ row[r].succeeded <= Cardinality(wins[r])
    /\ \A c \in Callers : run[c] \in Runs =>
          /\ row[run[c]].status # "absent"
          /\ snap[c].succeeded + Successes(c) <= Cardinality(wins[run[c]])
    /\ \A c \in Callers : IF at[c] \in Resting
                          THEN snap[c].succeeded = 0 /\ outcome[c] = "none"
                          ELSE Copy(c)

SoloInv ==
    \A r \in Runs : dups[r] = 0 =>
        /\ row[r].phase = "done" <=> row[r].status \notin {"absent", "running"}
        /\ row[r].status = "completed" => row[r].failed = 0
        /\ \A b, c \in Callers : run[b] = r /\ run[c] = r => b = c
        /\ \A c \in Callers : run[c] = r /\ at[c] \notin Resting =>
              snap[c] = row[r] /\ row[r].status = "running"

AbsentInv == \A r \in Runs : row[r].status = "absent" => row[r] = Absent

Due == [c \in Callers |->
    IF \/ at[c] \in {"working", "failing"}
       \/ at[c] = "writing" /\ snap[c].phase # "enqueue" /\ outcome[c] \in {"failure", "halt"}
    THEN 1 ELSE 0]
DueFor(r) ==
    /\ row[r].status = "absent" => work[r] = 0
    /\ row[r].status = "completed" => work[r] <= Cardinality(wins[r]) + faults[r]
    /\ row[r].status = "running" => \A c \in Callers : run[c] = r =>
          work[r] <= Cardinality(wins[r]) + row[r].failed + faults[r] + Due[c]
DueInv == \A r \in Runs : dups[r] = 0 => DueFor(r)

IInv == TypeInv /\ QueueInv /\ CountInv /\ SoloInv /\ AbsentInv /\ DueInv
-----------------------------------------------------------------------------
(***************************************************************************)
(* QueueInv.                                                               *)
(***************************************************************************)
\* A caller that neither takes nor gives up a job.
LEMMA QueueStutter ==
    ASSUME TypeInv, QueueInv, NEW c \in Callers, NEW station,
           at[c] # "working", station # "working",
           at' = [at EXCEPT ![c] = station], UNCHANGED <<queue, wins>>
    PROVE  QueueInv'
BY DEF TypeInv, TypeOK, QueueInv, queue

\* A page is queued: its jobs were nowhere.
LEMMA SubmitInv ==
    ASSUME TypeInv, QueueInv, NEW P, Q!Submit(P), UNCHANGED <<at, wins>>
    PROVE  QueueInv'
<1>1. P \cap (queued \cup done) = {} /\ \A c \in Callers : P \cap leases[c] = {}
  BY DEF Q!Submit, Q!Leased
<1> QED
  BY <1>1 DEF Q!Submit, QueueInv

\* A caller gives up its job, D of it done.
LEMMA ReleaseInv ==
    ASSUME TypeInv, QueueInv, NEW c \in Callers, NEW station, station # "working",
           at' = [at EXCEPT ![c] = station], UNCHANGED wins,
           NEW D \in SUBSET leases[c], NEW F \in SUBSET leases[c],
           Q!Release(c, leases[c], D, F)
    PROVE  QueueInv'
<1>1. /\ leases' = [leases EXCEPT ![c] = {}]
      /\ queued' = queued \cup (leases[c] \ (D \cup F))
      /\ done' = done \cup D
  BY DEF Q!Release, TypeInv, TypeOK
<1>2. \A b \in Callers : b # c => leases[b] \cap leases[c] = {}
  BY DEF QueueInv
<1>3. \A b \in Callers : leases'[b] \cap (queued' \cup done') = {}
  BY <1>1, <1>2 DEF QueueInv, TypeInv, TypeOK
<1>4. \A a, b \in Callers : a # b => leases'[a] \cap leases'[b] = {}
  BY <1>1 DEF QueueInv, TypeInv, TypeOK
<1>5. queued' \cap done' = {}
  BY <1>1 DEF QueueInv
<1>6. \A b \in Callers : IF at'[b] = "working" THEN \E j \in Jobs : leases'[b] = {j}
                                                ELSE leases'[b] = {}
  BY <1>1 DEF QueueInv, TypeInv, TypeOK
<1> QED
  BY <1>1, <1>3, <1>4, <1>5, <1>6 DEF QueueInv

LEMMA QueueStep == TypeInv /\ QueueInv /\ [Next]_vars => QueueInv'
<1> SUFFICES ASSUME TypeInv, QueueInv, [Next]_vars
             PROVE  QueueInv'
  OBVIOUS
<1>0. CASE UNCHANGED vars
  BY <1>0 DEF vars, queue, caller, history, QueueInv
<1>1. ASSUME NEW c \in Callers,
             Start(c) \/ Insert(c) \/ Duplicate(c) \/ ClaimFails(c)
      PROVE  QueueInv'
  BY <1>1, QueueStutter DEF Start, Insert, Duplicate, ClaimFails, Proceed, history
<1>2. ASSUME NEW c \in Callers, Leave(c) \/ Answer(c)
      PROVE  QueueInv'
  <2>1. PICK station \in {"idle", "driving"} : Settle(c, station)
    BY <1>2 DEF Leave, Answer
  <2> QED
    BY <1>2, <2>1, QueueStutter DEF Leave, Answer, Settle, Proceed, history
<1>3. ASSUME NEW c \in Callers, Read(c)
      PROVE  QueueInv'
  <2>1. NextStation(Now(c)) # "working"
    BY DEF NextStation
  <2> QED
    BY <1>3, <2>1, QueueStutter DEF Read, Proceed, history
<1>4. ASSUME NEW c \in Callers, Write(c) \/ WriteFails(c)
      PROVE  QueueInv'
  <2>1. at[c] # "working" /\ UNCHANGED <<queue, wins>>
    BY <1>4 DEF Write, WriteFails, Writing, history
  <2>2. PICK station : at' = [at EXCEPT ![c] = station] /\ station # "working"
    BY <1>4 DEF Write, WriteFails, Settle, Proceed
  <2> QED
    BY <2>1, <2>2, QueueStutter
<1>5. ASSUME NEW c \in Callers, EnqueuePage(c) \/ EnqueueFails(c)
      PROVE  QueueInv'
  <2>1. at[c] # "working" /\ UNCHANGED wins
    BY <1>5 DEF EnqueuePage, EnqueueFails, history
  <2>2. PICK station : at' = [at EXCEPT ![c] = station] /\ station # "working"
    BY <1>5 DEF EnqueuePage, EnqueueFails, Proceed
  <2>3. CASE UNCHANGED queue
    BY <2>1, <2>2, <2>3, QueueStutter
  <2>4. ASSUME NEW P, Q!Submit(P)
        PROVE  QueueInv'
    <3>1. P \cap (queued \cup done) = {} /\ \A b \in Callers : P \cap leases[b] = {}
      BY <2>4 DEF Q!Submit, Q!Leased
    <3> QED
      BY <2>1, <2>2, <2>4, <3>1 DEF Q!Submit, QueueInv, TypeInv, TypeOK
  <2> QED
    BY <1>5, <2>3, <2>4 DEF EnqueuePage, EnqueueFails
<1>6. ASSUME NEW c \in Callers, Claim(c)
      PROVE  QueueInv'
  <2>1. PICK S \in SUBSET queued :
            /\ Cardinality(S) <= 1
            /\ Q!Lease(c, S)
            /\ at' = [at EXCEPT ![c] = IF S = {} THEN "writing" ELSE "working"]
            /\ UNCHANGED wins
    BY <1>6 DEF Claim
  <2>2. S = {} \/ \E j \in Jobs : S = {j}
    <3>1. S \subseteq Jobs /\ IsFiniteSet(S)
      BY PipelineAssumption, FS_Subset DEF TypeInv, TypeOK
    <3>2. Cardinality(S) = 0 \/ Cardinality(S) = 1
      BY <2>1, <3>1, FS_CardinalityType
    <3> QED
      BY <3>1, <3>2, FS_EmptySet, FS_Singleton
  <2>3. leases[c] = {}
    BY <2>1 DEF Q!Lease
  <2>4. leases' = [leases EXCEPT ![c] = S] /\ queued' = queued \ S /\ done' = done
    BY <2>1 DEF Q!Lease
  <2>5. \A b \in Callers : leases'[b] \cap (queued' \cup done') = {}
    BY <2>4 DEF QueueInv, TypeInv, TypeOK
  <2>6. \A a, b \in Callers : a # b => leases'[a] \cap leases'[b] = {}
    BY <2>4 DEF QueueInv, TypeInv, TypeOK
  <2>7. \A b \in Callers : IF at'[b] = "working" THEN \E j \in Jobs : leases'[b] = {j}
                                                  ELSE leases'[b] = {}
    BY <2>1, <2>2, <2>4 DEF QueueInv, TypeInv, TypeOK
  <2> QED
    BY <2>1, <2>4, <2>5, <2>6, <2>7 DEF QueueInv
<1>7. ASSUME NEW c \in Callers, JobSucceeds(c)
      PROVE  QueueInv'
  <2>1. PICK j \in Jobs : leases[c] = {j} /\ j \notin done /\ j \notin queued
    BY <1>7 DEF JobSucceeds, QueueInv
  <2>2. /\ leases' = [leases EXCEPT ![c] = {}]
        /\ queued' = queued
        /\ done' = done \cup {j}
    BY <1>7, <2>1 DEF JobSucceeds, Q!Release, TypeInv, TypeOK
  <2>3. /\ wins' = [wins EXCEPT ![run[c]] = @ \cup {j}]
        /\ at' = [at EXCEPT ![c] = "writing"]
    BY <1>7, <2>1 DEF JobSucceeds
  <2>4. \A b \in Callers : b # c => j \notin leases[b]
    BY <2>1 DEF QueueInv
  <2>5. \A b \in Callers : leases'[b] \cap (queued' \cup done') = {}
    BY <2>2, <2>4 DEF QueueInv, TypeInv, TypeOK
  <2>6. \A a, b \in Callers : a # b => leases'[a] \cap leases'[b] = {}
    BY <2>2 DEF QueueInv, TypeInv, TypeOK
  <2>7. \A r \in Runs : j \notin wins[r]
    BY <2>1 DEF QueueInv
  <2>8. \A r \in Runs : wins'[r] \subseteq done'
    BY <2>2, <2>3 DEF QueueInv, TypeInv, TypeOK
  <2>9. \A q, r \in Runs : q # r => wins'[q] \cap wins'[r] = {}
    BY <2>3, <2>7 DEF QueueInv, TypeInv, TypeOK
  <2>10. \A b \in Callers : IF at'[b] = "working" THEN \E k \in Jobs : leases'[b] = {k}
                                                   ELSE leases'[b] = {}
    BY <2>2, <2>3 DEF QueueInv, TypeInv, TypeOK
  <2> QED
    BY <2>1, <2>2, <2>5, <2>6, <2>8, <2>9, <2>10 DEF QueueInv
<1>8. ASSUME NEW c \in Callers, JobFails(c)
      PROVE  QueueInv'
  <2>1. PICK D \in SUBSET leases[c], F \in SUBSET leases[c] :
            Q!Release(c, leases[c], D, F)
    BY <1>8 DEF JobFails
  <2> QED
    BY <1>8, <2>1, ReleaseInv DEF JobFails, history
<1>9. ASSUME NEW c \in Callers, Kill(c)
      PROVE  QueueInv'
  <2>1. PICK D \in SUBSET leases[c], F \in SUBSET leases[c] :
            Q!Release(c, leases[c], D, F)
    BY <1>9 DEF Kill
  <2>2. PICK station \in {"idle", "driving"} : Settle(c, station)
    BY <1>9 DEF Kill
  <2>3. at' = [at EXCEPT ![c] = station] /\ UNCHANGED wins
    BY <1>9, <2>2 DEF Kill, Settle, Proceed, history
  <2> QED
    BY <2>1, <2>2, <2>3, ReleaseInv
<1>10. ASSUME NEW r \in Runs, GoStale(r)
       PROVE  QueueInv'
  BY <1>10 DEF GoStale, queue, caller, history, QueueInv
<1>11. CASE Elsewhere
  <2>1. UNCHANGED <<at, wins>>
    BY <1>11 DEF Elsewhere, caller, history
  <2>2. ASSUME NEW P, Q!Submit(P)
        PROVE  QueueInv'
    BY <2>1, <2>2, SubmitInv
  <2>3. ASSUME NEW j \in queued, queued' = queued \ {j}, UNCHANGED leases,
               done' = done \cup {j} \/ UNCHANGED done
        PROVE  QueueInv'
    <3>1. \A c \in Callers : j \notin leases[c]
      BY DEF QueueInv
    <3> QED
      BY <2>1, <2>3, <3>1 DEF QueueInv
  <2> QED
    BY <1>11, <2>2, <2>3 DEF Elsewhere
<1> QED
  BY <1>0, <1>1, <1>2, <1>3, <1>4, <1>5, <1>6, <1>7, <1>8, <1>9, <1>10, <1>11
  DEF Next, Step
-----------------------------------------------------------------------------
(***************************************************************************)
(* CountInv.                                                               *)
(***************************************************************************)
LEMMA WinsType ==
    ASSUME TypeInv, NEW r \in Runs
    PROVE  IsFiniteSet(wins[r]) /\ Cardinality(wins[r]) \in Nat
BY PipelineAssumption, FS_Subset, FS_CardinalityType DEF TypeInv, TypeOK

LEMMA AbsentCounts == AddsUp(Absent) /\ Absent.succeeded = 0
BY DEF Absent, NewRow, AddsUp

\* What a step writes back adds up, and its successes are covered.
LEMMA OutcomeCounts ==
    ASSUME TypeInv, CountInv, NEW c \in Callers, at[c] \in Writing
    PROVE  /\ AddsUp(Outcome(c))
           /\ Outcome(c).requested = row[run[c]].requested
           /\ Outcome(c).status # "absent"
           /\ Outcome(c).succeeded <= Cardinality(wins[run[c]])
<1> DEFINE r == run[c]
           s == snap[c]
<1>1. /\ r \in Runs /\ row[r] \in Row /\ s \in Row
      /\ Cardinality(wins[r]) \in Nat
  BY OutcomeType, WinsType DEF TypeInv, TypeOK
<1>2. /\ AddsUp(row[r]) /\ row[r].status # "absent"
      /\ row[r].succeeded <= Cardinality(wins[r])
      /\ s.succeeded + Successes(c) <= Cardinality(wins[r])
  BY <1>1 DEF CountInv
<1>3. CASE at[c] = "failing"
  BY <1>1, <1>2, <1>3 DEF Outcome, Failed, Now, AddsUp, Row
<1>4. CASE at[c] = "advancing"
  BY <1>1, <1>2, <1>4 DEF Outcome, Advanced, FinalStatus, Now, AddsUp, Row
<1>5. CASE at[c] = "writing" /\ s.phase = "enqueue"
  BY <1>1, <1>2, <1>5 DEF Outcome, Enqueued, Now, AddsUp, Row
<1>6. CASE at[c] = "writing" /\ s.phase # "enqueue"
  <2> DEFINE new == Counted(c, Now(c), Claims(c), Successes(c), Failures(c))
  <2>1. /\ AddsUp(s) /\ s.requested = row[r].requested
        /\ outcome[c] # "none" /\ s.claimed < s.requested
    BY <1>6 DEF CountInv, Copy, Resting
  <2>2. /\ Claims(c) = Successes(c) + Failures(c)
        /\ Claims(c) \in 0..1 /\ Successes(c) \in 0..1 /\ Failures(c) \in 0..1
    BY <2>1 DEF Claims, Successes, Failures, TypeInv, TypeOK, Outcomes
  <2>3. /\ new.claimed = s.claimed + Claims(c)
        /\ new.succeeded = s.succeeded + Successes(c)
        /\ new.failed = s.failed + Failures(c)
        /\ new.requested = row[r].requested
        /\ new.status = row[r].status
        /\ new = [new EXCEPT !.status = new.status]
    BY <1>1 DEF Counted, Now, Row
  <2>4. AddsUp(new) /\ new.succeeded <= Cardinality(wins[r])
    BY <1>1, <1>2, <2>1, <2>2, <2>3 DEF AddsUp, Row
  <2>5. new \in Row
    BY <1>1, <2>2, CountedType DEF TypeInv, Now
  <2> HIDE DEF new
  <2>6. /\ Outcome(c).claimed = new.claimed
        /\ Outcome(c).succeeded = new.succeeded
        /\ Outcome(c).failed = new.failed
        /\ Outcome(c).requested = new.requested
        /\ Outcome(c).status \in {new.status, "quota_halted", "partial", "completed"}
    BY <1>6, <2>5 DEF Outcome, Worked, Ended, FinalStatus, Row, new
  <2> QED
    BY <1>2, <2>3, <2>4, <2>6 DEF AddsUp
<1> QED
  BY <1>3, <1>4, <1>5, <1>6 DEF Writing

\* The rows keep their sizes, and what they count is covered.
RowsKept ==
    \A r \in Runs : /\ AddsUp(row'[r])
                    /\ row'[r].succeeded <= Cardinality(wins[r])
                    /\ row'[r].requested = row[r].requested
                    /\ row[r].status # "absent" => row'[r].status # "absent"

LEMMA KeptRows ==
    ASSUME CountInv, UNCHANGED row
    PROVE  RowsKept
BY DEF CountInv, RowsKept

LEMMA PatchedRows ==
    ASSUME TypeInv, CountInv, NEW c \in Callers, at[c] \in Writing,
           Patch(c, Outcome(c))
    PROVE  RowsKept
BY OutcomeType, OutcomeCounts DEF Patch, RowsKept, CountInv, TypeInv, TypeOK

\* A caller that drops its copy.
LEMMA CountRest ==
    ASSUME TypeInv, CountInv, RowsKept, UNCHANGED wins,
           NEW c \in Callers, NEW station \in Resting, NEW s \in Row,
           s.succeeded = 0, Proceed(c, station, s),
           run' = run \/ run' = [run EXCEPT ![c] = NoRun]
    PROVE  CountInv'
<1>1. \A r \in Runs : AddsUp(row[r])' /\ row'[r].succeeded <= Cardinality(wins'[r])
  BY DEF RowsKept, AddsUp
<1>2. /\ at' = [at EXCEPT ![c] = station] /\ snap' = [snap EXCEPT ![c] = s]
      /\ outcome' = [outcome EXCEPT ![c] = "none"]
  BY DEF Proceed
<1>3. ASSUME NEW b \in Callers
      PROVE  /\ run'[b] \in Runs =>
                   /\ row'[run'[b]].status # "absent"
                   /\ snap'[b].succeeded + Successes(b)' <= Cardinality(wins'[run'[b]])
             /\ IF at'[b] \in Resting
                THEN snap'[b].succeeded = 0 /\ outcome'[b] = "none"
                ELSE Copy(b)'
  <2>1. run'[b] \in Runs => run'[b] = run[b]
    BY PipelineAssumption DEF TypeInv, TypeOK
  <2>2. CASE b = c
    <3>1. snap'[b].succeeded = 0 /\ outcome'[b] = "none" /\ at'[b] \in Resting
      BY <1>2, <2>2 DEF TypeInv, TypeOK
    <3>2. Successes(b)' = 0
      BY <3>1 DEF Successes
    <3>3. run'[b] \in Runs => Cardinality(wins[run[b]]) \in Nat
      BY <2>1, WinsType
    <3>4. run'[b] \in Runs => row'[run[b]].status # "absent"
      BY <2>1 DEF CountInv, RowsKept
    <3> QED
      BY <2>1, <3>1, <3>2, <3>3, <3>4
  <2>3. CASE b # c
    <3>1. /\ at'[b] = at[b] /\ snap'[b] = snap[b] /\ outcome'[b] = outcome[b]
          /\ run'[b] = run[b]
      BY <1>2, <2>3 DEF TypeInv, TypeOK
    <3>2. Successes(b)' = Successes(b)
      BY <3>1 DEF Successes
    <3>3. at[b] \notin Resting => run[b] \in Runs
      BY DEF TypeInv, HasRun, Resting, Outside
    <3>4. at[b] \notin Resting => Copy(b)'
      BY <3>1, <3>3 DEF CountInv, Copy, AddsUp, RowsKept
    <3> QED
      BY <3>1, <3>2, <3>4 DEF CountInv, RowsKept
  <2> QED
    BY <2>2, <2>3
<1> QED
  BY <1>1, <1>3 DEF CountInv
\* A caller that goes on with its copy, or with none.
LEMMA CountGoesOn ==
    ASSUME TypeInv, CountInv, UNCHANGED <<row, wins>>,
           NEW c \in Callers,
           \A b \in Callers \ {c} : /\ at'[b] = at[b] /\ snap'[b] = snap[b]
                                   /\ outcome'[b] = outcome[b] /\ run'[b] = run[b],
           run'[c] \in Runs =>
              /\ row[run'[c]].status # "absent"
              /\ snap'[c].succeeded + Successes(c)' <= Cardinality(wins[run'[c]]),
           IF at'[c] \in Resting THEN snap'[c].succeeded = 0 /\ outcome'[c] = "none"
                                 ELSE Copy(c)'
    PROVE  CountInv'
<1>1. ASSUME NEW b \in Callers, b # c
      PROVE  /\ Successes(b)' = Successes(b)
             /\ at'[b] \notin Resting => Copy(b)'
  <2>1. /\ at'[b] = at[b] /\ snap'[b] = snap[b]
        /\ outcome'[b] = outcome[b] /\ run'[b] = run[b]
    BY <1>1
  <2>2. Successes(b)' = Successes(b)
    BY <2>1 DEF Successes
  <2>3. at[b] \notin Resting => Copy(b)'
    BY <2>1 DEF CountInv, Copy, AddsUp
  <2> QED
    BY <2>1, <2>2, <2>3
<1>2. \A r \in Runs : AddsUp(row[r])'
  BY DEF CountInv, AddsUp
<1> QED
  BY <1>1, <1>2 DEF CountInv

LEMMA CountStep == TypeInv /\ QueueInv /\ CountInv /\ [Next]_vars => CountInv'
<1> SUFFICES ASSUME TypeInv, QueueInv, CountInv, [Next]_vars
             PROVE  CountInv'
  OBVIOUS
<1>0. CASE UNCHANGED <<row, wins, caller>>
  BY <1>0 DEF caller, CountInv, Copy, AddsUp, Successes
<1>1. ASSUME NEW c \in Callers, Start(c)
      PROVE  CountInv'
  <2>1. /\ at[c] \in Resting /\ at'[c] \in Resting
        /\ \A b \in Callers \ {c} : at'[b] = at[b]
        /\ UNCHANGED <<row, wins, snap, outcome, run>>
    BY <1>1 DEF Start, TypeInv, TypeOK, Resting, runs, history
  <2>2. Successes(c)' = Successes(c)
    BY <2>1 DEF Successes
  <2> QED
    BY <2>1, <2>2, CountGoesOn DEF CountInv
<1>2. ASSUME NEW c \in Callers, Insert(c)
      PROVE  CountInv'
  <2>1. PICK r \in Runs, n \in 1..MaxRequested :
            /\ row[r].status = "absent"
            /\ row' = [row EXCEPT ![r] = NewRow("running", n)]
            /\ run' = [run EXCEPT ![c] = r]
    BY <1>2 DEF Insert
  <2>2. /\ at[c] = "checked" /\ at' = [at EXCEPT ![c] = "driving"]
        /\ UNCHANGED <<wins, snap, outcome>>
    BY <1>2 DEF Insert, history
  <2>3. snap[c].succeeded = 0 /\ outcome[c] = "none"
    BY <2>2 DEF CountInv, Resting
  <2>4. /\ AddsUp(NewRow("running", n))
        /\ NewRow("running", n).succeeded = 0
        /\ NewRow("running", n).status = "running"
    BY PipelineAssumption DEF NewRow, AddsUp
  <2>5. \A q \in Runs : /\ AddsUp(row[q])'
                        /\ row'[q].succeeded <= Cardinality(wins'[q])
    BY <2>1, <2>2, <2>4, WinsType DEF CountInv, TypeInv, TypeOK, AddsUp
  <2>6. ASSUME NEW b \in Callers
        PROVE  /\ run'[b] \in Runs =>
                     /\ row'[run'[b]].status # "absent"
                     /\ snap'[b].succeeded + Successes(b)' <= Cardinality(wins'[run'[b]])
               /\ IF at'[b] \in Resting
                  THEN snap'[b].succeeded = 0 /\ outcome'[b] = "none"
                  ELSE Copy(b)'
    <3>1. Successes(b)' = Successes(b)
      BY <2>2 DEF Successes
    <3>2. CASE b = c
      <4>1. Successes(c)' = 0
        BY <2>2, <2>3 DEF Successes
      <4>2. run'[c] = r /\ at'[c] \in Resting /\ row'[r].status = "running"
        BY <2>1, <2>2, <2>4 DEF TypeInv, TypeOK, Resting
      <4> QED
        BY <2>2, <2>3, <3>2, <4>1, <4>2, WinsType
    <3>3. CASE b # c
      <4>1. run'[b] = run[b] /\ at'[b] = at[b]
        BY <2>1, <2>2, <3>3 DEF TypeInv, TypeOK
      <4>2. run[b] \in Runs => row'[run[b]] = row[run[b]]
        BY <2>1 DEF CountInv, TypeInv, TypeOK
      <4>3. at[b] \notin Resting => run[b] \in Runs
        BY DEF TypeInv, HasRun, Resting, Outside
      <4>4. at[b] \notin Resting => Copy(b)'
        BY <2>2, <4>1, <4>2, <4>3 DEF CountInv, Copy, AddsUp
      <4> QED
        BY <2>2, <3>1, <4>1, <4>2, <4>4 DEF CountInv
    <3> QED
      BY <3>2, <3>3
  <2> QED
    BY <2>5, <2>6 DEF CountInv
<1>3. ASSUME NEW c \in Callers, Duplicate(c)
      PROVE  CountInv'
  <2>1. PICK r \in Runs : /\ row[r].status # "absent"
                          /\ run' = [run EXCEPT ![c] = r]
    BY <1>3 DEF Duplicate
  <2>2. /\ at[c] = "idle" /\ at' = [at EXCEPT ![c] = "driving"]
        /\ UNCHANGED <<row, wins, snap, outcome>>
    BY <1>3 DEF Duplicate, runs
  <2>3. snap[c].succeeded = 0 /\ outcome[c] = "none"
    BY <2>2 DEF CountInv, Resting
  <2>4. Successes(c)' = 0 /\ Cardinality(wins[r]) \in Nat
    BY <2>2, <2>3, WinsType DEF Successes
  <2>5. run'[c] = r /\ at'[c] \in Resting
    BY <2>1, <2>2 DEF TypeInv, TypeOK, Resting
  <2>6. \A b \in Callers \ {c} : run'[b] = run[b] /\ at'[b] = at[b]
    BY <2>1, <2>2 DEF TypeInv, TypeOK
  <2> QED
    BY <2>1, <2>2, <2>3, <2>4, <2>5, <2>6, CountGoesOn
<1>4. ASSUME NEW c \in Callers, Leave(c) \/ Answer(c) \/ Kill(c)
      PROVE  CountInv'
  <2>1. PICK station \in {"idle", "driving"} : Settle(c, station)
    BY <1>4 DEF Leave, Answer, Kill
  <2>2. /\ Proceed(c, station, Absent) /\ station \in Resting
        /\ run' = run \/ run' = [run EXCEPT ![c] = NoRun]
    BY <2>1 DEF Settle, Resting, TypeInv, TypeOK
  <2>3. UNCHANGED <<row, wins>>
    BY <1>4 DEF Leave, Answer, Kill, runs, history
  <2> QED
    BY <2>2, <2>3, KeptRows, CountRest, AbsentType, AbsentCounts
<1>5. ASSUME NEW c \in Callers, EnqueueFails(c) \/ ClaimFails(c)
      PROVE  CountInv'
  <2>1. /\ Proceed(c, "failing", Absent) /\ "failing" \in Resting
        /\ UNCHANGED <<row, wins, run>>
    BY <1>5 DEF EnqueueFails, ClaimFails, Resting, runs, history
  <2> QED
    BY <2>1, KeptRows, CountRest, AbsentType, AbsentCounts
<1>6. ASSUME NEW c \in Callers, Read(c)
      PROVE  CountInv'
  <2>1. run[c] \in Runs /\ UNCHANGED <<row, wins, run>>
    BY <1>6 DEF Read, TypeInv, HasRun, Outside, runs, history
  <2>2. Now(c) \in Row
    BY <2>1 DEF Now, TypeInv, TypeOK
  <2>3. CASE NextStation(Now(c)) = "answering"
    <3>1. Proceed(c, "answering", Answering(Now(c))) /\ "answering" \in Resting
      BY <1>6, <2>3 DEF Read, Resting
    <3>2. Answering(Now(c)).succeeded = 0
      BY DEF Answering, Absent, NewRow
    <3> QED
      BY <2>1, <2>2, <3>1, <3>2, AnsweringType, KeptRows, CountRest
  <2>4. CASE NextStation(Now(c)) # "answering"
    <3> DEFINE station == NextStation(Now(c))
    <3>1. /\ at' = [at EXCEPT ![c] = station] /\ snap' = [snap EXCEPT ![c] = Now(c)]
          /\ outcome' = [outcome EXCEPT ![c] = "none"]
      BY <1>6, <2>4 DEF Read, Proceed
    <3>2. at'[c] = station /\ snap'[c] = Now(c) /\ outcome'[c] = "none"
      BY <3>1 DEF TypeInv, TypeOK
    <3>3. /\ station \in {"advancing", "enqueueing", "claiming"}
          /\ station = "enqueueing" => Now(c).phase = "enqueue"
          /\ station = "claiming" =>
                Now(c).phase # "enqueue" /\ Now(c).claimed < Now(c).requested
      BY <2>2, <2>4 DEF NextStation, Row
    <3>4. Successes(c)' = 0
      BY <3>2 DEF Successes
    <3>5. /\ AddsUp(Now(c)) /\ Now(c).succeeded <= Cardinality(wins[run[c]])
          /\ Now(c).status # "absent"
      BY <2>1 DEF CountInv, Now
    <3>6. Copy(c)' /\ at'[c] \notin Resting
      BY <2>1, <3>2, <3>3, <3>5 DEF Copy, AddsUp, Now, Resting
    <3>7. Now(c).succeeded + 0 <= Cardinality(wins[run[c]])
      BY <2>2, <3>5 DEF Row
    <3>8. \A b \in Callers \ {c} : /\ at'[b] = at[b] /\ snap'[b] = snap[b]
                                   /\ outcome'[b] = outcome[b] /\ run'[b] = run[b]
      BY <2>1, <3>1 DEF TypeInv, TypeOK
    <3>9. row[run[c]].status # "absent"
      BY <3>5 DEF Now
    <3> QED
      BY <2>1, <3>2, <3>4, <3>6, <3>7, <3>8, <3>9, CountGoesOn
  <2> QED
    BY <2>3, <2>4
<1>7. ASSUME NEW c \in Callers, EnqueuePage(c)
      PROVE  CountInv'
  <2>1. /\ at[c] = "enqueueing" /\ at'[c] = "writing"
        /\ \A b \in Callers \ {c} : at'[b] = at[b]
        /\ UNCHANGED <<row, wins, snap, outcome, run>>
    BY <1>7 DEF EnqueuePage, runs, history, TypeInv, TypeOK
  <2>2. Copy(c) /\ snap[c].phase = "enqueue"
    BY <2>1 DEF CountInv, Copy, Resting
  <2>3. Copy(c)' /\ at'[c] \notin Resting
    BY <2>1, <2>2 DEF Copy, AddsUp, Resting
  <2>4. Successes(c)' = Successes(c)
    BY <2>1 DEF Successes
  <2> QED
    BY <2>1, <2>3, <2>4, CountGoesOn DEF CountInv
<1>8. ASSUME NEW c \in Callers, Claim(c) \/ JobFails(c)
      PROVE  CountInv'
  <2>1. PICK station \in {"working", "writing"}, o \in {"none", "empty", "failure", "halt"} :
            /\ at' = [at EXCEPT ![c] = station]
            /\ outcome' = [outcome EXCEPT ![c] = o]
            /\ station = "writing" => o # "none"
    BY <1>8 DEF Claim, JobFails
  <2>2. /\ at[c] \in {"claiming", "working"} /\ at'[c] = station /\ outcome'[c] = o
        /\ UNCHANGED <<row, wins, snap, run>>
    BY <1>8, <2>1 DEF Claim, JobFails, runs, history, TypeInv, TypeOK
  <2>3. Copy(c) /\ snap[c].phase # "enqueue" /\ snap[c].claimed < snap[c].requested
    BY <2>2 DEF CountInv, Copy, Resting
  <2>4. Copy(c)' /\ at'[c] \notin Resting
    BY <2>1, <2>2, <2>3 DEF Copy, AddsUp, Resting
  <2>5. run[c] \in Runs
    BY <2>2 DEF TypeInv, HasRun, Outside
  <2>6. snap[c].succeeded + Successes(c)' <= Cardinality(wins[run[c]])
    <3>1. Successes(c)' = 0 /\ Successes(c) \in 0..1
      BY <2>1, <2>2 DEF Successes
    <3>2. snap[c].succeeded \in Nat /\ Cardinality(wins[run[c]]) \in Nat
      BY <2>5, WinsType DEF TypeInv, TypeOK, Row
    <3> QED
      BY <2>5, <3>1, <3>2 DEF CountInv
  <2>7. \A b \in Callers \ {c} : at'[b] = at[b] /\ outcome'[b] = outcome[b]
    BY <2>1 DEF TypeInv, TypeOK
  <2> QED
    BY <2>2, <2>4, <2>5, <2>6, <2>7, CountGoesOn DEF CountInv
<1>9. ASSUME NEW c \in Callers, JobSucceeds(c)
      PROVE  CountInv'
  <2>1. /\ at[c] = "working" /\ run[c] \in Runs
        /\ at' = [at EXCEPT ![c] = "writing"]
        /\ outcome' = [outcome EXCEPT ![c] = "success"]
        /\ UNCHANGED <<row, snap, run>>
    BY <1>9 DEF JobSucceeds, runs, TypeInv, HasRun, Outside
  <2>2. PICK j \in Jobs : leases[c] = {j} /\ j \notin done
    BY <2>1 DEF QueueInv
  <2>3. wins' = [wins EXCEPT ![run[c]] = @ \cup {j}] /\ j \notin wins[run[c]]
    BY <1>9, <2>1, <2>2 DEF JobSucceeds, QueueInv
  <2>4. \A r \in Runs : /\ IsFiniteSet(wins[r]) /\ Cardinality(wins[r]) \in Nat
                        /\ Cardinality(wins'[r]) =
                              Cardinality(wins[r]) + IF r = run[c] THEN 1 ELSE 0
    <3>1. \A r \in Runs : IsFiniteSet(wins[r]) /\ Cardinality(wins[r]) \in Nat
      BY WinsType
    <3>2. \A r \in Runs : r # run[c] => wins'[r] = wins[r]
      BY <2>3 DEF TypeInv, TypeOK
    <3>3. wins'[run[c]] = wins[run[c]] \cup {j}
      BY <2>1, <2>3 DEF TypeInv, TypeOK
    <3>4. Cardinality(wins'[run[c]]) = Cardinality(wins[run[c]]) + 1
      BY <2>1, <2>3, <3>1, <3>3, FS_AddElement
    <3> QED
      BY <3>1, <3>2, <3>4
  <2>5. \A r \in Runs : AddsUp(row[r])' /\ row'[r].succeeded <= Cardinality(wins'[r])
    <3>1. \A r \in Runs : row[r].succeeded \in Nat
      BY DEF TypeInv, TypeOK, Row
    <3>2. \A r \in Runs : AddsUp(row[r]) /\ row[r].succeeded <= Cardinality(wins[r])
      BY DEF CountInv
    <3>3. \A r \in Runs : AddsUp(row[r])'
      BY <2>1, <3>2 DEF AddsUp
    <3> QED
      BY <2>1, <2>4, <3>1, <3>2, <3>3
  <2>6. ASSUME NEW b \in Callers
        PROVE  /\ run'[b] \in Runs =>
                     /\ row'[run'[b]].status # "absent"
                     /\ snap'[b].succeeded + Successes(b)' <= Cardinality(wins'[run'[b]])
               /\ IF at'[b] \in Resting
                  THEN snap'[b].succeeded = 0 /\ outcome'[b] = "none"
                  ELSE Copy(b)'
    <3>1. snap[b].succeeded \in Nat /\ Successes(b) \in 0..1 /\ Successes(b)' \in 0..1
      BY DEF TypeInv, TypeOK, Row, Successes
    <3>2. CASE b = c
      <4>1. at'[c] = "writing" /\ outcome'[c] = "success"
        BY <2>1 DEF TypeInv, TypeOK
      <4>2. Copy(c) /\ snap[c].claimed < snap[c].requested
        BY <2>1 DEF CountInv, Copy, Resting
      <4>3. Copy(c)' /\ at'[c] \notin Resting
        BY <2>1, <4>1, <4>2 DEF Copy, AddsUp, Resting
      <4>4. snap[c].succeeded + Successes(c) <= Cardinality(wins[run[c]])
        BY <2>1 DEF CountInv
      <4>5. snap[c].succeeded + Successes(c)' <= Cardinality(wins'[run[c]])
        BY <2>1, <2>4, <3>1, <3>2, <4>4
      <4> QED
        BY <2>1, <3>2, <4>3, <4>5 DEF CountInv
    <3>3. CASE b # c
      <4>1. at'[b] = at[b] /\ outcome'[b] = outcome[b]
        BY <2>1, <3>3 DEF TypeInv, TypeOK
      <4>2. Successes(b)' = Successes(b)
        BY <4>1 DEF Successes
      <4>3. at[b] \notin Resting => Copy(b)'
        BY <2>1, <4>1 DEF CountInv, Copy, AddsUp
      <4>4. run[b] \in Runs => snap[b].succeeded + Successes(b) <= Cardinality(wins'[run[b]])
        BY <2>4, <3>1 DEF CountInv
      <4> QED
        BY <2>1, <4>1, <4>2, <4>3, <4>4 DEF CountInv
    <3> QED
      BY <3>2, <3>3
  <2> QED
    BY <2>5, <2>6 DEF CountInv
<1>10. ASSUME NEW c \in Callers, Write(c) \/ WriteFails(c)
       PROVE  CountInv'
  <2>1. at[c] \in Writing /\ UNCHANGED wins
    BY <1>10 DEF Write, WriteFails, history
  <2>2. Outcome(c) \in Row
    BY <2>1, OutcomeType
  <2>3. Patch(c, Outcome(c)) \/ UNCHANGED row
    BY <1>10 DEF Write, WriteFails, runs
  <2>4. RowsKept
    BY <2>1, <2>3, PatchedRows, KeptRows
  <2>5. Answering(Outcome(c)).succeeded = 0
    BY DEF Answering, Absent, NewRow
  <2>6. PICK station \in Resting, s \in Row :
            /\ s.succeeded = 0
            /\ Proceed(c, station, s)
            /\ run' = run \/ run' = [run EXCEPT ![c] = NoRun]
    <3>1. CASE Write(c)
      BY <2>2, <2>5, <3>1, AnsweringType DEF Write, Resting
    <3>2. CASE WriteFails(c) /\ at[c] = "writing"
      BY <3>2, AbsentType, AbsentCounts DEF WriteFails, Resting
    <3>3. CASE WriteFails(c) /\ at[c] # "writing"
      <4>1. Settle(c, "idle")
        BY <3>3 DEF WriteFails
      <4>2. Proceed(c, "idle", Absent) /\ run' = [run EXCEPT ![c] = NoRun]
        BY <4>1 DEF Settle, TypeInv, TypeOK
      <4> QED
        BY <4>2, AbsentType, AbsentCounts DEF Resting
    <3> QED
      BY <1>10, <3>1, <3>2, <3>3
  <2> QED
    BY <2>1, <2>4, <2>6, CountRest
<1> QED
  <2>1. ASSUME NEW r \in Runs, GoStale(r)
        PROVE  UNCHANGED <<row, wins, caller>>
    BY <2>1 DEF GoStale, history
  <2>2. Elsewhere \/ UNCHANGED vars => UNCHANGED <<row, wins, caller>>
    BY DEF Elsewhere, vars, runs, history
  <2> QED
    BY <1>0, <1>1, <1>2, <1>3, <1>4, <1>5, <1>6, <1>7, <1>8, <1>9, <1>10,
       <2>1, <2>2 DEF Next, Step
-----------------------------------------------------------------------------
(***************************************************************************)
(* SoloInv.                                                                *)
(***************************************************************************)
\* What the only caller of a run writes follows from the run's row.
LEMMA SoloOutcome ==
    ASSUME TypeInv, CountInv, SoloInv, NEW c \in Callers, at[c] \in Writing,
           dups[run[c]] = 0
    PROVE  LET old == row[run[c]]
               new == Outcome(c)
           IN  /\ new.phase = "done" <=> new.status \notin {"absent", "running"}
               /\ new.status = "completed" => new.failed = 0
               /\ Rank(old.phase) <= Rank(new.phase)
               /\ old.enqueued <= new.enqueued
               /\ old.succeeded <= new.succeeded
               /\ old.failed <= new.failed
<1> DEFINE r == run[c]
           s == snap[c]
<1>1. r \in Runs /\ row[r] \in Row
  BY OutcomeType DEF TypeInv, TypeOK
<1>2. row[r].phase = "done" <=> row[r].status \notin {"absent", "running"}
  BY <1>1 DEF SoloInv
<1>3. CASE at[c] = "failing"
  BY <1>1, <1>2, <1>3 DEF Outcome, Failed, Now, Row, Rank
<1>4. at[c] # "failing" => s = row[r] /\ row[r].status = "running"
  BY <1>1 DEF SoloInv, Writing, Resting
<1>5. CASE at[c] = "advancing"
  BY <1>1, <1>2, <1>4, <1>5 DEF Outcome, Advanced, FinalStatus, Now, Row, Rank
<1>6. CASE at[c] = "writing" /\ s.phase = "enqueue"
  <2>1. got[c] \in Nat
    BY DEF TypeInv, TypeOK
  <2> QED
    BY <1>1, <1>2, <1>4, <1>6, <2>1 DEF Outcome, Enqueued, Now, Row, Rank
<1>7. CASE at[c] = "writing" /\ s.phase # "enqueue"
  <2> DEFINE new == Counted(c, Now(c), Claims(c), Successes(c), Failures(c))
  <2>1. Claims(c) \in 0..1 /\ Successes(c) \in 0..1 /\ Failures(c) \in 0..1
    BY DEF Claims, Successes, Failures
  <2>2. new \in Row
    BY <1>1, <2>1, CountedType DEF TypeInv, Now
  <2>3. /\ new.succeeded = row[r].succeeded + Successes(c)
        /\ new.failed = row[r].failed + Failures(c)
        /\ new.enqueued = row[r].enqueued
        /\ new.status = row[r].status /\ new.phase = row[r].phase
    BY <1>1, <1>4, <1>7 DEF Counted, Now, Row
  <2>4. /\ row[r].succeeded <= new.succeeded
        /\ row[r].failed <= new.failed
        /\ new.failed \in Nat
    BY <1>1, <2>1, <2>3 DEF Row
  <2> HIDE DEF new
  <2>5. /\ Outcome(c).succeeded = new.succeeded /\ Outcome(c).failed = new.failed
        /\ Outcome(c).enqueued = new.enqueued
        /\ \/ Outcome(c) = new
           \/ /\ Outcome(c).phase = "done"
              /\ Outcome(c).status \in {"quota_halted", "partial", "completed"}
              /\ Outcome(c).status = "completed" => ~(new.failed > 0)
    BY <1>7, <2>2 DEF Outcome, Worked, Ended, FinalStatus, Row, new
  <2>6. Outcome(c).status = "completed" => Outcome(c).failed = 0
    BY <1>4, <1>7, <2>3, <2>4, <2>5
  <2>7. Outcome(c).phase = "done" <=> Outcome(c).status \notin {"absent", "running"}
    BY <1>2, <1>4, <1>7, <2>3, <2>5
  <2>8. Rank(row[r].phase) <= Rank(Outcome(c).phase)
    BY <1>1, <2>3, <2>5 DEF Rank, Row
  <2> QED
    BY <1>1, <2>3, <2>4, <2>5, <2>6, <2>7, <2>8 DEF Row
<1> QED
  BY <1>3, <1>5, <1>6, <1>7 DEF Writing

\* A caller that drops its copy, its run's row patched or not.
LEMMA SoloRest ==
    ASSUME TypeInv, CountInv, SoloInv, UNCHANGED dups,
           NEW c \in Callers, NEW station \in Resting, NEW s,
           Proceed(c, station, s),
           run' = run \/ run' = [run EXCEPT ![c] = NoRun],
           \/ UNCHANGED row
           \/ at[c] \in Writing /\ Patch(c, Outcome(c))
    PROVE  SoloInv'
<1>1. \A b \in Callers : b # c => /\ at'[b] = at[b] /\ snap'[b] = snap[b]
                                  /\ run'[b] = run[b]
  BY DEF Proceed, TypeInv, TypeOK
<1>2. at'[c] \in Resting /\ (run'[c] \in Runs => run'[c] = run[c])
  BY PipelineAssumption DEF Proceed, TypeInv, TypeOK
<1>3. \A r \in Runs : dups[r] = 0 =>
          \A a, b \in Callers : run'[a] = r /\ run'[b] = r => a = b
  BY <1>1, <1>2 DEF SoloInv
<1>4. CASE UNCHANGED row
  BY <1>1, <1>2, <1>3, <1>4 DEF SoloInv
<1>5. CASE at[c] \in Writing /\ Patch(c, Outcome(c))
  <2>1. run[c] \in Runs
    BY <1>5, OutcomeType
  <2>2. row' = [row EXCEPT ![run[c]] = Outcome(c)]
    BY <1>5 DEF Patch
  <2>3. ASSUME NEW r \in Runs, dups[r] = 0
        PROVE  /\ row'[r].phase = "done" <=> row'[r].status \notin {"absent", "running"}
               /\ row'[r].status = "completed" => row'[r].failed = 0
               /\ \A b \in Callers : run'[b] = r /\ at'[b] \notin Resting =>
                     snap'[b] = row'[r] /\ row'[r].status = "running"
    <3>1. CASE r = run[c]
      <4>1. row'[r] = Outcome(c)
        BY <2>1, <2>2, <3>1 DEF TypeInv, TypeOK
      <4>2. \A b \in Callers : run'[b] = r => b = c
        BY <1>1, <2>3, <3>1 DEF SoloInv
      <4> QED
        BY <1>2, <1>5, <2>3, <3>1, <4>1, <4>2, SoloOutcome
    <3>2. CASE r # run[c]
      <4>1. row'[r] = row[r]
        BY <2>2, <3>2 DEF TypeInv, TypeOK
      <4> QED
        BY <1>1, <1>2, <2>3, <4>1 DEF SoloInv
    <3> QED
      BY <3>1, <3>2
  <2> QED
    BY <1>3, <2>3 DEF SoloInv
<1> QED
  BY <1>4, <1>5

LEMMA SoloStep == TypeInv /\ CountInv /\ SoloInv /\ [Next]_vars => SoloInv'
<1> SUFFICES ASSUME TypeInv, CountInv, SoloInv, [Next]_vars
             PROVE  SoloInv'
  OBVIOUS
<1>0. CASE UNCHANGED <<row, dups, caller>>
  BY <1>0 DEF caller, SoloInv
<1>1. ASSUME NEW c \in Callers, Start(c)
      PROVE  SoloInv'
  <2>1. \A b \in Callers : at'[b] \notin Resting => at[b] = at'[b]
    BY <1>1 DEF Start, TypeInv, TypeOK, Resting
  <2> QED
    BY <1>1, <2>1 DEF Start, SoloInv, runs, history
<1>2. ASSUME NEW c \in Callers, Insert(c)
      PROVE  SoloInv'
  <2>1. PICK r \in Runs, n \in 1..MaxRequested :
            /\ row[r].status = "absent"
            /\ row' = [row EXCEPT ![r] = NewRow("running", n)]
            /\ run' = [run EXCEPT ![c] = r]
    BY <1>2 DEF Insert
  <2>2. \A b \in Callers : run[b] # r
    BY <2>1 DEF CountInv
  <2>3. \A b \in Callers : at'[b] \notin Resting => at[b] = at'[b] /\ b # c
    BY <1>2 DEF Insert, TypeInv, TypeOK, Resting
  <2>4. UNCHANGED <<snap, dups>>
    BY <1>2 DEF Insert, history
  <2>5. ASSUME NEW q \in Runs, dups[q] = 0
        PROVE  /\ row'[q].phase = "done" <=> row'[q].status \notin {"absent", "running"}
               /\ row'[q].status = "completed" => row'[q].failed = 0
               /\ \A a, b \in Callers : run'[a] = q /\ run'[b] = q => a = b
               /\ \A b \in Callers : run'[b] = q /\ at'[b] \notin Resting =>
                     snap'[b] = row'[q] /\ row'[q].status = "running"
    <3>1. CASE q = r
      BY <2>1, <2>2, <2>3, <3>1 DEF NewRow, TypeInv, TypeOK
    <3>2. CASE q # r
      <4>1. row'[q] = row[q]
        BY <2>1, <3>2 DEF TypeInv, TypeOK
      <4>2. \A b \in Callers : run'[b] = q => run[b] = q /\ b # c
        BY <2>1, <3>2 DEF TypeInv, TypeOK
      <4> QED
        BY <2>3, <2>4, <2>5, <4>1, <4>2 DEF SoloInv
    <3> QED
      BY <3>1, <3>2
  <2> QED
    BY <2>4, <2>5 DEF SoloInv
<1>3. ASSUME NEW c \in Callers, Duplicate(c)
      PROVE  SoloInv'
  <2>1. PICK r \in Runs : /\ dups' = [dups EXCEPT ![r] = @ + 1]
                          /\ run' = [run EXCEPT ![c] = r]
    BY <1>3 DEF Duplicate
  <2>2. dups'[r] # 0 /\ \A q \in Runs : dups'[q] = 0 => q # r /\ dups[q] = 0
    BY <2>1 DEF TypeInv, TypeOK
  <2>3. \A b \in Callers, q \in Runs : run'[b] = q /\ q # r => run[b] = q /\ b # c
    BY <2>1 DEF TypeInv, TypeOK
  <2>4. \A b \in Callers : at'[b] \notin Resting => at[b] = at'[b]
    BY <1>3 DEF Duplicate, TypeInv, TypeOK, Resting
  <2>5. UNCHANGED <<row, snap>>
    BY <1>3 DEF Duplicate, runs
  <2> QED
    BY <2>2, <2>3, <2>4, <2>5 DEF SoloInv
<1>4. ASSUME NEW c \in Callers, Leave(c) \/ Answer(c) \/ Kill(c)
      PROVE  SoloInv'
  <2>1. PICK station \in {"idle", "driving"} : Settle(c, station)
    BY <1>4 DEF Leave, Answer, Kill
  <2>2. /\ Proceed(c, station, Absent) /\ station \in Resting
        /\ run' = run \/ run' = [run EXCEPT ![c] = NoRun]
    BY <2>1 DEF Settle, Resting, TypeInv, TypeOK
  <2>3. UNCHANGED <<row, dups>>
    BY <1>4 DEF Leave, Answer, Kill, runs, history
  <2> QED
    BY <2>2, <2>3, SoloRest
<1>5. ASSUME NEW c \in Callers, EnqueueFails(c) \/ ClaimFails(c)
      PROVE  SoloInv'
  <2>1. /\ Proceed(c, "failing", Absent) /\ "failing" \in Resting
        /\ UNCHANGED <<row, dups, run>>
    BY <1>5 DEF EnqueueFails, ClaimFails, Resting, runs, history
  <2> QED
    BY <2>1, SoloRest
<1>6. ASSUME NEW c \in Callers, Read(c)
      PROVE  SoloInv'
  <2>1. run[c] \in Runs /\ UNCHANGED <<row, dups, run>>
    BY <1>6 DEF Read, TypeInv, HasRun, Outside, runs, history
  <2>2. CASE NextStation(Now(c)) = "answering"
    <3>1. Proceed(c, "answering", Answering(Now(c))) /\ "answering" \in Resting
      BY <1>6, <2>2 DEF Read, Resting
    <3> QED
      BY <2>1, <3>1, SoloRest
  <2>3. CASE NextStation(Now(c)) # "answering"
    <3>1. row[run[c]].status = "running"
      BY <2>3 DEF NextStation, Now
    <3>2. snap' = [snap EXCEPT ![c] = row[run[c]]]
      BY <1>6, <2>3 DEF Read, Proceed, Now
    <3>3. \A b \in Callers : b # c => at'[b] = at[b]
      BY <1>6 DEF Read, Proceed, TypeInv, TypeOK
    <3> QED
      BY <2>1, <3>1, <3>2, <3>3 DEF SoloInv, TypeInv, TypeOK
  <2> QED
    BY <2>2, <2>3
<1>7. ASSUME NEW c \in Callers,
             EnqueuePage(c) \/ Claim(c) \/ JobSucceeds(c) \/ JobFails(c)
      PROVE  SoloInv'
  <2>1. at[c] \notin Resting /\ UNCHANGED <<row, dups, run, snap>>
    BY <1>7 DEF EnqueuePage, Claim, JobSucceeds, JobFails, Resting, runs, history
  <2>2. \A b \in Callers : b # c => at'[b] = at[b]
    BY <1>7 DEF EnqueuePage, Claim, JobSucceeds, JobFails, TypeInv, TypeOK
  <2> QED
    BY <2>1, <2>2 DEF SoloInv
<1>8. ASSUME NEW c \in Callers, Write(c) \/ WriteFails(c)
      PROVE  SoloInv'
  <2>1. UNCHANGED dups
    BY <1>8 DEF Write, WriteFails, history
  <2>2. UNCHANGED row \/ (at[c] \in Writing /\ Patch(c, Outcome(c)))
    BY <1>8 DEF Write, WriteFails, runs
  <2>3. CASE Write(c)
    <3>1. /\ Proceed(c, "answering", Answering(Outcome(c))) /\ "answering" \in Resting
          /\ run' = run
      BY <2>3 DEF Write, Resting
    <3> QED
      BY <2>1, <2>2, <3>1, SoloRest
  <2>4. CASE WriteFails(c) /\ at[c] = "writing"
    <3>1. Proceed(c, "failing", Absent) /\ "failing" \in Resting /\ run' = run
      BY <2>4 DEF WriteFails, Resting
    <3> QED
      BY <2>1, <2>2, <3>1, SoloRest
  <2>5. CASE WriteFails(c) /\ at[c] # "writing"
    <3>1. Settle(c, "idle")
      BY <2>5 DEF WriteFails
    <3>2. /\ Proceed(c, "idle", Absent) /\ "idle" \in Resting
          /\ run' = [run EXCEPT ![c] = NoRun]
      BY <3>1 DEF Settle, Resting, TypeInv, TypeOK
    <3> QED
      BY <2>1, <2>2, <3>2, SoloRest
  <2> QED
    BY <1>8, <2>3, <2>4, <2>5
<1> QED
  <2>1. ASSUME NEW r \in Runs, GoStale(r)
        PROVE  UNCHANGED <<row, dups, caller>>
    BY <2>1 DEF GoStale, history
  <2>2. Elsewhere \/ UNCHANGED vars => UNCHANGED <<row, dups, caller>>
    BY DEF Elsewhere, vars, runs, history
  <2> QED
    BY <1>0, <1>1, <1>2, <1>3, <1>4, <1>5, <1>6, <1>7, <1>8, <2>1, <2>2
    DEF Next, Step
-----------------------------------------------------------------------------
(***************************************************************************)
(* DueInv.                                                                 *)
(***************************************************************************)
\* c acts, whoever else there is stays where it is.
Acts(c) ==
    \A b \in Callers \ {c} :
        /\ at'[b] = at[b] /\ mode'[b] = mode[b] /\ run'[b] = run[b]
        /\ snap'[b] = snap[b] /\ outcome'[b] = outcome[b]

LEMMA DueTypes ==
    ASSUME TypeInv, NEW r \in Runs
    PROVE  /\ work[r] \in Nat /\ faults[r] \in Nat /\ row[r].failed \in Nat
           /\ Cardinality(wins[r]) \in Nat
           /\ \A c \in Callers : Due[c] \in 0..1
<1>1. \A c \in Callers : Due[c] \in 0..1
  BY DEF Due
<1>2. MaxFaults \in Nat
  BY PipelineAssumption
<1>3. work[r] \in Nat /\ faults[r] \in Nat /\ row[r].failed \in Nat
  BY <1>2 DEF TypeInv, TypeOK, Row
<1> QED
  BY <1>1, <1>3, WinsType

\* A run whose caller, if there still is one, does not act.
LEMMA DueElsewhere ==
    ASSUME NEW r \in Runs, DueFor(r),
           row'[r] = row[r], work'[r] = work[r], wins'[r] = wins[r], faults'[r] = faults[r],
           \A c \in Callers : run'[c] = r => run[c] = r /\ Due'[c] = Due[c]
    PROVE  DueFor(r)'
BY DEF DueFor

\* The run of a caller that acts, its row left alone.
LEMMA DueHere ==
    ASSUME TypeInv, TypeInv', NEW r \in Runs, DueFor(r), row'[r] = row[r],
           NEW c \in Callers, \A b \in Callers : run'[b] = r => b = c /\ run[c] = r,
           NEW k \in Nat, work'[r] = work[r] + k, k > 0 => row[r].status = "running",
           NEW n \in Nat, Cardinality(wins'[r]) = Cardinality(wins[r]) + n,
           NEW q \in Nat, faults'[r] = faults[r] + q,
           run'[c] = r => k + Due[c] <= n + q + Due'[c]
    PROVE  DueFor(r)'
<1>1. /\ work[r] \in Nat /\ faults[r] \in Nat /\ row[r].failed \in Nat
      /\ Cardinality(wins[r]) \in Nat /\ Due[c] \in 0..1
  BY DueTypes
<1>2. Due'[c] \in 0..1
  BY DEF Due
<1>3. row[r].status = "completed" => work'[r] <= Cardinality(wins'[r]) + faults'[r]
  <2>1. row[r].status = "completed" => k = 0 /\ work[r] <= Cardinality(wins[r]) + faults[r]
    BY DEF DueFor
  <2> QED
    BY <1>1, <2>1
<1>4. ASSUME row[r].status = "running", run'[c] = r
      PROVE  work'[r] <= Cardinality(wins'[r]) + row[r].failed + faults'[r] + Due'[c]
  <2>1. work[r] <= Cardinality(wins[r]) + row[r].failed + faults[r] + Due[c]
    BY <1>4 DEF DueFor
  <2> QED
    BY <1>1, <1>2, <1>4, <2>1
<1> QED
  BY <1>3, <1>4 DEF DueFor

\* What the only caller of a run writes settles what it had to count.
LEMMA DueOutcome ==
    ASSUME TypeInv, CountInv, SoloInv, NEW c \in Callers, at[c] \in Writing,
           dups[run[c]] = 0
    PROVE  IF at[c] = "failing" THEN Outcome(c).status = "failed"
           ELSE /\ row[run[c]].status = "running"
                /\ Outcome(c).failed = row[run[c]].failed + Due[c]
<1> DEFINE r == run[c]
           s == snap[c]
<1>1. r \in Runs /\ row[r] \in Row
  BY OutcomeType DEF TypeInv, TypeOK
<1>2. CASE at[c] = "failing"
  BY <1>1, <1>2 DEF Outcome, Failed, Now, Row
<1>3. at[c] # "failing" => s = row[r] /\ row[r].status = "running"
  BY <1>1 DEF SoloInv, Writing, Resting
<1>4. CASE at[c] = "advancing"
  BY <1>1, <1>3, <1>4 DEF Outcome, Advanced, FinalStatus, Now, Row, Due
<1>5. CASE at[c] = "writing" /\ s.phase = "enqueue"
  BY <1>1, <1>3, <1>5 DEF Outcome, Enqueued, Now, Row, Due
<1>6. CASE at[c] = "writing" /\ s.phase # "enqueue"
  <2> DEFINE new == Counted(c, Now(c), Claims(c), Successes(c), Failures(c))
  <2>1. Claims(c) \in Nat /\ Successes(c) \in Nat /\ Failures(c) \in Nat
    BY DEF Claims, Successes, Failures
  <2>2. new \in Row
    BY <1>1, <2>1, CountedType DEF TypeInv, Now
  <2>3. new.failed = row[r].failed + Failures(c)
    BY <1>1, <1>3, <1>6 DEF Counted, Now, Row
  <2> HIDE DEF new
  <2>4. Outcome(c).failed = new.failed
    BY <1>6, <2>2 DEF Outcome, Worked, Ended, FinalStatus, Row, new
  <2>5. Due[c] = Failures(c)
    BY <1>6 DEF Due, Failures
  <2> QED
    BY <1>3, <1>6, <2>3, <2>4, <2>5
<1> QED
  BY <1>2, <1>4, <1>5, <1>6 DEF Writing

\* A patch by the only caller of the run.
LEMMA DuePatch ==
    ASSUME TypeInv, TypeInv', CountInv, SoloInv, DueInv, NEW c \in Callers,
           NEW r \in Runs, r = run[c], at[c] \in Writing, dups[r] = 0,
           \A b \in Callers : run'[b] = r => b = c,
           row' = [row EXCEPT ![r] = Outcome(c)], UNCHANGED <<wins, work, faults>>
    PROVE  DueFor(r)'
<1> DEFINE new == Outcome(c)
<1>1. new \in Row /\ row'[r] = new
  BY OutcomeType DEF TypeInv, TypeOK
<1>2. /\ work[r] \in Nat /\ faults[r] \in Nat /\ row[r].failed \in Nat
      /\ Cardinality(wins[r]) \in Nat /\ Due[c] \in 0..1
  BY <1>1, DueTypes
<1>3. Due'[c] \in 0..1
  BY DEF Due
<1>4. new.status # "absent" /\ (new.status = "completed" => new.failed = 0)
  BY <1>1, OutcomeCounts, SoloOutcome
<1>5. new.status \in {"running", "completed"} =>
          work[r] <= Cardinality(wins[r]) + new.failed + faults[r]
  <2>1. CASE at[c] = "failing"
    BY <2>1, DueOutcome
  <2>2. CASE at[c] # "failing"
    <3>1. row[r].status = "running" /\ new.failed = row[r].failed + Due[c]
      BY <2>2, DueOutcome
    <3>2. work[r] <= Cardinality(wins[r]) + row[r].failed + faults[r] + Due[c]
      BY <1>1, <3>1 DEF DueInv, DueFor
    <3> HIDE DEF new
    <3> QED
      BY <1>2, <3>1, <3>2
  <2> QED
    BY <2>1, <2>2
<1> HIDE DEF new
<1>6. new.failed \in Nat
  BY <1>1 DEF Row
<1>7. new.status = "running" =>
          work[r] <= Cardinality(wins[r]) + new.failed + faults[r] + Due'[c]
  BY <1>2, <1>3, <1>5, <1>6
<1>8. new.status = "completed" => work[r] <= Cardinality(wins[r]) + faults[r]
  BY <1>2, <1>4, <1>5
<1> QED
  BY <1>1, <1>4, <1>7, <1>8 DEF DueFor

\* A step of c that patches no row.
LEMMA DueActs ==
    ASSUME TypeInv, TypeInv', SoloInv, DueInv, NEW c \in Callers, Acts(c),
           run'[c] \in {run[c], NoRun}, UNCHANGED <<row, dups>>,
           \A p \in Runs \ {run[c]} : /\ work'[p] = work[p] /\ wins'[p] = wins[p]
                                      /\ faults'[p] = faults[p],
           NEW k \in Nat, NEW n \in Nat, NEW q \in Nat,
           run[c] \in Runs =>
              /\ work'[run[c]] = work[run[c]] + k
              /\ k > 0 => row[run[c]].status = "running"
              /\ Cardinality(wins'[run[c]]) = Cardinality(wins[run[c]]) + n
              /\ faults'[run[c]] = faults[run[c]] + q
              /\ run'[c] = run[c] => k + Due[c] <= n + q + Due'[c]
    PROVE  DueInv'
<1>1. \A b \in Callers \ {c} : run'[b] = run[b] /\ Due'[b] = Due[b]
  BY DEF Acts, Due
<1> SUFFICES ASSUME NEW r \in Runs, dups'[r] = 0
             PROVE  DueFor(r)'
  BY DEF DueInv
<1>2. dups[r] = 0 /\ DueFor(r)
  BY DEF DueInv
<1>3. CASE r = run[c]
  <2>1. \A b \in Callers : run'[b] = r => b = c /\ run[c] = r
    BY <1>1, <1>2, <1>3 DEF SoloInv
  <2> QED
    BY <1>2, <1>3, <2>1, DueHere
<1>4. CASE r # run[c]
  <2>1. \A b \in Callers : run'[b] = r => run[b] = r /\ Due'[b] = Due[b]
    BY <1>1, <1>4, PipelineAssumption
  <2> QED
    BY <1>2, <1>4, <2>1, DueElsewhere
<1> QED
  BY <1>3, <1>4

LEMMA DueStep ==
    TypeInv /\ TypeInv' /\ QueueInv /\ CountInv /\ SoloInv /\ DueInv /\ [Next]_vars => DueInv'
<1> SUFFICES ASSUME TypeInv, TypeInv', QueueInv, CountInv, SoloInv, DueInv, [Next]_vars
             PROVE  DueInv'
  OBVIOUS
<1>0. CASE UNCHANGED <<row, caller, history>>
  BY <1>0 DEF caller, history, DueInv, DueFor, Due
<1>1. \A r \in Runs : /\ work[r] = work[r] + 0 /\ faults[r] = faults[r] + 0
                     /\ Cardinality(wins[r]) = Cardinality(wins[r]) + 0
  BY DueTypes
<1>2. \A c \in Callers : Due[c] \in 0..1 /\ Due'[c] \in 0..1
  BY DEF Due
<1>3. ASSUME NEW c \in Callers, Start(c) \/ Leave(c) \/ Answer(c) \/ Read(c)
      PROVE  DueInv'
  <2>1. Due[c] = 0 /\ UNCHANGED <<row, history>>
    BY <1>3 DEF Start, Leave, Answer, Read, Due, runs
  <2>2. Acts(c) /\ run'[c] \in {run[c], NoRun}
    BY <1>3 DEF Start, Leave, Answer, Read, Settle, Proceed, Acts, TypeInv, TypeOK
  <2>3. 0 + Due[c] <= 0 + 0 + Due'[c]
    BY <1>2, <2>1
  <2> QED
    BY <1>1, <2>1, <2>2, <2>3, DueActs DEF history
<1>4. ASSUME NEW c \in Callers, Kill(c)
      PROVE  DueInv'
  <2>1. run[c] \in Runs
    BY <1>4 DEF Kill, TypeInv, HasRun, Outside
  <2>2. /\ UNCHANGED <<row, dups, work, wins>>
        /\ faults'[run[c]] = faults[run[c]] + 1
        /\ \A p \in Runs \ {run[c]} : faults'[p] = faults[p]
    BY <1>4, <2>1 DEF Kill, runs, TypeInv, TypeOK
  <2>3. Acts(c) /\ run'[c] \in {run[c], NoRun}
    BY <1>4 DEF Kill, Settle, Proceed, Acts, TypeInv, TypeOK
  <2>4. 0 + Due[c] <= 0 + 1 + Due'[c]
    BY <1>2
  <2> QED
    BY <1>1, <2>1, <2>2, <2>3, <2>4, DueActs
<1>5. ASSUME NEW c \in Callers,
             EnqueuePage(c) \/ EnqueueFails(c) \/ ClaimFails(c) \/ JobFails(c)
      PROVE  DueInv'
  <2>1. UNCHANGED <<row, history, run>>
    BY <1>5 DEF EnqueuePage, EnqueueFails, ClaimFails, JobFails, runs
  <2>2. Acts(c)
    BY <1>5 DEF EnqueuePage, EnqueueFails, ClaimFails, JobFails, Proceed, Acts, TypeInv, TypeOK
  <2>3. Due[c] = 0 \/ Due'[c] = 1
    <3>1. CASE EnqueuePage(c) \/ EnqueueFails(c) \/ ClaimFails(c)
      BY <3>1 DEF EnqueuePage, EnqueueFails, ClaimFails, Due
    <3>2. CASE JobFails(c)
      <4>1. snap[c].phase # "enqueue"
        BY <3>2 DEF JobFails, CountInv, Copy, Resting
      <4>2. /\ at'[c] = "writing" /\ outcome'[c] \in {"failure", "halt"}
            /\ snap'[c].phase # "enqueue"
        BY <3>2, <4>1 DEF JobFails, TypeInv, TypeOK
      <4> QED
        BY <4>2 DEF Due
    <3> QED
      BY <1>5, <3>1, <3>2
  <2>4. 0 + Due[c] <= 0 + 0 + Due'[c]
    BY <1>2, <2>3
  <2> QED
    BY <1>1, <2>1, <2>2, <2>4, DueActs DEF history
<1>6. ASSUME NEW c \in Callers, Claim(c)
      PROVE  DueInv'
  <2>1. PICK S \in SUBSET queued :
            /\ Cardinality(S) <= 1
            /\ work' = [work EXCEPT ![run[c]] = @ + Cardinality(S)]
            /\ at' = [at EXCEPT ![c] = IF S = {} THEN "writing" ELSE "working"]
    BY <1>6 DEF Claim
  <2>2. run[c] \in Runs /\ UNCHANGED <<row, dups, wins, faults, run>>
    BY <1>6 DEF Claim, runs, TypeInv, HasRun, Outside
  <2>3. IsFiniteSet(S) /\ Cardinality(S) \in 0..1
    <3>1. IsFiniteSet(S)
      BY PipelineAssumption, FS_Subset DEF TypeInv, TypeOK
    <3> QED
      BY <2>1, <3>1, FS_CardinalityType
  <2>4. Acts(c)
    BY <1>6, <2>1 DEF Claim, Acts, TypeInv, TypeOK
  <2>5. Due[c] = 0 /\ (S # {} => Due'[c] = 1)
    BY <1>6, <2>1 DEF Claim, Due, TypeInv, TypeOK
  <2>6. Cardinality(S) + Due[c] <= 0 + 0 + Due'[c]
    BY <1>2, <2>3, <2>5, FS_EmptySet
  <2>7. /\ work'[run[c]] = work[run[c]] + Cardinality(S)
        /\ \A p \in Runs \ {run[c]} : work'[p] = work[p]
    BY <2>1, <2>2 DEF TypeInv, TypeOK
  <2>8. dups[run[c]] = 0 => row[run[c]].status = "running"
    BY <1>6, <2>2 DEF Claim, SoloInv, Resting
  <2>9. CASE dups[run[c]] = 0
    BY <1>1, <2>2, <2>3, <2>4, <2>6, <2>7, <2>8, <2>9, DueActs
  <2>10. CASE dups[run[c]] # 0
    <3>1. ASSUME NEW r \in Runs, dups'[r] = 0
          PROVE  DueFor(r)'
      <4>1. r # run[c] /\ DueFor(r)
        BY <2>2, <2>10, <3>1 DEF DueInv
      <4>2. \A b \in Callers : run'[b] = r => run[b] = r /\ Due'[b] = Due[b]
        BY <2>2, <2>4, <4>1 DEF Acts, Due
      <4> QED
        BY <2>2, <2>7, <4>1, <4>2, DueElsewhere
    <3> QED
      BY <3>1 DEF DueInv
  <2> QED
    BY <2>9, <2>10
<1>7. ASSUME NEW c \in Callers, JobSucceeds(c)
      PROVE  DueInv'
  <2>1. run[c] \in Runs /\ UNCHANGED <<row, dups, work, faults, run>>
    BY <1>7 DEF JobSucceeds, runs, TypeInv, HasRun, Outside
  <2>2. PICK j \in Jobs : leases[c] = {j} /\ j \notin wins[run[c]]
    BY <1>7, <2>1 DEF JobSucceeds, QueueInv
  <2>3. /\ wins'[run[c]] = wins[run[c]] \cup {j}
        /\ \A p \in Runs \ {run[c]} : wins'[p] = wins[p]
    BY <1>7, <2>1, <2>2 DEF JobSucceeds, TypeInv, TypeOK
  <2>4. Cardinality(wins'[run[c]]) = Cardinality(wins[run[c]]) + 1
    <3>1. IsFiniteSet(wins[run[c]])
      BY <2>1, PipelineAssumption, FS_Subset DEF TypeInv, TypeOK
    <3> QED
      BY <2>2, <2>3, <3>1, FS_AddElement
  <2>5. Acts(c)
    BY <1>7 DEF JobSucceeds, Acts, TypeInv, TypeOK
  <2>6. 0 + Due[c] <= 1 + 0 + Due'[c]
    BY <1>2
  <2>7. work'[run[c]] = work[run[c]] + 0 /\ faults'[run[c]] = faults[run[c]] + 0
    BY <1>1, <2>1
  <2>8. \A p \in Runs \ {run[c]} : /\ work'[p] = work[p] /\ wins'[p] = wins[p]
                                  /\ faults'[p] = faults[p]
    BY <2>1, <2>3
  <2>9. run'[c] \in {run[c], NoRun} /\ UNCHANGED <<row, dups>>
    BY <2>1
  <2> QED
    BY <2>4, <2>5, <2>6, <2>7, <2>8, <2>9, DueActs
<1>8. ASSUME NEW c \in Callers, Write(c) \/ WriteFails(c)
      PROVE  DueInv'
  <2>1. UNCHANGED history /\ at[c] \in Writing /\ run[c] \in Runs
    BY <1>8, OutcomeType DEF Write, WriteFails
  <2>2. Acts(c) /\ run'[c] \in {run[c], NoRun}
    BY <1>8 DEF Write, WriteFails, Settle, Proceed, Acts, TypeInv, TypeOK
  <2>3. CASE UNCHANGED row /\ WriteFails(c)
    <3>1. run'[c] = run[c] => Due[c] = 0 \/ Due'[c] = 1
      <4>1. CASE at[c] = "writing"
        BY <2>3, <4>1 DEF WriteFails, Proceed, Due, TypeInv, TypeOK
      <4>2. CASE at[c] # "writing"
        BY <2>1, <2>3, <4>2, PipelineAssumption DEF WriteFails, Settle, TypeInv, TypeOK
      <4> QED
        BY <4>1, <4>2
    <3>2. run'[c] = run[c] => 0 + Due[c] <= 0 + 0 + Due'[c]
      BY <1>2, <3>1
    <3> QED
      BY <1>1, <2>1, <2>2, <2>3, <3>2, DueActs DEF history
  <2>4. CASE Patch(c, Outcome(c))
    <3>1. ASSUME NEW r \in Runs, dups'[r] = 0
          PROVE  DueFor(r)'
      <4>1. dups[r] = 0 /\ DueFor(r)
        BY <2>1, <3>1 DEF DueInv, history
      <4>2. CASE r = run[c]
        <5>1. \A b \in Callers : run'[b] = r => b = c
          BY <2>2, <4>1, <4>2 DEF Acts, SoloInv
        <5> QED
          BY <2>1, <2>4, <4>1, <4>2, <5>1, DuePatch DEF Patch, history
      <4>3. CASE r # run[c]
        <5>1. row'[r] = row[r]
          BY <2>4, <4>3 DEF Patch, TypeInv, TypeOK
        <5>2. \A b \in Callers : run'[b] = r => run[b] = r /\ Due'[b] = Due[b]
          BY <2>2, <4>3, PipelineAssumption DEF Acts, Due
        <5> QED
          BY <2>1, <4>1, <5>1, <5>2, DueElsewhere DEF history
      <4> QED
        BY <4>2, <4>3
    <3> QED
      BY <3>1 DEF DueInv
  <2> QED
    BY <1>8, <2>3, <2>4 DEF Write, WriteFails, runs
<1>9. ASSUME NEW c \in Callers, Insert(c)
      PROVE  DueInv'
  <2>1. PICK r \in Runs, n \in 1..MaxRequested :
            /\ row[r].status = "absent"
            /\ row' = [row EXCEPT ![r] = NewRow("running", n)]
            /\ run' = [run EXCEPT ![c] = r]
    BY <1>9 DEF Insert
  <2>2. Acts(c) /\ UNCHANGED history
    BY <1>9, <2>1 DEF Insert, Acts, TypeInv, TypeOK
  <2>3. ASSUME NEW p \in Runs, dups'[p] = 0
        PROVE  DueFor(p)'
    <3>1. DueFor(p)
      BY <2>2, <2>3 DEF DueInv, history
    <3>2. CASE p = r
      <4>1. work'[p] = 0 /\ row'[p].status = "running" /\ row'[p].failed = 0
        BY <2>1, <2>2, <3>1, <3>2 DEF DueFor, NewRow, history, TypeInv, TypeOK
      <4>2. /\ faults'[p] \in Nat /\ Cardinality(wins'[p]) \in Nat
        BY <2>2, DueTypes DEF history
      <4>3. \A b \in Callers : 0 <= Cardinality(wins'[p]) + 0 + faults'[p] + Due'[b]
        BY <1>2, <4>2
      <4> QED
        BY <4>1, <4>3 DEF DueFor
    <3>3. CASE p # r
      <4>1. row'[p] = row[p]
        BY <2>1, <3>3 DEF TypeInv, TypeOK
      <4>2. \A b \in Callers : run'[b] = p => run[b] = p /\ Due'[b] = Due[b]
        BY <2>1, <2>2, <3>3 DEF Acts, Due, TypeInv, TypeOK
      <4> QED
        BY <2>2, <3>1, <4>1, <4>2, DueElsewhere DEF history
    <3> QED
      BY <3>2, <3>3
  <2> QED
    BY <2>3 DEF DueInv
<1>10. ASSUME NEW c \in Callers, Duplicate(c)
       PROVE  DueInv'
  <2>1. PICK r \in Runs : /\ dups' = [dups EXCEPT ![r] = @ + 1]
                          /\ run' = [run EXCEPT ![c] = r]
    BY <1>10 DEF Duplicate
  <2>2. Acts(c) /\ UNCHANGED <<row, work, wins, faults>>
    BY <1>10, <2>1 DEF Duplicate, Acts, runs, TypeInv, TypeOK
  <2>3. ASSUME NEW p \in Runs, dups'[p] = 0
        PROVE  DueFor(p)'
    <3>1. p # r /\ dups[p] = 0
      BY <2>1, <2>3 DEF TypeInv, TypeOK
    <3>2. \A b \in Callers : run'[b] = p => run[b] = p /\ Due'[b] = Due[b]
      BY <2>1, <2>2, <3>1 DEF Acts, Due, TypeInv, TypeOK
    <3> QED
      BY <2>2, <3>1, <3>2, DueElsewhere DEF DueInv
  <2> QED
    BY <2>3 DEF DueInv
<1> QED
  <2>1. ASSUME NEW r \in Runs, GoStale(r)
        PROVE  UNCHANGED <<row, caller, history>>
    BY <2>1 DEF GoStale
  <2>2. Elsewhere \/ UNCHANGED vars => UNCHANGED <<row, caller, history>>
    BY DEF Elsewhere, vars, runs
  <2> QED
    BY <1>0, <1>3, <1>4, <1>5, <1>6, <1>7, <1>8, <1>9, <1>10, <2>1, <2>2
    DEF Next, Step
-----------------------------------------------------------------------------
\* A row is inserted, patched by somebody in a step, or left alone.
Inserts(r, n) ==
    row[r].status = "absent" /\ row' = [row EXCEPT ![r] = NewRow("running", n)]
Patches(c) == at[c] \in Writing /\ row' = [row EXCEPT ![run[c]] = Outcome(c)]

LEMMA RowSteps ==
    ASSUME [Next]_vars
    PROVE  \/ UNCHANGED row
           \/ \E r \in Runs, n \in 1..MaxRequested : Inserts(r, n)
           \/ \E c \in Callers : Patches(c)
<1>1. ASSUME NEW c \in Callers, Insert(c)
      PROVE  \E r \in Runs, n \in 1..MaxRequested : Inserts(r, n)
  BY <1>1 DEF Insert, Inserts
<1>2. ASSUME NEW c \in Callers, Write(c) \/ WriteFails(c)
      PROVE  UNCHANGED row \/ Patches(c)
  BY <1>2 DEF Write, WriteFails, Patch, Patches, runs
<1>3. ASSUME NEW c \in Callers,
             \/ Start(c) \/ Duplicate(c) \/ Leave(c) \/ Kill(c) \/ Read(c)
             \/ EnqueuePage(c) \/ EnqueueFails(c) \/ Claim(c) \/ ClaimFails(c)
             \/ JobSucceeds(c) \/ JobFails(c) \/ Answer(c)
      PROVE  UNCHANGED row
  BY <1>3 DEF Start, Duplicate, Leave, Kill, Read, EnqueuePage, EnqueueFails, Claim,
              ClaimFails, JobSucceeds, JobFails, Answer, runs
<1>4. (\E r \in Runs : GoStale(r)) \/ Elsewhere \/ UNCHANGED vars => UNCHANGED row
  BY DEF GoStale, Elsewhere, vars, runs
<1> QED
  BY <1>1, <1>2, <1>3, <1>4 DEF Next, Step

LEMMA AbsentStep == TypeInv /\ CountInv /\ AbsentInv /\ [Next]_vars => AbsentInv'
<1> SUFFICES ASSUME TypeInv, CountInv, AbsentInv, [Next]_vars
             PROVE  AbsentInv'
  OBVIOUS
<1>1. CASE UNCHANGED row
  BY <1>1 DEF AbsentInv
<1>2. ASSUME NEW r \in Runs, NEW n \in 1..MaxRequested, Inserts(r, n)
      PROVE  AbsentInv'
  BY <1>2 DEF Inserts, NewRow, AbsentInv, TypeInv, TypeOK
<1>3. ASSUME NEW c \in Callers, Patches(c)
      PROVE  AbsentInv'
  BY <1>3, OutcomeCounts DEF Patches, AbsentInv, TypeInv, TypeOK
<1> QED
  BY <1>1, <1>2, <1>3, RowSteps

LEMMA InvInit == Init => IInv
<1> SUFFICES ASSUME Init
             PROVE  IInv
  OBVIOUS
<1>1. TypeInv
  BY TypeInit
<1>2. QueueInv
  BY DEF Init, Q!Init, QueueInv
<1>3. \A r \in Runs : Cardinality(wins[r]) \in Nat
  BY <1>1, WinsType
<1>4. CountInv
  <2>1. \A r \in Runs : AddsUp(row[r]) /\ row[r].succeeded = 0
    BY AbsentCounts DEF Init, AddsUp
  <2>2. \A c \in Callers : run[c] \notin Runs
    BY PipelineAssumption DEF Init
  <2>3. \A c \in Callers : at[c] \in Resting /\ snap[c].succeeded = 0 /\ outcome[c] = "none"
    BY AbsentCounts DEF Init, Resting
  <2> QED
    BY <1>3, <2>1, <2>2, <2>3 DEF CountInv
<1>5. SoloInv
  <2>1. \A r \in Runs : row[r].status = "absent" /\ row[r].phase = "enqueue"
    BY DEF Init, Absent, NewRow
  <2>2. \A c \in Callers : run[c] \notin Runs
    BY PipelineAssumption DEF Init
  <2> QED
    BY <2>1, <2>2 DEF SoloInv
<1>6. AbsentInv
  BY DEF Init, AbsentInv
<1>7. DueInv
  BY DEF Init, Absent, NewRow, DueInv, DueFor
<1> QED
  BY <1>1, <1>2, <1>4, <1>5, <1>6, <1>7 DEF IInv

LEMMA Invariance == Spec => []IInv
<1>1. IInv /\ [Next]_vars => IInv'
  BY TypeStep, QueueStep, CountStep, SoloStep, AbsentStep, DueStep DEF IInv
<1> QED
  BY <1>1, InvInit, PTL DEF Spec

(***************************************************************************)
(* CountersAddUp: whatever duplicate and repeated steps write over each    *)
(* other, claimed_count is the sum of the other two and never exceeds the  *)
(* size of the run (patchRun after runIngestionWorker in stepRun).         *)
(***************************************************************************)
THEOREM CountersAddUp == Spec => []RowsAddUp
<1>1. IInv => RowsAddUp
  BY DEF IInv, CountInv, AddsUp, RowsAddUp
<1> QED
  BY <1>1, Invariance, PTL

(***************************************************************************)
(* CountedSuccessesAreReal: no run, however many share the queue and       *)
(* however its steps are duplicated, reports more enriched hotels than its *)
(* own steps finished, and no hotel counts for two runs.                   *)
(***************************************************************************)
THEOREM CountedSuccessesAreReal == Spec => []SuccessesAreReal
<1>1. IInv => SuccessesAreReal
  BY DEF IInv, QueueInv, CountInv, SuccessesAreReal
<1> QED
  BY <1>1, Invariance, PTL

(***************************************************************************)
(* SummariesAreTrue: the row of a run that only its tab stepped says "done"*)
(* in both columns or in none, and "completed" only if every job that its  *)
(* steps claimed was enriched, save one for each of them that the platform *)
(* ended.                                                                  *)
(***************************************************************************)
THEOREM SummariesAreTrue == Spec => []SummaryIsTrue
<1>1. IInv => SummaryIsTrue
  BY DEF IInv, SoloInv, DueInv, DueFor, SummaryIsTrue
<1> QED
  BY <1>1, Invariance, PTL
-----------------------------------------------------------------------------
\* No patch writes the status "running".
LEMMA OutcomeStatus ==
    ASSUME TypeInv, NEW c \in Callers, at[c] \in Writing
    PROVE  \/ Outcome(c).status = row[run[c]].status
           \/ Outcome(c).status \in {"completed", "partial", "quota_halted", "failed"}
<1>1. run[c] \in Runs /\ row[run[c]] \in Row
  BY OutcomeType DEF TypeInv, TypeOK
<1>2. /\ Failed(c).status = "failed"
      /\ Enqueued(c).status = row[run[c]].status
      /\ Advanced(c).status \in {row[run[c]].status, "partial", "completed"}
  BY <1>1 DEF Failed, Enqueued, Advanced, FinalStatus, Now, Row
<1>3. Worked(c).status \in {row[run[c]].status, "quota_halted", "partial", "completed"}
  <2> DEFINE new == Counted(c, Now(c), Claims(c), Successes(c), Failures(c))
  <2>1. Claims(c) \in Nat /\ Successes(c) \in Nat /\ Failures(c) \in Nat
    BY DEF Claims, Successes, Failures
  <2>2. new \in Row
    BY <1>1, <2>1, CountedType DEF TypeInv, Now
  <2>3. new.status = row[run[c]].status
    BY <1>1 DEF Counted, Now, Row
  <2> HIDE DEF new
  <2> QED
    BY <2>2, <2>3 DEF Worked, Ended, FinalStatus, Row, new
<1> QED
  BY <1>2, <1>3 DEF Outcome

\* What a step does to one run's row.
Advances(r) ==
    /\ row[r].status \notin {"absent", "running"} =>
          row'[r].status \notin {"absent", "running"}
    /\ dups[r] = 0 => /\ Rank(row[r].phase) <= Rank(row'[r].phase)
                      /\ row[r].enqueued <= row'[r].enqueued
                      /\ row[r].succeeded <= row'[r].succeeded
                      /\ row[r].failed <= row'[r].failed

LEMMA AdvanceStep ==
    ASSUME IInv, [Next]_vars, NEW r \in Runs
    PROVE  Advances(r)
<1>1. row[r] \in Row
  BY DEF IInv, TypeInv, TypeOK
<1>2. CASE row'[r] = row[r]
  BY <1>1, <1>2 DEF Advances, Row, Rank
<1>3. ASSUME NEW q \in Runs, NEW n \in 1..MaxRequested, Inserts(q, n), row'[r] # row[r]
      PROVE  Advances(r)
  <2>1. q = r
    BY <1>3 DEF Inserts, IInv, TypeInv, TypeOK
  <2>2. row[r] = Absent /\ row'[r] = NewRow("running", n)
    BY <1>3, <2>1 DEF Inserts, IInv, AbsentInv, TypeInv, TypeOK
  <2> QED
    BY <2>2 DEF Advances, Absent, NewRow, Rank
<1>4. ASSUME NEW c \in Callers, Patches(c), row'[r] # row[r]
      PROVE  Advances(r)
  <2>1. at[c] \in Writing /\ r = run[c]
    BY <1>4 DEF Patches, IInv, TypeInv, TypeOK
  <2>2. row'[r] = Outcome(c)
    BY <1>4, <2>1 DEF Patches, IInv, TypeInv, TypeOK
  <2>3. \/ Outcome(c).status = row[r].status
        \/ Outcome(c).status \in {"completed", "partial", "quota_halted", "failed"}
    BY <2>1, OutcomeStatus DEF IInv
  <2>4. CASE dups[r] = 0
    BY <2>1, <2>2, <2>3, <2>4, SoloOutcome DEF Advances, IInv
  <2>5. CASE dups[r] # 0
    BY <2>2, <2>3, <2>5 DEF Advances
  <2> QED
    BY <2>4, <2>5
<1> QED
  BY <1>2, <1>3, <1>4, RowSteps

(***************************************************************************)
(* RunsAdvance: a finished run is never set back to "running", and without *)
(* duplicate steps no write sets a run's phase or counters back.           *)
(***************************************************************************)
THEOREM RunsAdvance == Spec => RunAdvances
<1>1. IInv /\ [Next]_vars =>
        [\A r \in Runs :
           /\ row[r].status \notin {"absent", "running"} =>
                 row'[r].status \notin {"absent", "running"}
           /\ dups[r] = 0 => /\ Rank(row[r].phase) <= Rank(row'[r].phase)
                             /\ row[r].enqueued <= row'[r].enqueued
                             /\ row[r].succeeded <= row'[r].succeeded
                             /\ row[r].failed <= row'[r].failed]_vars
  BY AdvanceStep DEF Advances
<1> QED
  BY <1>1, Invariance, PTL DEF Spec, RunAdvances

-----------------------------------------------------------------------------
(***************************************************************************)
(* The work a run's steps claim, each job a paid search.  The bill of a    *)
(* run is what was claimed, plus the run's size for every duplicate step   *)
(* that may still write the counter back, less the job such a step has     *)
(* claimed already.  What the tab that drives the run has claimed shows in *)
(* the row, or will when it writes (Owed), or was paid with a fault; a     *)
(* duplicate's write undoes that, and pays with its own share.             *)
(***************************************************************************)
UnderWay == {"driving", "advancing", "enqueueing", "claiming", "working", "writing"}
Drivers == [r \in Runs |->
    {c \in Callers : mode[c] = "tab" /\ run[c] = r /\ at[c] \notin Outside}]
Spare == [r \in Runs |->
    {c \in Callers : mode[c] = "duplicate" /\ run[c] = r /\ at[c] \in UnderWay}]
Owing ==
    {c \in Callers : \/ at[c] = "working"
                     \/ at[c] = "writing" /\ snap[c].phase # "enqueue" /\ outcome[c] # "empty"}
Owed == [c \in Callers |-> IF c \in Owing \/ at[c] = "failing" THEN 1 ELSE 0]
Bill == [r \in Runs |->
    work[r] + row[r].requested * Cardinality(Spare[r]) - Cardinality(Spare[r] \cap Owing)]
Paid == [r \in Runs |-> row[r].requested * dups[r] + faults[r]]

Billed ==
    {r \in Runs :
        /\ IsFiniteSet(Spare[r])
        /\ Bill[r] <= Paid[r] + row[r].requested
        /\ \A c \in Drivers[r] :
              /\ row[r].status = "running" => Bill[r] <= Paid[r] + row[r].claimed + Owed[c]
              /\ at[c] = "claiming" \/ c \in Owing =>
                    Bill[r] <= Paid[r] + snap[c].claimed + Owed[c]
        /\ \A b, c \in Drivers[r] : b = c
        /\ row[r].status # "absent" => row[r].requested >= 1
        /\ row[r].status = "absent" => work[r] = 0 /\ dups[r] = 0}
WorkInv ==
    /\ Billed = Runs
    /\ \A c \in Callers : at[c] \in Outside => mode[c] = "tab"

LEMMA TimesNat ==
    ASSUME NEW n \in Nat, NEW k \in Nat
    PROVE  n * k \in Nat /\ n * (k + 1) = n * k + n
OBVIOUS

\* The numbers a bill is made of.
LEMMA BillTypes ==
    ASSUME TypeInv, NEW r \in Runs, IsFiniteSet(Spare[r])
    PROVE  /\ row[r].requested \in Nat /\ row[r].claimed \in Nat
           /\ work[r] \in Nat /\ dups[r] \in Nat /\ faults[r] \in Nat
           /\ Cardinality(Spare[r]) \in Nat
           /\ IsFiniteSet(Spare[r] \cap Owing)
           /\ Cardinality(Spare[r] \cap Owing) \in Nat
           /\ Bill[r] \in Int /\ Paid[r] \in Nat
           /\ \A c \in Callers : Owed[c] \in 0..1 /\ snap[c].claimed \in Nat
<1>1. /\ row[r].requested \in Nat /\ row[r].claimed \in Nat
      /\ work[r] \in Nat /\ dups[r] \in Nat /\ faults[r] \in Nat
      /\ \A c \in Callers : snap[c].claimed \in Nat
  BY PipelineAssumption DEF TypeInv, TypeOK, Row
<1>2. /\ Cardinality(Spare[r]) \in Nat
      /\ IsFiniteSet(Spare[r] \cap Owing)
      /\ Cardinality(Spare[r] \cap Owing) \in Nat
  BY FS_Subset, FS_CardinalityType
<1>3. Bill[r] = work[r] + row[r].requested * Cardinality(Spare[r]) - Cardinality(Spare[r] \cap Owing)
  BY DEF Bill
<1>4. Paid[r] = row[r].requested * dups[r] + faults[r]
  BY DEF Paid
<1>5. row[r].requested * Cardinality(Spare[r]) \in Nat /\ row[r].requested * dups[r] \in Nat
  BY <1>1, <1>2, TimesNat
<1>6. Bill[r] \in Int /\ Paid[r] \in Nat
  BY <1>1, <1>2, <1>3, <1>4, <1>5
<1>7. \A c \in Callers : Owed[c] \in 0..1
  BY DEF Owed
<1> QED
  BY <1>1, <1>2, <1>6, <1>7

\* A run that c has nothing to do with.
LEMMA Bystander ==
    ASSUME TypeInv, NEW c \in Callers, Acts(c), NEW r \in Billed,
           run[c] # r \/ at[c] \in Outside, run'[c] # r \/ at'[c] \in Outside,
           row'[r] = row[r], work'[r] = work[r], dups'[r] = dups[r],
           faults'[r] = faults[r]
    PROVE  r \in Billed'
<1>0. r \in Runs /\ IsFiniteSet(Spare[r])
  BY DEF Billed
<1>1. Spare'[r] = Spare[r] /\ Spare'[r] \cap Owing' = Spare[r] \cap Owing
  BY <1>0 DEF Acts, Spare, Owing, UnderWay, Outside
<1>2. Drivers'[r] = Drivers[r]
  BY <1>0 DEF Acts, Drivers, Outside
<1>3. \A d \in Drivers[r] : /\ d \in Callers /\ Owed'[d] = Owed[d] /\ at'[d] = at[d]
                           /\ snap'[d] = snap[d] /\ (d \in Owing' <=> d \in Owing)
  BY <1>0 DEF Acts, Drivers, Owed, Owing, Outside
<1>4. Bill'[r] = Bill[r]
  BY <1>0, <1>1 DEF Bill
<1>5. Paid'[r] = Paid[r]
  BY <1>0 DEF Paid
<1>6. ASSUME NEW d \in Drivers'[r]
      PROVE  /\ row[r].status = "running" => Bill[r] <= Paid[r] + row[r].claimed + Owed[d]
             /\ at[d] = "claiming" \/ d \in Owing => Bill[r] <= Paid[r] + snap[d].claimed + Owed[d]
  BY <1>2, <1>6 DEF Billed
<1>7. Bill[r] <= Paid[r] + row[r].requested
  BY DEF Billed
<1> QED
  BY <1>0, <1>1, <1>2, <1>3, <1>4, <1>5, <1>6, <1>7 DEF Billed

\* The tab of a run goes on or leaves; what it claims it owes, and what it
\* does not owe any more is in the row or was paid with a fault.
LEMMA DriverActs ==
    ASSUME TypeInv, NEW c \in Callers, Acts(c), NEW r \in Billed, c \in Drivers[r],
           mode'[c] = "tab", run'[c] = r \/ at'[c] \in Outside,
           NEW k \in Nat, work'[r] = work[r] + k, dups'[r] = dups[r],
           NEW q \in Nat, faults'[r] = faults[r] + q,
           row'[r].requested = row[r].requested,
           row[r].status # "absent", row'[r].status # "absent",
           Bill[r] + k <= Paid[r] + q + row[r].requested,
           at'[c] \notin Outside /\ row'[r].status = "running" =>
               Bill[r] + k <= Paid[r] + q + row'[r].claimed + Owed'[c],
           at'[c] = "claiming" \/ c \in Owing' =>
               Bill[r] + k <= Paid[r] + q + snap'[c].claimed + Owed'[c]
    PROVE  r \in Billed'
<1>0. r \in Runs /\ IsFiniteSet(Spare[r])
  BY DEF Billed
<1>1. Spare'[r] = Spare[r] /\ Spare'[r] \cap Owing' = Spare[r] \cap Owing
  BY <1>0 DEF Acts, Spare, Owing, Drivers
<1>2. Drivers'[r] \subseteq Drivers[r] /\ (c \in Drivers'[r] => at'[c] \notin Outside)
  BY <1>0 DEF Acts, Drivers
<1>3. \A b \in Drivers[r] : b = c
  BY DEF Billed
<1>4. Bill'[r] = Bill[r] + k
  <2> DEFINE m == row[r].requested * Cardinality(Spare[r])
             n == Cardinality(Spare[r] \cap Owing)
  <2>1. Bill'[r] = (work[r] + k) + m - n /\ Bill[r] = work[r] + m - n
    BY <1>0, <1>1 DEF Bill
  <2>2. work[r] \in Nat /\ m \in Nat /\ n \in Nat
    BY <1>0, BillTypes, TimesNat
  <2> HIDE DEF m, n
  <2> QED
    BY <2>1, <2>2
<1>5. Paid'[r] = Paid[r] + q
  <2>1. /\ Paid'[r] = row[r].requested * dups[r] + (faults[r] + q)
        /\ Paid[r] = row[r].requested * dups[r] + faults[r]
    BY <1>0 DEF Paid
  <2>2. row[r].requested * dups[r] \in Nat /\ faults[r] \in Nat
    BY <1>0, BillTypes, TimesNat
  <2> QED
    BY <2>1, <2>2
<1>6. row[r].requested >= 1
  BY DEF Billed
<1> QED
  BY <1>0, <1>1, <1>2, <1>3, <1>4, <1>5, <1>6 DEF Billed

\* A duplicate step goes on: a job it claims is taken off its share.
LEMMA SpareActs ==
    ASSUME TypeInv, NEW c \in Callers, Acts(c), NEW r \in Billed,
           c \in Spare[r], c \in Spare'[r],
           NEW k \in {0, 1}, work'[r] = work[r] + k,
           c \in Owing' <=> (c \in Owing \/ k = 1), k = 1 => c \notin Owing,
           dups'[r] = dups[r], faults'[r] = faults[r],
           row'[r] = row[r], row[r].status # "absent"
    PROVE  r \in Billed'
<1>0. r \in Runs /\ IsFiniteSet(Spare[r])
  BY DEF Billed
<1>1. Spare'[r] = Spare[r]
  BY <1>0 DEF Acts, Spare
<1>2. Drivers'[r] = Drivers[r] /\ c \notin Drivers[r]
  BY <1>0 DEF Acts, Drivers, Spare
<1>3. Cardinality(Spare[r] \cap Owing') = Cardinality(Spare[r] \cap Owing) + k
  <2>1. IsFiniteSet(Spare[r] \cap Owing) /\ Cardinality(Spare[r] \cap Owing) \in Nat
    BY <1>0, BillTypes
  <2>2. CASE k = 0
    <3>1. Spare[r] \cap Owing' = Spare[r] \cap Owing
      BY <1>0, <2>2 DEF Acts, Owing
    <3>2. Cardinality(Spare[r] \cap Owing') = Cardinality(Spare[r] \cap Owing)
      BY <3>1, Zenon
    <3> HIDE DEF Owing
    <3> QED
      BY <2>1, <2>2, <3>2
  <2>3. CASE k = 1
    <3>1. Spare[r] \cap Owing' = (Spare[r] \cap Owing) \cup {c} /\ c \notin Spare[r] \cap Owing
      BY <1>0, <2>3 DEF Acts, Owing
    <3> QED
      BY <2>1, <2>3, <3>1, FS_AddElement
  <2> QED
    BY <2>2, <2>3
<1>4. Bill'[r] = Bill[r]
  <2> DEFINE m == row[r].requested * Cardinality(Spare[r])
             n == Cardinality(Spare[r] \cap Owing)
  <2>1. Bill'[r] = (work[r] + k) + m - (n + k) /\ Bill[r] = work[r] + m - n
    BY <1>0, <1>1, <1>3 DEF Bill
  <2>2. work[r] \in Nat /\ m \in Nat /\ n \in Nat
    BY <1>0, BillTypes, TimesNat
  <2> HIDE DEF m, n
  <2> QED
    BY <2>1, <2>2
<1>5. Paid'[r] = Paid[r]
  BY <1>0 DEF Paid
<1>6. \A d \in Drivers[r] : /\ d \in Callers /\ Owed'[d] = Owed[d] /\ at'[d] = at[d]
                           /\ snap'[d] = snap[d] /\ (d \in Owing' <=> d \in Owing)
  BY <1>0, <1>2 DEF Acts, Drivers, Owed, Owing
<1>7. r \in Runs' /\ IsFiniteSet(Spare'[r])
  BY <1>0, <1>1
<1>8. ASSUME NEW d \in Drivers'[r]
      PROVE  /\ row'[r].status = "running" => Bill'[r] <= Paid'[r] + row'[r].claimed + Owed'[d]
             /\ at'[d] = "claiming" \/ d \in Owing' =>
                   Bill'[r] <= Paid'[r] + snap'[d].claimed + Owed'[d]
  BY <1>2, <1>4, <1>5, <1>6, <1>8 DEF Billed
<1>9. /\ Bill'[r] <= Paid'[r] + row'[r].requested
      /\ \A b, d \in Drivers'[r] : b = d
      /\ row'[r].status # "absent" => row'[r].requested >= 1
  BY <1>2, <1>4, <1>5 DEF Billed
<1> QED
  BY <1>7, <1>8, <1>9 DEF Billed

\* A duplicate step has written its patch, or never will: its share covers
\* whatever the patch took back from the row.
LEMMA SpareLeaves ==
    ASSUME TypeInv, NEW c \in Callers, Acts(c), NEW r \in Billed,
           c \in Spare[r], c \notin Spare'[r], c \notin Drivers'[r],
           work'[r] = work[r], dups'[r] = dups[r],
           NEW q \in Nat, faults'[r] = faults[r] + q,
           row'[r].requested = row[r].requested, row'[r].claimed \in Nat,
           row[r].status # "absent", row'[r].status # "absent",
           row'[r].status = "running" => row[r].status = "running",
           row'[r].claimed = row[r].claimed \/ (c \in Owing => row'[r].claimed >= 1)
    PROVE  r \in Billed'
<1> DEFINE w == IF c \in Owing THEN 1 ELSE 0
           N == row[r].requested
<1>0. r \in Runs /\ IsFiniteSet(Spare[r])
  BY DEF Billed
<1>1. /\ Spare'[r] = Spare[r] \ {c}
      /\ Spare'[r] \cap Owing' = (Spare[r] \cap Owing) \ {c}
  BY <1>0 DEF Acts, Spare, Owing
<1>2. Drivers'[r] = Drivers[r] /\ c \notin Drivers[r]
  BY <1>0 DEF Acts, Drivers, Spare
<1>3. /\ IsFiniteSet(Spare[r] \ {c})
      /\ Cardinality(Spare[r] \ {c}) = Cardinality(Spare[r]) - 1
      /\ Cardinality(Spare[r] \ {c}) \in Nat
  BY <1>0, FS_RemoveElement, FS_CardinalityType
<1>4. Cardinality(Spare'[r] \cap Owing') = Cardinality(Spare[r] \cap Owing) - w
  <2>1. IsFiniteSet(Spare[r] \cap Owing) /\ Cardinality(Spare[r] \cap Owing) \in Nat
    BY <1>0, BillTypes
  <2>2. Cardinality((Spare[r] \cap Owing) \ {c})
            = IF c \in Spare[r] \cap Owing THEN Cardinality(Spare[r] \cap Owing) - 1
                                           ELSE Cardinality(Spare[r] \cap Owing)
    BY <2>1, FS_RemoveElement, Zenon
  <2>3. c \in Spare[r] \cap Owing <=> c \in Owing
    OBVIOUS
  <2>4. Cardinality((Spare[r] \cap Owing) \ {c}) = Cardinality(Spare[r] \cap Owing) - w
    BY <2>1, <2>2, <2>3
  <2> HIDE DEF w
  <2> QED
    BY <1>1, <2>4, Zenon
<1>5. Bill'[r] = Bill[r] - N + w
  <2> DEFINE m == N * Cardinality(Spare[r])
             n == Cardinality(Spare[r] \cap Owing)
  <2>1. PICK s \in Nat : s = Cardinality(Spare[r] \ {c}) /\ Cardinality(Spare[r]) = s + 1
    <3>1. Cardinality(Spare[r]) \in Nat
      BY <1>0, BillTypes
    <3> QED
      BY <1>3, <3>1
  <2>2. N * s + N = m /\ N * s \in Nat
    BY <1>0, <2>1, BillTypes, TimesNat
  <2>3. Bill'[r] = work[r] + N * s - (n - w) /\ Bill[r] = work[r] + m - n
    BY <1>0, <1>1, <1>4, <2>1 DEF Bill
  <2>4. work[r] \in Nat /\ m \in Nat /\ n \in Nat /\ N \in Nat /\ w \in Nat
    BY <1>0, BillTypes, TimesNat
  <2> HIDE DEF m, n, N, w
  <2> QED
    BY <2>2, <2>3, <2>4
<1>6. Paid'[r] = Paid[r] + q
  <2>1. /\ Paid'[r] = N * dups[r] + (faults[r] + q)
        /\ Paid[r] = N * dups[r] + faults[r]
    BY <1>0 DEF Paid
  <2>2. N * dups[r] \in Nat /\ faults[r] \in Nat
    BY <1>0, BillTypes, TimesNat
  <2> QED
    BY <2>1, <2>2
<1>7. \A d \in Drivers[r] : /\ d \in Callers /\ Owed'[d] = Owed[d] /\ at'[d] = at[d]
                           /\ snap'[d] = snap[d] /\ (d \in Owing' <=> d \in Owing)
  BY <1>0, <1>2 DEF Acts, Drivers, Owed, Owing
<1>8. /\ Bill[r] \in Int /\ Paid[r] \in Nat /\ N \in Nat /\ row[r].claimed \in Nat
      /\ N >= 1 /\ w \in 0..1 /\ Bill[r] <= Paid[r] + N
      /\ \A d \in Callers : Owed[d] \in 0..1 /\ snap[d].claimed \in Nat
  <2>1. N >= 1 /\ Bill[r] <= Paid[r] + N
    BY DEF Billed
  <2>2. w \in 0..1
    OBVIOUS
  <2> QED
    BY <1>0, <2>1, <2>2, BillTypes
<1> HIDE DEF N
<1>9. Bill[r] - N + w <= Paid[r] + q + N
  BY <1>8
<1>10. ASSUME NEW d \in Drivers[r]
       PROVE  /\ row'[r].status = "running" =>
                    Bill[r] - N + w <= Paid[r] + q + row'[r].claimed + Owed[d]
              /\ at[d] = "claiming" \/ d \in Owing =>
                    Bill[r] - N + w <= Paid[r] + q + snap[d].claimed + Owed[d]
  <2>1. /\ row[r].status = "running" => Bill[r] <= Paid[r] + row[r].claimed + Owed[d]
        /\ at[d] = "claiming" \/ d \in Owing => Bill[r] <= Paid[r] + snap[d].claimed + Owed[d]
    BY <1>10 DEF Billed
  <2>2. Owed[d] \in 0..1 /\ snap[d].claimed \in Nat
    BY <1>7, <1>8
  <2>3. at[d] = "claiming" \/ d \in Owing =>
            Bill[r] - N + w <= Paid[r] + q + snap[d].claimed + Owed[d]
    BY <1>8, <2>1, <2>2
  <2>4. PICK k \in Nat : k = row'[r].claimed
    OBVIOUS
  <2>5. k >= w \/ k = row[r].claimed
    BY <2>4
  <2> HIDE DEF w
  <2>6. row'[r].status = "running" => Bill[r] - N + w <= Paid[r] + q + k + Owed[d]
    BY <1>8, <2>1, <2>2, <2>5
  <2> QED
    BY <2>3, <2>4, <2>6
<1> HIDE DEF w
<1>11. /\ Bill'[r] <= Paid'[r] + row'[r].requested
       /\ row'[r].requested >= 1
  BY <1>5, <1>6, <1>8, <1>9 DEF N
<1> QED
  BY <1>0, <1>1, <1>2, <1>3, <1>5, <1>6, <1>7, <1>10, <1>11 DEF Billed

\* A duplicate step that cannot write a counter any more.
LEMMA SpareRests ==
    ASSUME TypeInv, NEW c \in Callers, Acts(c), NEW r \in Billed,
           c \notin Spare[r], c \notin Spare'[r], c \notin Drivers'[r], c \notin Drivers[r],
           work'[r] = work[r], dups'[r] = dups[r],
           NEW q \in Nat, faults'[r] = faults[r] + q,
           row'[r].requested = row[r].requested, row'[r].claimed = row[r].claimed,
           row[r].status # "absent", row'[r].status # "absent",
           row'[r].status = "running" => row[r].status = "running"
    PROVE  r \in Billed'
<1>0. r \in Runs /\ IsFiniteSet(Spare[r])
  BY DEF Billed
<1>1. Spare'[r] = Spare[r] /\ Spare'[r] \cap Owing' = Spare[r] \cap Owing
  BY <1>0 DEF Acts, Spare, Owing
<1>2. Drivers'[r] = Drivers[r]
  BY <1>0 DEF Acts, Drivers
<1>3. Bill'[r] = Bill[r]
  BY <1>0, <1>1 DEF Bill
<1>4. Paid'[r] = Paid[r] + q
  <2>1. /\ Paid'[r] = row[r].requested * dups[r] + (faults[r] + q)
        /\ Paid[r] = row[r].requested * dups[r] + faults[r]
    BY <1>0 DEF Paid
  <2>2. row[r].requested * dups[r] \in Nat /\ faults[r] \in Nat
    BY <1>0, BillTypes, TimesNat
  <2> QED
    BY <2>1, <2>2
<1>5. \A d \in Drivers[r] : /\ d \in Callers /\ Owed'[d] = Owed[d] /\ at'[d] = at[d]
                           /\ snap'[d] = snap[d] /\ (d \in Owing' <=> d \in Owing)
  BY <1>0 DEF Acts, Drivers, Owed, Owing
<1>6. /\ Bill[r] \in Int /\ Paid[r] \in Nat
      /\ row[r].requested \in Nat /\ row[r].claimed \in Nat
      /\ \A d \in Callers : Owed[d] \in 0..1 /\ snap[d].claimed \in Nat
  BY <1>0, BillTypes
<1>7. Bill[r] <= Paid[r] + q + row[r].requested
  <2>1. Bill[r] <= Paid[r] + row[r].requested
    BY DEF Billed
  <2> QED
    BY <1>6, <2>1
<1>8. ASSUME NEW d \in Drivers[r]
      PROVE  /\ row[r].status = "running" => Bill[r] <= Paid[r] + q + row[r].claimed + Owed[d]
             /\ at[d] = "claiming" \/ d \in Owing =>
                   Bill[r] <= Paid[r] + q + snap[d].claimed + Owed[d]
  <2>1. /\ row[r].status = "running" => Bill[r] <= Paid[r] + row[r].claimed + Owed[d]
        /\ at[d] = "claiming" \/ d \in Owing => Bill[r] <= Paid[r] + snap[d].claimed + Owed[d]
    BY <1>8 DEF Billed
  <2>2. Owed[d] \in 0..1 /\ snap[d].claimed \in Nat
    BY <1>5, <1>6
  <2> QED
    BY <1>6, <2>1, <2>2
<1>9. row[r].requested >= 1
  BY DEF Billed
<1> QED
  BY <1>0, <1>1, <1>2, <1>3, <1>4, <1>5, <1>7, <1>8, <1>9 DEF Billed

\* A duplicate step is sent: it brings its share with it.
LEMMA SpareJoins ==
    ASSUME TypeInv, NEW c \in Callers, Acts(c), NEW r \in Billed,
           c \notin Spare[r], c \in Spare'[r], c \notin Drivers[r], at'[c] = "driving",
           work'[r] = work[r], dups'[r] = dups[r] + 1, faults'[r] = faults[r],
           row'[r] = row[r], row[r].status # "absent"
    PROVE  r \in Billed'
<1> DEFINE N == row[r].requested
<1>0. r \in Runs /\ IsFiniteSet(Spare[r])
  BY DEF Billed
<1>1. /\ Spare'[r] = Spare[r] \cup {c}
      /\ Spare'[r] \cap Owing' = Spare[r] \cap Owing
  BY <1>0 DEF Acts, Spare, Owing
<1>2. Drivers'[r] = Drivers[r]
  BY <1>0 DEF Acts, Drivers, Spare
<1>3. /\ IsFiniteSet(Spare'[r]) /\ Cardinality(Spare'[r]) = Cardinality(Spare[r]) + 1
  BY <1>0, <1>1, FS_AddElement
<1>4. Bill'[r] = Bill[r] + N
  <2> DEFINE s == Cardinality(Spare[r])
             n == Cardinality(Spare[r] \cap Owing)
  <2>1. Bill'[r] = work[r] + N * (s + 1) - n /\ Bill[r] = work[r] + N * s - n
    BY <1>0, <1>1, <1>3 DEF Bill
  <2>2. work[r] \in Nat /\ n \in Nat /\ N \in Nat /\ N * s \in Nat /\ N * (s + 1) = N * s + N
    BY <1>0, BillTypes, TimesNat
  <2> HIDE DEF s, n, N
  <2> QED
    BY <2>1, <2>2
<1>5. Paid'[r] = Paid[r] + N
  <2>1. /\ Paid'[r] = N * (dups[r] + 1) + faults[r]
        /\ Paid[r] = N * dups[r] + faults[r]
    BY <1>0 DEF Paid
  <2>2. /\ N * dups[r] \in Nat /\ faults[r] \in Nat /\ N \in Nat
        /\ N * (dups[r] + 1) = N * dups[r] + N
    BY <1>0, BillTypes, TimesNat
  <2> HIDE DEF N
  <2> QED
    BY <2>1, <2>2
<1>6. \A d \in Drivers[r] : /\ d \in Callers /\ Owed'[d] = Owed[d] /\ at'[d] = at[d]
                           /\ snap'[d] = snap[d] /\ (d \in Owing' <=> d \in Owing)
  BY <1>0 DEF Acts, Drivers, Owed, Owing
<1>7. /\ Bill[r] \in Int /\ Paid[r] \in Nat /\ N \in Nat /\ row[r].claimed \in Nat
      /\ \A d \in Callers : Owed[d] \in 0..1 /\ snap[d].claimed \in Nat
  BY <1>0, BillTypes
<1> HIDE DEF N
<1>8. Bill[r] + N <= Paid[r] + N + N
  <2>1. Bill[r] <= Paid[r] + N
    BY DEF Billed, N
  <2> QED
    BY <1>7, <2>1
<1>9. ASSUME NEW d \in Drivers[r]
      PROVE  /\ row[r].status = "running" =>
                   Bill[r] + N <= Paid[r] + N + row[r].claimed + Owed[d]
             /\ at[d] = "claiming" \/ d \in Owing =>
                   Bill[r] + N <= Paid[r] + N + snap[d].claimed + Owed[d]
  <2>1. /\ row[r].status = "running" => Bill[r] <= Paid[r] + row[r].claimed + Owed[d]
        /\ at[d] = "claiming" \/ d \in Owing => Bill[r] <= Paid[r] + snap[d].claimed + Owed[d]
    BY <1>9 DEF Billed
  <2>2. Owed[d] \in 0..1 /\ snap[d].claimed \in Nat
    BY <1>6, <1>7
  <2> QED
    BY <1>7, <2>1, <2>2
<1>10. row[r].requested >= 1
  BY DEF Billed
<1>11. Bill'[r] <= Paid'[r] + row'[r].requested
  BY <1>4, <1>5, <1>8 DEF N
<1> QED
  BY <1>0, <1>2, <1>3, <1>4, <1>5, <1>6, <1>9, <1>10, <1>11 DEF Billed

\* A run is inserted, with its tab.
LEMMA RunBegins ==
    ASSUME TypeInv, TypeInv', NEW c \in Callers, Acts(c), NEW r \in Billed,
           \A b \in Callers : run[b] # r, row[r].status = "absent",
           mode'[c] = "tab", NEW n \in Nat \ {0}, row'[r] = NewRow("running", n),
           work'[r] = work[r], dups'[r] = dups[r], faults'[r] = faults[r]
    PROVE  r \in Billed'
<1>0. r \in Runs /\ work[r] = 0 /\ dups[r] = 0
  BY DEF Billed
<1>1. Spare'[r] = {} /\ Drivers'[r] \subseteq {c}
  BY <1>0 DEF Acts, Spare, Drivers
<1>2. IsFiniteSet({}) /\ Cardinality({}) = 0
  BY FS_EmptySet
<1>3. row'[r].requested = n /\ row'[r].claimed = 0 /\ row'[r].status = "running"
  BY DEF NewRow
<1>4. Bill'[r] = 0
  <2>1. Spare'[r] \cap Owing' = {}
    BY <1>1
  <2>2. Bill'[r] = 0 + n * 0 - 0
    BY <1>0, <1>1, <1>2, <1>3, <2>1 DEF Bill
  <2> QED
    BY <2>2
<1>5. Paid'[r] = faults[r]
  <2>1. Paid'[r] = n * 0 + faults[r] /\ faults[r] \in Nat
    BY <1>0, <1>3 DEF Paid, TypeInv, TypeOK
  <2> QED
    BY <2>1
<1>6. Owed' \in [Callers -> 0..1] /\ faults[r] \in Nat /\ \A b \in Callers : snap'[b].claimed \in Nat
  BY <1>0, PipelineAssumption DEF Owed, TypeInv, TypeOK, Row
<1>7. 0 <= faults[r] + n
  BY <1>6
<1>8. ASSUME NEW d \in Drivers'[r]
      PROVE  /\ 0 <= faults[r] + 0 + Owed'[d]
             /\ 0 <= faults[r] + snap'[d].claimed + Owed'[d]
  <2>1. d \in Callers
    BY <1>1, <1>8
  <2>2. PICK x \in 0..1, y \in Nat : x = Owed'[d] /\ y = snap'[d].claimed
    BY <1>6, <2>1
  <2>3. 0 <= faults[r] + 0 + x /\ 0 <= faults[r] + y + x
    BY <1>6
  <2> QED
    BY <2>2, <2>3
<1>9. /\ IsFiniteSet(Spare'[r]) /\ r \in Runs'
      /\ Bill'[r] <= Paid'[r] + row'[r].requested
      /\ \A b, d \in Drivers'[r] : b = d
      /\ row'[r].requested >= 1
  BY <1>0, <1>1, <1>2, <1>3, <1>4, <1>5, <1>7
<1>10. ASSUME NEW d \in Drivers'[r]
       PROVE  /\ Bill'[r] <= Paid'[r] + row'[r].claimed + Owed'[d]
              /\ Bill'[r] <= Paid'[r] + snap'[d].claimed + Owed'[d]
  BY <1>3, <1>4, <1>5, <1>8
<1> QED
  BY <1>3, <1>9, <1>10 DEF Billed

\* What a patch does to the counter of claimed jobs.
LEMMA OutcomeClaims ==
    ASSUME TypeInv, CountInv, NEW c \in Callers, at[c] \in Writing
    PROVE  /\ c \in Owing => Outcome(c).claimed = snap[c].claimed + 1
           /\ at[c] # "writing" => Outcome(c).claimed = row[run[c]].claimed
           /\ c \notin Owing => \/ Outcome(c).claimed = row[run[c]].claimed
                                \/ Outcome(c).status # "running"
           /\ at[c] = "failing" => Outcome(c).status = "failed"
           /\ Outcome(c).status = "running" => row[run[c]].status = "running"
<1> DEFINE r == run[c]
           s == snap[c]
<1>1. r \in Runs /\ row[r] \in Row /\ s \in Row
  BY OutcomeType DEF TypeInv, TypeOK
<1>2. Outcome(c).status = "running" => row[r].status = "running"
  BY OutcomeStatus
<1>3. CASE at[c] = "failing"
  BY <1>1, <1>2, <1>3 DEF Outcome, Failed, Now, Row, Owing
<1>4. CASE at[c] = "advancing"
  BY <1>1, <1>2, <1>4 DEF Outcome, Advanced, FinalStatus, Now, Row, Owing
<1>5. CASE at[c] = "writing" /\ s.phase = "enqueue"
  BY <1>1, <1>2, <1>5 DEF Outcome, Enqueued, Now, Row, Owing
<1>6. CASE at[c] = "writing" /\ s.phase # "enqueue"
  <2> DEFINE new == Counted(c, Now(c), Claims(c), Successes(c), Failures(c))
  <2>1. Claims(c) \in Nat /\ Successes(c) \in Nat /\ Failures(c) \in Nat
    BY DEF Claims, Successes, Failures
  <2>2. new \in Row
    BY <1>1, <2>1, CountedType DEF TypeInv, Now
  <2>3. new.claimed = s.claimed + Claims(c)
    BY <1>1 DEF Counted, Now, Row
  <2> HIDE DEF new
  <2>4. /\ Outcome(c).claimed = new.claimed
        /\ outcome[c] = "empty" => Outcome(c).status \in {"partial", "completed"}
    BY <1>6, <2>2 DEF Outcome, Worked, Ended, FinalStatus, Row, new
  <2>5. c \in Owing <=> outcome[c] # "empty"
    BY <1>6 DEF Owing
  <2> QED
    BY <1>2, <1>6, <2>3, <2>4, <2>5 DEF Claims
<1> QED
  BY <1>3, <1>4, <1>5, <1>6 DEF Writing

\* A step of c concerns the run of c only.
LEMMA OneRun ==
    ASSUME TypeInv, WorkInv, NEW c \in Callers, at[c] \notin Outside, Acts(c),
           \/ at'[c] = "idle" /\ mode'[c] = "tab"
           \/ at'[c] \notin Outside /\ run'[c] = run[c],
           \A r \in Runs \ {run[c]} : /\ row'[r] = row[r] /\ work'[r] = work[r]
                                      /\ dups'[r] = dups[r] /\ faults'[r] = faults[r],
           run[c] \in Billed'
    PROVE  WorkInv'
<1>1. ASSUME NEW r \in Runs, r # run[c]
      PROVE  r \in Billed'
  <2>1. r \in Billed
    BY DEF WorkInv
  <2>2. run[c] # r /\ (run'[c] # r \/ at'[c] \in Outside)
    BY <1>1 DEF Outside
  <2>3. row'[r] = row[r] /\ work'[r] = work[r] /\ dups'[r] = dups[r] /\ faults'[r] = faults[r]
    BY <1>1
  <2> QED
    BY <2>1, <2>2, <2>3, Bystander
<1>2. Billed' = Runs
  BY <1>1 DEF Billed
<1>3. \A b \in Callers : at'[b] \in Outside => mode'[b] = "tab"
  BY DEF WorkInv, Acts, Outside
<1> QED
  BY <1>2, <1>3 DEF WorkInv

\* A step that neither claims nor writes.
LEMMA PlainStep ==
    ASSUME TypeInv, CountInv, WorkInv, NEW c \in Callers, at[c] \notin Outside, Acts(c),
           \/ at'[c] = "idle" /\ mode'[c] = "tab"
           \/ at'[c] \notin Outside /\ run'[c] = run[c] /\ mode'[c] = mode[c],
           UNCHANGED <<row, work, dups>>,
           NEW q \in Nat, faults'[run[c]] = faults[run[c]] + q,
           \A r \in Runs \ {run[c]} : faults'[r] = faults[r],
           c \in Owing \/ at[c] = "failing" =>
               q >= 1 \/ c \in Owing' \/ at'[c] = "failing" \/ at'[c] = "idle",
           c \in Owing' \/ at'[c] = "claiming" =>
               \/ c \in Owing /\ c \in Owing' /\ snap'[c] = snap[c]
               \/ /\ at[c] = "driving" /\ at'[c] = "claiming"
                  /\ row[run[c]].status = "running" /\ snap'[c] = row[run[c]],
           mode[c] = "duplicate" /\ at'[c] \in UnderWay =>
               at[c] \in UnderWay /\ q = 0 /\ (c \in Owing => c \in Owing')
    PROVE  WorkInv'
<1>1. PICK r \in Runs : r = run[c]
  BY DEF TypeInv, HasRun
<1>2. r \in Billed /\ row[r].status # "absent"
  BY <1>1 DEF WorkInv, CountInv
<1>3. /\ row'[r] = row[r] /\ work'[r] = work[r] /\ dups'[r] = dups[r]
      /\ faults'[r] = faults[r] + q
  BY <1>1
<1>4. IsFiniteSet(Spare[r])
  BY <1>2 DEF Billed
<1>5. /\ row[r].requested \in Nat /\ row[r].claimed \in Nat /\ work[r] \in Nat
      /\ Bill[r] \in Int /\ Paid[r] \in Nat /\ Owed[c] \in 0..1
      /\ snap[c].claimed \in Nat /\ faults[r] \in Nat
  BY <1>4, BillTypes
<1>6. CASE mode[c] = "tab"
  <2>1. c \in Drivers[r] /\ mode'[c] = "tab" /\ (run'[c] = r \/ at'[c] \in Outside)
    BY <1>1, <1>6 DEF Drivers, Outside
  <2>2. /\ Bill[r] <= Paid[r] + row[r].requested
        /\ row[r].status = "running" => Bill[r] <= Paid[r] + row[r].claimed + Owed[c]
        /\ c \in Owing => Bill[r] <= Paid[r] + snap[c].claimed + Owed[c]
    BY <1>2, <2>1 DEF Billed
  <2>3. Bill[r] + 0 <= Paid[r] + q + row[r].requested
    BY <1>5, <2>2
  <2>4. PICK x \in 0..1 : x = Owed'[c]
    BY DEF Owed
  <2>5. at'[c] \notin Outside => Owed[c] <= q + x
    BY <1>5, <2>4 DEF Owed, Outside
  <2>6. at'[c] \notin Outside /\ row[r].status = "running" =>
            Bill[r] + 0 <= Paid[r] + q + row[r].claimed + x
    BY <1>5, <2>2, <2>5
  <2>7. ASSUME at'[c] = "claiming" \/ c \in Owing'
        PROVE  Bill[r] + 0 <= Paid[r] + q + snap'[c].claimed + Owed'[c]
    <3>1. CASE c \in Owing /\ c \in Owing' /\ snap'[c] = snap[c]
      <4>1. x = 1
        BY <2>4, <3>1 DEF Owed
      <4>2. Bill[r] + 0 <= Paid[r] + q + snap[c].claimed + x
        BY <1>5, <2>2, <3>1, <4>1
      <4> QED
        BY <2>4, <3>1, <4>2
    <3>2. CASE /\ at[c] = "driving" /\ at'[c] = "claiming"
               /\ row[run[c]].status = "running" /\ snap'[c] = row[run[c]]
      <4>1. Owed[c] = 0
        BY <3>2 DEF Owed, Owing
      <4>2. Bill[r] + 0 <= Paid[r] + q + row[r].claimed + x
        BY <1>1, <1>5, <2>2, <3>2, <4>1
      <4> QED
        BY <1>1, <2>4, <3>2, <4>2
    <3> QED
      BY <2>7, <3>1, <3>2
  <2>8. r \in Billed'
    BY <1>2, <1>3, <1>5, <2>1, <2>3, <2>4, <2>6, <2>7, DriverActs
  <2> QED
    BY <1>1, <2>8, OneRun
<1>7. CASE mode[c] = "duplicate"
  <2>1. c \notin Drivers[r] /\ c \notin Drivers'[r]
    BY <1>1, <1>7 DEF Drivers, Outside
  <2>2. CASE at'[c] \in UnderWay
    <3>1. c \in Spare[r] /\ c \in Spare'[r] /\ (c \in Owing' <=> c \in Owing) /\ q = 0
      BY <1>1, <1>7, <2>2 DEF Spare, UnderWay, Owing
    <3>2. work'[r] = work[r] + 0 /\ faults'[r] = faults[r]
      BY <1>3, <1>5, <3>1, BillTypes DEF TypeInv, TypeOK
    <3>3. /\ 0 \in {0, 1} /\ (0 = 1 => c \notin Owing)
          /\ c \in Owing' <=> (c \in Owing \/ 0 = 1)
      BY <3>1
    <3>4. r \in Billed'
      BY <1>2, <1>3, <3>1, <3>2, <3>3, SpareActs
    <3> QED
      BY <1>1, <3>4, OneRun
  <2>3. CASE at'[c] \notin UnderWay /\ at[c] \in UnderWay
    <3>1. c \in Spare[r] /\ c \notin Spare'[r]
      BY <1>1, <1>7, <2>3 DEF Spare
    <3>2. r \in Billed'
      BY <1>2, <1>3, <1>5, <2>1, <3>1, SpareLeaves
    <3> QED
      BY <1>1, <3>2, OneRun
  <2>4. CASE at'[c] \notin UnderWay /\ at[c] \notin UnderWay
    <3>1. c \notin Spare[r] /\ c \notin Spare'[r]
      BY <2>4 DEF Spare
    <3>2. r \in Billed'
      BY <1>2, <1>3, <2>1, <3>1, SpareRests
    <3> QED
      BY <1>1, <3>2, OneRun
  <2> QED
    BY <2>2, <2>3, <2>4
<1> QED
  BY <1>6, <1>7 DEF TypeInv, TypeOK

\* A step that patches the run's row.
LEMMA PatchStep ==
    ASSUME TypeInv, CountInv, WorkInv, NEW c \in Callers, at[c] \in Writing, Acts(c),
           \/ at'[c] = "idle" /\ mode'[c] = "tab"
           \/ at'[c] \in {"answering", "failing"} /\ run'[c] = run[c] /\ mode'[c] = mode[c],
           row' = [row EXCEPT ![run[c]] = Outcome(c)], UNCHANGED <<work, dups, faults>>
    PROVE  WorkInv'
<1>1. PICK r \in Runs : r = run[c]
  BY OutcomeType
<1>2. r \in Billed /\ row[r].status # "absent" /\ at[c] \notin Outside
  BY <1>1 DEF WorkInv, CountInv, Writing, Outside
<1>3. /\ row'[r] = Outcome(c) /\ work'[r] = work[r] /\ dups'[r] = dups[r]
      /\ \A p \in Runs \ {r} : row'[p] = row[p] /\ work'[p] = work[p] /\ dups'[p] = dups[p]
  BY <1>1 DEF TypeInv, TypeOK
<1>4. IsFiniteSet(Spare[r])
  BY <1>2 DEF Billed
<1>5. /\ row[r].requested \in Nat /\ row[r].claimed \in Nat /\ work[r] \in Nat
      /\ Bill[r] \in Int /\ Paid[r] \in Nat /\ Owed[c] \in 0..1
      /\ snap[c].claimed \in Nat /\ faults[r] \in Nat
  BY <1>4, BillTypes
<1>6. /\ Outcome(c).claimed \in Nat
      /\ Outcome(c).requested = row[r].requested
      /\ Outcome(c).status # "absent"
  BY <1>1, OutcomeType, OutcomeCounts DEF Row
<1>7. /\ c \in Owing => Outcome(c).claimed = snap[c].claimed + 1
      /\ at[c] # "writing" => Outcome(c).claimed = row[r].claimed
      /\ c \notin Owing => Outcome(c).claimed = row[r].claimed \/ Outcome(c).status # "running"
      /\ at[c] = "failing" => Outcome(c).status = "failed"
      /\ Outcome(c).status = "running" => row[r].status = "running"
  BY <1>1, OutcomeClaims
<1>8. faults'[r] = faults[r] + 0 /\ \A p \in Runs \ {r} : faults'[p] = faults[p]
  BY <1>5
<1>9. CASE mode[c] = "tab"
  <2>1. c \in Drivers[r] /\ mode'[c] = "tab" /\ (run'[c] = r \/ at'[c] \in Outside)
    BY <1>1, <1>2, <1>9 DEF Drivers, Outside
  <2>2. /\ Bill[r] <= Paid[r] + row[r].requested
        /\ row[r].status = "running" => Bill[r] <= Paid[r] + row[r].claimed + Owed[c]
        /\ c \in Owing => Bill[r] <= Paid[r] + snap[c].claimed + Owed[c]
    BY <1>2, <2>1 DEF Billed
  <2>3. Bill[r] + 0 <= Paid[r] + 0 + row[r].requested
    BY <1>5, <2>2
  <2>4. PICK x \in 0..1 : x = Owed'[c]
    BY DEF Owed
  <2>5. ASSUME Outcome(c).status = "running"
        PROVE  Bill[r] + 0 <= Paid[r] + 0 + Outcome(c).claimed + x
    <3>1. CASE c \in Owing
      <4>1. Bill[r] <= Paid[r] + snap[c].claimed + 1
        BY <1>5, <2>2, <3>1
      <4> QED
        BY <1>5, <1>7, <3>1, <4>1
    <3>2. CASE c \notin Owing
      <4>1. Owed[c] = 0
        BY <1>7, <2>5, <3>2 DEF Owed
      <4>2. Bill[r] <= Paid[r] + row[r].claimed
        BY <1>5, <1>7, <2>2, <2>5, <4>1
      <4> QED
        BY <1>5, <1>7, <2>5, <3>2, <4>2
    <3> QED
      BY <3>1, <3>2
  <2>6. at'[c] # "claiming" /\ c \notin Owing'
    BY DEF Owing
  <2>7. /\ row'[r].requested = row[r].requested /\ row'[r].status # "absent"
        /\ at'[c] \notin Outside /\ row'[r].status = "running" =>
               Bill[r] + 0 <= Paid[r] + 0 + row'[r].claimed + Owed'[c]
    BY <1>3, <1>6, <2>4, <2>5
  <2>8. work'[r] = work[r] + 0
    BY <1>3, <1>5
  <2>9. r \in Billed'
    BY <1>2, <1>3, <1>8, <2>1, <2>3, <2>6, <2>7, <2>8, DriverActs
  <2> QED
    BY <1>1, <1>2, <1>3, <1>8, <2>9, OneRun DEF Outside
<1>10. CASE mode[c] = "duplicate"
  <2>1. c \notin Drivers[r] /\ c \notin Drivers'[r] /\ c \notin Spare'[r]
    BY <1>1, <1>10 DEF Drivers, Outside, Spare, UnderWay
  <2>2. /\ row'[r].requested = row[r].requested /\ row'[r].claimed \in Nat
        /\ row'[r].status # "absent"
        /\ row'[r].status = "running" => row[r].status = "running"
    BY <1>3, <1>6, <1>7
  <2>3. CASE at[c] \in UnderWay
    <3>1. c \in Spare[r]
      BY <1>1, <1>10, <2>3 DEF Spare
    <3>2. c \in Owing => row'[r].claimed >= 1
      BY <1>3, <1>5, <1>7
    <3>3. r \in Billed'
      BY <1>2, <1>3, <1>8, <2>1, <2>2, <3>1, <3>2, SpareLeaves
    <3> QED
      BY <1>1, <1>2, <1>3, <1>8, <3>3, OneRun DEF Outside
  <2>4. CASE at[c] \notin UnderWay
    <3>1. c \notin Spare[r]
      BY <2>4 DEF Spare
    <3>2. row'[r].claimed = row[r].claimed
      BY <1>3, <1>7, <2>4 DEF UnderWay
    <3>3. r \in Billed'
      BY <1>2, <1>3, <1>8, <2>1, <2>2, <3>1, <3>2, SpareRests
    <3> QED
      BY <1>1, <1>2, <1>3, <1>8, <3>3, OneRun DEF Outside
  <2> QED
    BY <2>3, <2>4
<1> QED
  BY <1>9, <1>10 DEF TypeInv, TypeOK

LEMMA ClaimStep ==
    ASSUME TypeInv, CountInv, WorkInv, NEW c \in Callers, Claim(c)
    PROVE  WorkInv'
<1>1. PICK S \in SUBSET queued :
          /\ Cardinality(S) <= 1
          /\ work' = [work EXCEPT ![run[c]] = @ + Cardinality(S)]
          /\ at' = [at EXCEPT ![c] = IF S = {} THEN "writing" ELSE "working"]
          /\ outcome' = [outcome EXCEPT ![c] = IF S = {} THEN "empty" ELSE "none"]
  BY DEF Claim
<1>2. /\ at[c] = "claiming" /\ at[c] \notin Outside
      /\ row' = row /\ mode' = mode /\ run' = run /\ snap' = snap
      /\ dups' = dups /\ faults' = faults
  BY DEF Claim, Outside, runs
<1>3. Acts(c)
  BY <1>1, <1>2 DEF Acts, TypeInv, TypeOK
<1>4. PICK r \in Runs : r = run[c]
  BY <1>2 DEF TypeInv, HasRun
<1>5. r \in Billed /\ row[r].status # "absent"
  BY <1>4 DEF WorkInv, CountInv
<1>6. IsFiniteSet(Spare[r])
  BY <1>5 DEF Billed
<1>7. /\ row[r].requested \in Nat /\ row[r].claimed \in Nat /\ work[r] \in Nat
      /\ Bill[r] \in Int /\ Paid[r] \in Nat /\ snap[c].claimed \in Nat /\ faults[r] \in Nat
  BY <1>6, BillTypes
<1>8. faults'[r] = faults[r] + 0 /\ \A p \in Runs \ {r} : faults'[p] = faults[p]
  BY <1>2, <1>7
<1>9. c \notin Owing /\ Owed[c] = 0
  BY <1>2 DEF Owing, Owed
<1>10. at'[c] \notin Outside /\ at'[c] # "claiming" /\ at'[c] \in UnderWay
  BY <1>1 DEF Outside, UnderWay, TypeInv, TypeOK
<1>11. CASE S = {}
  <2>1. work' = work
    BY <1>1, <1>11, FS_EmptySet DEF TypeInv, TypeOK
  <2>2. c \notin Owing'
    BY <1>1, <1>11 DEF Owing, TypeInv, TypeOK
  <2> QED
    <3>1. /\ UNCHANGED <<row, work, dups>>
          /\ faults'[run[c]] = faults[run[c]] + 0
          /\ \A p \in Runs \ {run[c]} : faults'[p] = faults[p]
      BY <1>2, <1>4, <1>8, <2>1
    <3>2. /\ at'[c] \notin Outside /\ run'[c] = run[c] /\ mode'[c] = mode[c]
          /\ at[c] \in UnderWay /\ at[c] # "failing"
      BY <1>2, <1>10 DEF UnderWay
    <3>3. at[c] \notin Outside /\ c \notin Owing /\ c \notin Owing' /\ at'[c] # "claiming"
      BY <1>2, <1>9, <1>10, <2>2
    <3> QED
      BY <1>3, <3>1, <3>2, <3>3, PlainStep
<1>12. CASE S # {}
  <2>1. Cardinality(S) = 1
    <3>1. IsFiniteSet(S)
      BY PipelineAssumption, FS_Subset DEF TypeInv, TypeOK
    <3> QED
      BY <1>1, <1>12, <3>1, FS_EmptySet, FS_CardinalityType
  <2>2. /\ work'[r] = work[r] + 1
        /\ \A p \in Runs \ {r} : work'[p] = work[p]
    BY <1>1, <1>4, <2>1 DEF TypeInv, TypeOK
  <2>3. c \in Owing' /\ Owed'[c] = 1
    BY <1>1, <1>12 DEF Owing, Owed, TypeInv, TypeOK
  <2>4. CASE mode[c] = "tab"
    <3>1. c \in Drivers[r] /\ mode'[c] = "tab" /\ run'[c] = r
      BY <1>2, <1>4, <2>4 DEF Drivers
    <3>2. /\ row[r].status = "running" => Bill[r] <= Paid[r] + row[r].claimed + Owed[c]
          /\ Bill[r] <= Paid[r] + snap[c].claimed + Owed[c]
      BY <1>2, <1>5, <3>1 DEF Billed
    <3>3. snap[c].claimed < row[r].requested
      BY <1>2, <1>4 DEF CountInv, Copy, Resting
    <3>4. /\ Bill[r] + 1 <= Paid[r] + 0 + row[r].requested
          /\ row[r].status = "running" => Bill[r] + 1 <= Paid[r] + 0 + row[r].claimed + 1
          /\ Bill[r] + 1 <= Paid[r] + 0 + snap[c].claimed + 1
      BY <1>7, <1>9, <3>2, <3>3
    <3>5. r \in Billed'
      BY <1>2, <1>3, <1>5, <1>8, <2>2, <2>3, <3>1, <3>4, DriverActs
    <3> QED
      BY <1>2, <1>3, <1>4, <1>8, <1>10, <2>2, <3>5, OneRun
  <2>5. CASE mode[c] = "duplicate"
    <3>1. c \in Spare[r] /\ c \in Spare'[r]
      BY <1>2, <1>4, <1>10, <2>5 DEF Spare, UnderWay
    <3>2. /\ 1 \in {0, 1} /\ (1 = 1 => c \notin Owing)
          /\ c \in Owing' <=> (c \in Owing \/ 1 = 1)
      BY <1>9, <2>3
    <3>3. r \in Billed'
      BY <1>2, <1>3, <1>5, <2>2, <3>1, <3>2, SpareActs
    <3> QED
      BY <1>2, <1>3, <1>4, <1>8, <1>10, <2>2, <3>3, OneRun
  <2> QED
    BY <2>4, <2>5 DEF TypeInv, TypeOK
<1> QED
  BY <1>11, <1>12

LEMMA WorkStep ==
    ASSUME TypeInv, TypeInv', CountInv, WorkInv, [Next]_vars
    PROVE  WorkInv'
<1>1. ASSUME NEW c \in Callers, Start(c) \/ (Leave(c) /\ at[c] = "checked")
      PROVE  WorkInv'
  <2>1. /\ at[c] \in Outside /\ at'[c] \in Outside
        /\ mode'[c] = "tab"
    BY <1>1 DEF Start, Leave, Settle, Proceed, Outside, WorkInv, TypeInv, TypeOK
  <2>2. Acts(c)
    BY <1>1 DEF Start, Leave, Settle, Proceed, Acts, TypeInv, TypeOK
  <2>3. UNCHANGED <<row, work, dups, faults>>
    BY <1>1 DEF Start, Leave, runs, history, TypeInv, TypeOK
  <2>4. ASSUME NEW r \in Runs
        PROVE  r \in Billed'
    <3>1. r \in Billed
      BY DEF WorkInv
    <3> QED
      BY <2>1, <2>2, <2>3, <3>1, Bystander
  <2>5. Billed' = Runs
    BY <2>4 DEF Billed
  <2> QED
    BY <2>1, <2>2, <2>5 DEF WorkInv, Acts
<1>2. ASSUME NEW c \in Callers, Insert(c)
      PROVE  WorkInv'
  <2>1. PICK r \in Runs, n \in 1..MaxRequested :
            /\ row[r].status = "absent"
            /\ row' = [row EXCEPT ![r] = NewRow("running", n)]
            /\ run' = [run EXCEPT ![c] = r]
    BY <1>2 DEF Insert
  <2>2. /\ at[c] = "checked" /\ at[c] \in Outside /\ mode[c] = "tab" /\ mode'[c] = "tab"
        /\ at'[c] = "driving" /\ run'[c] = r /\ UNCHANGED <<work, dups, faults>>
        /\ n \in Nat \ {0}
    BY <1>2, <2>1 DEF Insert, Outside, WorkInv, history, TypeInv, TypeOK
  <2>3. Acts(c)
    BY <1>2, <2>1 DEF Insert, Acts, TypeInv, TypeOK
  <2>4. row'[r] = NewRow("running", n) /\ \A p \in Runs \ {r} : row'[p] = row[p]
    BY <2>1 DEF TypeInv, TypeOK
  <2>5. \A b \in Callers : run[b] # r
    BY <2>1 DEF CountInv
  <2>6. r \in Billed'
    <3>1. r \in Billed
      BY DEF WorkInv
    <3> QED
      BY <2>1, <2>2, <2>3, <2>4, <2>5, <3>1, RunBegins
  <2>7. ASSUME NEW p \in Runs, p # r
        PROVE  p \in Billed'
    <3>1. p \in Billed
      BY DEF WorkInv
    <3> QED
      BY <2>2, <2>3, <2>4, <2>7, <3>1, Bystander
  <2>8. Billed' = Runs
    BY <2>6, <2>7 DEF Billed
  <2> QED
    BY <2>2, <2>3, <2>8 DEF WorkInv, Acts
<1>3. ASSUME NEW c \in Callers, Duplicate(c)
      PROVE  WorkInv'
  <2>1. PICK r \in Runs : /\ row[r].status # "absent"
                          /\ dups' = [dups EXCEPT ![r] = @ + 1]
                          /\ run' = [run EXCEPT ![c] = r]
    BY <1>3 DEF Duplicate
  <2>2. /\ at[c] \in Outside /\ mode'[c] = "duplicate" /\ at'[c] = "driving" /\ run'[c] = r
        /\ UNCHANGED <<work, row, faults>>
        /\ dups'[r] = dups[r] + 1 /\ \A p \in Runs \ {r} : dups'[p] = dups[p]
    BY <1>3, <2>1 DEF Duplicate, Outside, runs, TypeInv, TypeOK
  <2>3. Acts(c)
    BY <1>3, <2>1 DEF Duplicate, Acts, TypeInv, TypeOK
  <2>4. r \in Billed'
    <3>1. c \notin Spare[r] /\ c \in Spare'[r] /\ c \notin Drivers[r] /\ r \in Billed
      BY <2>2 DEF Spare, Drivers, Outside, UnderWay, WorkInv
    <3> QED
      BY <2>1, <2>2, <2>3, <3>1, SpareJoins
  <2>5. ASSUME NEW p \in Runs, p # r
        PROVE  p \in Billed'
    <3>1. p \in Billed
      BY DEF WorkInv
    <3> QED
      BY <2>2, <2>3, <2>5, <3>1, Bystander
  <2>6. Billed' = Runs
    BY <2>4, <2>5 DEF Billed
  <2> QED
    BY <2>2, <2>3, <2>6 DEF WorkInv, Acts, Outside
<1>4. ASSUME NEW c \in Callers,
             (Leave(c) /\ at[c] = "driving") \/ Answer(c) \/ Kill(c)
      PROVE  WorkInv'
  <2>1. PICK station \in {"idle", "driving"} : Settle(c, station) /\ (mode[c] = "duplicate" => station = "idle")
    BY <1>4 DEF Leave, Answer, Kill
  <2>2. /\ at' = [at EXCEPT ![c] = station] /\ at[c] \notin Outside
        /\ outcome' = [outcome EXCEPT ![c] = "none"]
        /\ \/ at'[c] = "idle" /\ mode'[c] = "tab"
           \/ at'[c] = "driving" /\ run'[c] = run[c] /\ mode'[c] = mode[c] /\ mode[c] = "tab"
        /\ UNCHANGED <<row, work, dups>>
    BY <1>4, <2>1 DEF Leave, Answer, Kill, Settle, Proceed, runs, history, Outside, TypeInv, TypeOK
  <2>3. Acts(c)
    BY <2>1 DEF Settle, Proceed, Acts, TypeInv, TypeOK
  <2>4. PICK q \in Nat : /\ faults'[run[c]] = faults[run[c]] + q
                         /\ \A r \in Runs \ {run[c]} : faults'[r] = faults[r]
                         /\ c \in Owing \/ at[c] = "failing" => q >= 1
    <3>1. run[c] \in Runs /\ faults[run[c]] \in Nat
      BY <2>2, PipelineAssumption DEF TypeInv, TypeOK, HasRun
    <3>2. CASE Kill(c)
      <4>1. /\ faults'[run[c]] = faults[run[c]] + 1
            /\ \A r \in Runs \ {run[c]} : faults'[r] = faults[r]
        BY <3>1, <3>2 DEF Kill, TypeInv, TypeOK
      <4> QED
        BY <4>1
    <3>3. CASE (Leave(c) /\ at[c] = "driving") \/ Answer(c)
      <4>1. /\ faults'[run[c]] = faults[run[c]] + 0
            /\ \A r \in Runs \ {run[c]} : faults'[r] = faults[r]
            /\ c \notin Owing /\ at[c] # "failing"
        BY <3>1, <3>3 DEF Leave, Answer, Owing, history
      <4> QED
        BY <4>1
    <3> QED
      BY <1>4, <3>2, <3>3
  <2>5. c \notin Owing' /\ at'[c] # "claiming" /\ (mode[c] = "duplicate" => at'[c] \notin UnderWay)
    BY <2>1, <2>2 DEF Owing, UnderWay, TypeInv, TypeOK
  <2> QED
    BY <2>2, <2>3, <2>4, <2>5, PlainStep DEF Outside
<1>5. ASSUME NEW c \in Callers, Read(c)
      PROVE  WorkInv'
  <2>0. run[c] \in Runs /\ faults[run[c]] \in Nat /\ UNCHANGED history
    <3>1. run[c] \in Runs
      BY <1>5 DEF Read, Outside, TypeInv, HasRun
    <3> QED
      BY <1>5, <3>1, DueTypes DEF Read
  <2>1. /\ at[c] = "driving" /\ at[c] \notin Outside /\ at' = [at EXCEPT ![c] = NextStation(Now(c))]
        /\ run' = run /\ mode' = mode /\ UNCHANGED <<row, work, dups, faults>>
        /\ faults'[run[c]] = faults[run[c]] + 0
        /\ \A r \in Runs \ {run[c]} : faults'[r] = faults[r]
        /\ snap' = [snap EXCEPT ![c] = IF NextStation(Now(c)) = "answering" THEN Answering(Now(c))
                                                                         ELSE Now(c)]
    BY <1>5, <2>0 DEF Read, Proceed, runs, history, Outside, TypeInv, TypeOK
  <2>2. Acts(c)
    BY <1>5, <2>1 DEF Read, Proceed, Acts, TypeInv, TypeOK
  <2>3. /\ at'[c] \in {"answering", "advancing", "enqueueing", "claiming"}
        /\ at'[c] = "claiming" => row[run[c]].status = "running" /\ snap'[c] = row[run[c]]
    BY <2>1 DEF NextStation, Now, TypeInv, TypeOK
  <2>4. c \notin Owing /\ c \notin Owing' /\ at[c] \in UnderWay
    BY <2>1, <2>3 DEF Owing, UnderWay
  <2>5. at'[c] \notin Outside
    BY <2>3 DEF Outside
  <2> QED
    BY <2>1, <2>2, <2>3, <2>4, <2>5, PlainStep
<1>6. ASSUME NEW c \in Callers, EnqueuePage(c) \/ EnqueueFails(c) \/ ClaimFails(c)
      PROVE  WorkInv'
  <2>1. /\ at[c] \in {"enqueueing", "claiming"} /\ at[c] \notin Outside
        /\ run' = run /\ mode' = mode /\ UNCHANGED <<row, work, dups, faults>>
        /\ faults'[run[c]] = faults[run[c]] + 0
        /\ \A r \in Runs \ {run[c]} : faults'[r] = faults[r]
        /\ \/ at'[c] = "failing"
           \/ at'[c] = "writing" /\ at[c] = "enqueueing" /\ snap' = snap
    BY PipelineAssumption, <1>6 DEF EnqueuePage, EnqueueFails, ClaimFails, Proceed,
        runs, history, Outside, TypeInv, TypeOK, HasRun
  <2>2. Acts(c)
    BY <1>6 DEF EnqueuePage, EnqueueFails, ClaimFails, Proceed, Acts, TypeInv, TypeOK
  <2>3. at[c] = "enqueueing" => snap[c].phase = "enqueue"
    BY DEF CountInv, Copy, Resting
  <2>4. c \notin Owing /\ c \notin Owing' /\ at[c] \in UnderWay /\ at[c] # "failing"
    BY <2>1, <2>3 DEF Owing, UnderWay
  <2>5. at'[c] \notin Outside /\ at'[c] # "claiming"
    BY <2>1 DEF Outside
  <2> QED
    BY <2>1, <2>2, <2>4, <2>5, PlainStep
<1>7. ASSUME NEW c \in Callers, JobSucceeds(c) \/ JobFails(c)
      PROVE  WorkInv'
  <2>1. /\ at[c] = "working" /\ at[c] \notin Outside /\ at'[c] = "writing"
        /\ run' = run /\ mode' = mode /\ snap' = snap /\ UNCHANGED <<row, work, dups, faults>>
        /\ faults'[run[c]] = faults[run[c]] + 0
        /\ \A r \in Runs \ {run[c]} : faults'[r] = faults[r]
        /\ outcome'[c] # "empty"
    BY PipelineAssumption, <1>7 DEF JobSucceeds, JobFails,
        runs, history, Outside, TypeInv, TypeOK, HasRun
  <2>2. Acts(c)
    BY <1>7 DEF JobSucceeds, JobFails, Acts, TypeInv, TypeOK
  <2>3. snap[c].phase # "enqueue"
    BY <2>1 DEF CountInv, Copy, Resting
  <2>4. c \in Owing /\ c \in Owing' /\ at[c] \in UnderWay
    BY <2>1, <2>3 DEF Owing, UnderWay
  <2>5. at'[c] \notin Outside /\ at'[c] # "claiming"
    BY <2>1 DEF Outside
  <2> QED
    BY <2>1, <2>2, <2>4, <2>5, PlainStep
<1>8. ASSUME NEW c \in Callers, Write(c) \/ WriteFails(c)
      PROVE  WorkInv'
  <2>1. /\ at[c] \in Writing /\ at[c] \notin Outside /\ UNCHANGED <<work, dups, faults>>
        /\ faults'[run[c]] = faults[run[c]] + 0
        /\ \A r \in Runs \ {run[c]} : faults'[r] = faults[r]
        /\ row' = row \/ row' = [row EXCEPT ![run[c]] = Outcome(c)]
    BY PipelineAssumption, <1>8 DEF Write, WriteFails, Patch,
        runs, history, Writing, Outside, TypeInv, TypeOK, HasRun
  <2>2. Acts(c)
    BY <1>8 DEF Write, WriteFails, Settle, Proceed, Acts, TypeInv, TypeOK
  <2>3. \/ at'[c] = "idle" /\ mode'[c] = "tab"
        \/ at'[c] \in {"answering", "failing"} /\ run'[c] = run[c] /\ mode'[c] = mode[c]
    BY <1>8 DEF Write, WriteFails, Settle, Proceed, TypeInv, TypeOK
  <2>4. CASE row' = [row EXCEPT ![run[c]] = Outcome(c)]
    BY <2>1, <2>2, <2>3, <2>4, PatchStep
  <2>5. CASE row' = row
    <3>1. WriteFails(c) \/ (Write(c) /\ row' = [row EXCEPT ![run[c]] = Outcome(c)])
      BY <1>8 DEF Write, Patch
    <3>2. CASE WriteFails(c)
      <4>1. at'[c] = IF at[c] = "writing" THEN "failing" ELSE "idle"
        BY <3>2 DEF WriteFails, Settle, Proceed, TypeInv, TypeOK
      <4>2. c \notin Owing' /\ at'[c] # "claiming" /\ at'[c] \notin UnderWay
        BY <4>1 DEF Owing, UnderWay
      <4>3. \/ at'[c] = "idle" /\ mode'[c] = "tab"
            \/ at'[c] \notin Outside /\ run'[c] = run[c] /\ mode'[c] = mode[c]
        BY <2>3 DEF Outside
      <4>4. at'[c] = "failing" \/ at'[c] = "idle"
        BY <4>1
      <4> QED
        BY <2>1, <2>2, <2>5, <4>2, <4>3, <4>4, PlainStep
    <3> QED
      BY <2>4, <3>1, <3>2
  <2> QED
    BY <2>1, <2>4, <2>5
<1>9. CASE (\E r \in Runs : GoStale(r)) \/ Elsewhere \/ UNCHANGED vars
  <2>1. UNCHANGED <<row, work, dups, faults, at, mode, run, snap, outcome>>
    BY <1>9 DEF GoStale, Elsewhere, vars, runs, caller, history
  <2>2. UNCHANGED <<Spare, Drivers, Owing>>
    BY <2>1 DEF Spare, Drivers, Owing
  <2>3. UNCHANGED <<Bill, Paid, Owed>>
    BY <2>1, <2>2 DEF Bill, Paid, Owed
  <2>4. Billed' = Billed
    BY <2>1, <2>2, <2>3 DEF Billed
  <2> QED
    BY <2>1, <2>4 DEF WorkInv
<1> QED
  BY <1>1, <1>2, <1>3, <1>4, <1>5, <1>6, <1>7, <1>8, <1>9, ClaimStep DEF Next, Step, Leave

(***************************************************************************)
(* WorkIsBounded: however tabs, duplicate steps, lost replies and killed   *)
(* functions interleave, the steps of a run claim at most its size, its    *)
(* size again for every duplicate step, and one job per killed function    *)
(* (stepRun writes the counter it read, not the counter there is).         *)
(***************************************************************************)
THEOREM WorkIsBounded == Spec => []WorkBound
<1>1. Init => WorkInv
  <2> SUFFICES ASSUME Init
               PROVE  WorkInv
    OBVIOUS
  <2>1. TypeInv
    BY TypeInit
  <2>2. ASSUME NEW r \in Runs
        PROVE  r \in Billed
    <3>1. Spare[r] = {} /\ Drivers[r] = {} /\ Spare[r] \cap Owing = {}
      BY DEF Init, Spare, Drivers, UnderWay, Outside
    <3>2. IsFiniteSet({}) /\ Cardinality({}) = 0
      BY FS_EmptySet
    <3>3. row[r].requested = 0 /\ row[r].status = "absent" /\ work[r] = 0 /\ dups[r] = 0 /\ faults[r] = 0
      BY DEF Init, Absent, NewRow
    <3>4. Bill[r] = 0 + 0 * 0 - 0 /\ Paid[r] = 0 * 0 + 0
      BY <3>1, <3>2, <3>3 DEF Bill, Paid
    <3> QED
      BY <3>1, <3>2, <3>3, <3>4 DEF Billed
  <2>3. Billed = Runs
    BY <2>2 DEF Billed
  <2> QED
    BY <2>3 DEF Init, WorkInv
<1>2. IInv /\ IInv' /\ WorkInv /\ [Next]_vars => WorkInv'
  BY WorkStep DEF IInv
<1>3. IInv /\ WorkInv => WorkBound
  <2> SUFFICES ASSUME IInv, WorkInv, NEW r \in Runs
               PROVE  work[r] <= row[r].requested * (1 + dups[r]) + faults[r]
    BY DEF WorkBound
  <2> DEFINE N == row[r].requested
             s == Cardinality(Spare[r])
             n == Cardinality(Spare[r] \cap Owing)
  <2>1. r \in Billed /\ IsFiniteSet(Spare[r]) /\ TypeInv
    BY DEF WorkInv, Billed, IInv
  <2>2. Bill[r] = work[r] + N * s - n /\ Paid[r] = N * dups[r] + faults[r]
    BY DEF Bill, Paid
  <2>3. /\ work[r] \in Nat /\ N \in Nat /\ s \in Nat /\ n \in Nat
        /\ dups[r] \in Nat /\ faults[r] \in Nat
    BY <2>1, BillTypes
  <2>4. Bill[r] <= Paid[r] + N
    BY <2>1 DEF Billed
  <2>5. n <= N * s
    <3>1. n <= s
      BY <2>1, FS_Subset
    <3>2. CASE s = 0
      BY <2>3, <3>1, <3>2
    <3>3. CASE s # 0
      <4>1. Spare[r] # {}
        BY <2>1, <3>3, FS_EmptySet
      <4>2. row[r].status # "absent"
        BY <4>1 DEF Spare, IInv, CountInv
      <4>3. N >= 1
        BY <2>1, <4>2 DEF Billed
      <4> HIDE DEF N, s, n
      <4>4. PICK m \in Nat : N = m + 1
        BY <2>3, <4>3
      <4>5. s * (m + 1) = s * m + s /\ s * m \in Nat /\ N * s = s * (m + 1)
        BY <2>3, <4>4, TimesNat
      <4> QED
        BY <2>3, <3>1, <4>5
    <3> QED
      BY <3>2, <3>3
  <2>6. N * s \in Nat /\ N * dups[r] \in Nat /\ N * (dups[r] + 1) = N * dups[r] + N
    BY <2>3, TimesNat
  <2>7. 1 + dups[r] = dups[r] + 1
    BY <2>3
  <2> HIDE DEF N, s, n
  <2>8. work[r] <= N * (dups[r] + 1) + faults[r]
    BY <2>2, <2>3, <2>4, <2>5, <2>6
  <2> QED
    BY <2>7, <2>8 DEF N
<1> QED
  BY <1>1, <1>2, <1>3, Invariance, PTL DEF Spec
=============================================================================
