----------------------------- MODULE PipelineRun -----------------------------
(***************************************************************************)
(* Manual ingestion runs: services/admin/pipelineOrchestrator.ts over the  *)
(* table pipeline_runs (0006_pipeline_runs.sql), api/admin/run.ts, and the *)
(* tabs of the operations panel (public/admin.js) that step them.  One     *)
(* step queues one page of hotels or works on one job; it reads the run's  *)
(* row, does its work and writes absolute values back, by id alone.        *)
(*                                                                         *)
(* The queue is what LeaseQueue promises, which IngestionWorker is shown   *)
(* to implement.  A queued job need not be claimable yet.                  *)
(***************************************************************************)
EXTENDS Naturals, FiniteSets, Sequences

CONSTANTS Jobs,          \* hotels of the client database
          Pages,         \* the pages it lists them on
          Runs,          \* ids of pipeline runs
          Callers,       \* panel tabs, and senders of duplicate step calls
          MaxRequested,  \* largest count of a start request
          MaxDuplicates, \* bound of the model: duplicate step calls
          MaxFaults,     \* bound of the model: ended functions per run
          NoRun

ASSUME PipelineAssumption ==
    /\ IsFiniteSet(Jobs)
    /\ Pages \in Seq(SUBSET Jobs) /\ Pages # <<>>
    /\ {MaxRequested, MaxDuplicates, MaxFaults} \subseteq Nat
    /\ NoRun \notin Runs

(***************************************************************************)
(* queued, leases, done, failed   the queue, see LeaseQueue                *)
(* row[r]    the run's row; "absent" until it is inserted                  *)
(* active    runs in status "running" whose last_activity_at is less than  *)
(*           15 minutes old                                                *)
(* at[c]     where c is: "idle"; "checked" (start found no active run);    *)
(*           "driving" (between two steps); inside a step "advancing"      *)
(*           (next patch decided by the row alone), "enqueueing",          *)
(*           "claiming", "working", "writing" (patch of the outcome),      *)
(*           "failing" (the catch block's patch), "answering"              *)
(* mode[c]   a tab repeats the step, a duplicate call is one step          *)
(* run[c], snap[c]   the run being stepped and its row as c knows it       *)
(* got[c], outcome[c]   what the step's page or job gave                   *)
(* (what is not read again is reset: snap keeps only the status of an      *)
(* answer and nothing in the catch block)                                  *)
(* wins, work, dups, faults   history: jobs a run's steps enriched, jobs   *)
(*           they claimed, duplicate calls that stepped it, its steps that *)
(*           the platform ended                                            *)
(***************************************************************************)
VARIABLES queued, leases, done, failed, row, active, at, mode, run, snap, got,
          outcome, wins, work, dups, faults

queue == <<queued, leases, done, failed>>
runs == <<row, active>>
caller == <<at, mode, run, snap, got, outcome>>
history == <<wins, work, dups, faults>>
vars == <<queue, runs, caller, history>>

Q == INSTANCE LeaseQueue WITH Workers <- Callers

Statuses == {"absent", "running", "completed", "partial", "quota_halted", "failed"}
Row == [status : Statuses, phase : {"enqueue", "worker", "done"}, requested : Nat,
        enqueued : Nat, cursor : DOMAIN Pages, claimed : Nat, succeeded : Nat,
        failed : Nat]

\* A null cursor asks for the first page.
NewRow(status, n) ==
    [status |-> status, phase |-> "enqueue", requested |-> n, enqueued |-> 0,
     cursor |-> 1, claimed |-> 0, succeeded |-> 0, failed |-> 0]
Absent == NewRow("absent", 0)

Stations == {"idle", "checked", "driving", "advancing", "enqueueing", "claiming",
             "working", "writing", "failing", "answering"}
Outcomes == {"none", "empty", "success", "failure", "halt"}

TypeOK ==
    /\ queued \in SUBSET Jobs
    /\ leases \in [Callers -> SUBSET Jobs]
    /\ done \in SUBSET Jobs
    /\ failed \in SUBSET Jobs
    /\ row \in [Runs -> Row]
    /\ active \in SUBSET Runs
    /\ at \in [Callers -> Stations]
    /\ mode \in [Callers -> {"tab", "duplicate"}]
    /\ run \in [Callers -> Runs \cup {NoRun}]
    /\ snap \in [Callers -> Row]
    /\ got \in [Callers -> Nat]
    /\ outcome \in [Callers -> Outcomes]
    /\ wins \in [Runs -> SUBSET Jobs]
    /\ work \in [Runs -> Nat]
    /\ dups \in [Runs -> Nat]
    /\ faults \in [Runs -> 0..MaxFaults]

Init ==
    /\ Q!Init
    /\ row = [r \in Runs |-> Absent]
    /\ active = {}
    /\ at = [c \in Callers |-> "idle"]
    /\ mode = [c \in Callers |-> "tab"]
    /\ run = [c \in Callers |-> NoRun]
    /\ snap = [c \in Callers |-> Absent]
    /\ got = [c \in Callers |-> 0]
    /\ outcome = [c \in Callers |-> "none"]
    /\ wins = [r \in Runs |-> {}]
    /\ work = [r \in Runs |-> 0]
    /\ dups = [r \in Runs |-> 0]
    /\ faults = [r \in Runs |-> 0]

-----------------------------------------------------------------------------
Known == queued \cup Q!Leased \cup done \cup failed

\* c goes on with nothing but s in its hands.
Proceed(c, station, s) ==
    /\ at' = [at EXCEPT ![c] = station]
    /\ snap' = [snap EXCEPT ![c] = s]
    /\ got' = [got EXCEPT ![c] = 0]
    /\ outcome' = [outcome EXCEPT ![c] = "none"]

\* Back to the tab's loop, or to no request at all.
Settle(c, station) ==
    /\ Proceed(c, station, Absent)
    /\ mode' = [mode EXCEPT ![c] = IF station = "idle" THEN "tab" ELSE @]
    /\ run' = [run EXCEPT ![c] = IF station = "idle" THEN NoRun ELSE @]

\* createRun's getActiveRun: no run is active.
Start(c) ==
    /\ at[c] = "idle"
    /\ active = {}
    /\ at' = [at EXCEPT ![c] = "checked"]
    /\ UNCHANGED <<queue, runs, mode, run, snap, got, outcome, history>>

\* createRun's insert, whatever was inserted since the check.
Insert(c) ==
    /\ at[c] = "checked"
    /\ \E r \in Runs, n \in 1..MaxRequested :
          /\ row[r].status = "absent"
          /\ row' = [row EXCEPT ![r] = NewRow("running", n)]
          /\ active' = active \cup {r}
          /\ run' = [run EXCEPT ![c] = r]
    /\ at' = [at EXCEPT ![c] = "driving"]
    /\ UNCHANGED <<queue, mode, snap, got, outcome, history>>

\* A step request for a run that somebody else drives.
Duplicate(c) ==
    /\ at[c] = "idle"
    /\ \E r \in Runs :
          /\ row[r].status # "absent"
          /\ dups[r] < MaxDuplicates
          /\ dups' = [dups EXCEPT ![r] = @ + 1]
          /\ run' = [run EXCEPT ![c] = r]
    /\ mode' = [mode EXCEPT ![c] = "duplicate"]
    /\ at' = [at EXCEPT ![c] = "driving"]
    /\ UNCHANGED <<queue, runs, snap, got, outcome, wins, work, faults>>

\* The insert or the select fails, the answer to a start is lost, or the tab
\* is closed or logged out: nobody drives the run.
Leave(c) ==
    /\ at[c] \in {"checked", "driving"}
    /\ Settle(c, "idle")
    /\ UNCHANGED <<queue, runs, history>>

-----------------------------------------------------------------------------
Now(c) == row[run[c]]
Answering(s) == [Absent EXCEPT !.status = s.status]

\* What stepRun does next, decided by the row it read.
NextStation(s) ==
    IF s.status # "running" THEN "answering"
    ELSE IF s.phase = "enqueue"
    THEN IF s.enqueued >= s.requested THEN "advancing" ELSE "enqueueing"
    ELSE IF s.phase = "worker"
    THEN IF s.claimed >= s.requested THEN "advancing" ELSE "claiming"
    ELSE "answering"

Read(c) ==
    /\ at[c] = "driving"
    /\ Proceed(c, NextStation(Now(c)),
               IF NextStation(Now(c)) = "answering" THEN Answering(Now(c))
                                                    ELSE Now(c))
    /\ UNCHANGED <<queue, runs, mode, run, history>>

\* patchRun: the row as it is now, with the fields of the patch overwritten.
Patch(c, new) ==
    /\ row' = [row EXCEPT ![run[c]] = new]
    /\ active' = IF new.status = "running" THEN active \cup {run[c]}
                                           ELSE active \ {run[c]}


FinalStatus(failures) == IF failures > 0 THEN "partial" ELSE "completed"

\* The patch of a row that is already at its limit.
Advanced(c) ==
    IF snap[c].phase = "enqueue"
    THEN [Now(c) EXCEPT !.phase = "worker", !.cursor = 1]
    ELSE [Now(c) EXCEPT !.phase = "done", !.status = FinalStatus(snap[c].failed)]

\* Faulty variant: the cursor is not saved.
EnqueuedSamePage(c) ==
    LET total == snap[c].enqueued + got[c]
        over == total >= snap[c].requested \/ snap[c].cursor = Len(Pages)
    IN  [Now(c) EXCEPT !.enqueued = total,
                       !.phase = IF over THEN "worker" ELSE "enqueue"]

\* Faulty variant: the last page does not end the phase.
EnqueuedBeyond(c) ==
    LET total == snap[c].enqueued + got[c]
        over == total >= snap[c].requested
    IN  [Now(c) EXCEPT !.enqueued = total,
                       !.cursor = IF over THEN 1 ELSE snap[c].cursor + 1,
                       !.phase = IF over THEN "worker" ELSE "enqueue"]

\* The patch after an enqueued page: the last page or the limit ends the phase.
Enqueued(c) ==
    LET total == snap[c].enqueued + got[c]
        over == total >= snap[c].requested \/ snap[c].cursor = Len(Pages)
    IN  [Now(c) EXCEPT !.enqueued = total,
                       !.cursor = IF over THEN 1 ELSE snap[c].cursor + 1,
                       !.phase = IF over THEN "worker" ELSE "enqueue"]

\* The result of a worker pass of at most one job.
Claims(c) == IF outcome[c] = "empty" THEN 0 ELSE 1
Successes(c) == IF outcome[c] = "success" THEN 1 ELSE 0
Failures(c) == IF outcome[c] \in {"failure", "halt"} THEN 1 ELSE 0

\* The counters of a worker pass, added to those of the row that was read.
Counted(c, base, claims, successes, failures) ==
    [base EXCEPT !.claimed = snap[c].claimed + claims,
                 !.succeeded = snap[c].succeeded + successes,
                 !.failed = snap[c].failed + failures]

\* A worker pass ends the run: the quota is used up, nothing was due, or the
\* run is at its size.
Ended(c, new, failures) ==
    IF outcome[c] = "halt"
    THEN [new EXCEPT !.status = "quota_halted", !.phase = "done"]
    ELSE IF outcome[c] = "empty" \/ new.claimed >= snap[c].requested
    THEN [new EXCEPT !.status = FinalStatus(failures), !.phase = "done"]
    ELSE new

\* Faulty variant: the halting job is not counted as failed.
WorkedForgettingHalt(c) ==
    LET broken == IF outcome[c] = "failure" THEN 1 ELSE 0
        new == Counted(c, Now(c), Claims(c), Successes(c), broken)
    IN  Ended(c, new, new.failed)

\* Faulty variant: a job that goes back to the queue is not counted.
WorkedSuccessesOnly(c) ==
    LET new == Counted(c, Now(c), Successes(c), Successes(c), 0)
    IN  Ended(c, new, new.failed)

\* Faulty variant: the whole row is written back as it was read.
WorkedOverwriting(c) ==
    LET new == Counted(c, snap[c], Claims(c), Successes(c), Failures(c))
    IN  Ended(c, new, new.failed)

\* Faulty variant: every claimed job counts as a success.
WorkedOptimistic(c) ==
    LET new == Counted(c, Now(c), Claims(c), Claims(c), 0)
    IN  Ended(c, new, new.failed)

\* Faulty variant: the final status ignores the last job.
WorkedStaleStatus(c) ==
    LET new == Counted(c, Now(c), Claims(c), Successes(c), Failures(c))
    IN  Ended(c, new, snap[c].failed)

\* The patch after a worker pass.
Worked(c) ==
    LET new == Counted(c, Now(c), Claims(c), Successes(c), Failures(c))
    IN  Ended(c, new, new.failed)

\* The catch block's patch.
Failed(c) == [Now(c) EXCEPT !.status = "failed", !.phase = "done"]

\* The patch c is about to write.
Outcome(c) ==
    IF at[c] = "failing" THEN Failed(c)
    ELSE IF at[c] = "advancing" THEN Advanced(c)
    ELSE IF snap[c].phase = "enqueue" THEN Enqueued(c)
    ELSE Worked(c)

Writing == {"advancing", "writing", "failing"}

\* The patched row is the step's answer.
Write(c) ==
    /\ at[c] \in Writing
    /\ Patch(c, Outcome(c))
    /\ Proceed(c, "answering", Answering(Outcome(c)))
    /\ UNCHANGED <<queue, mode, run, history>>

\* patchRun throws, its update applied or not: inside the try block the run
\* is failed next, elsewhere the request fails and the tab stops.
WriteFails(c) ==
    /\ at[c] \in Writing
    /\ Patch(c, Outcome(c)) \/ UNCHANGED runs
    /\ IF at[c] = "writing"
       THEN Proceed(c, "failing", Absent) /\ UNCHANGED <<mode, run>>
       ELSE Settle(c, "idle")
    /\ UNCHANGED <<queue, history>>

\* The tab goes on while the answer says "running".
Answer(c) ==
    /\ at[c] = "answering"
    /\ Settle(c, IF mode[c] = "tab" /\ snap[c].status = "running"
                 THEN "driving" ELSE "idle")
    /\ UNCHANGED <<queue, runs, history>>

-----------------------------------------------------------------------------
\* The upsert reports how many rows are new; without its count, all of the
\* page's are taken to be.
EnqueuePage(c) ==
    /\ at[c] = "enqueueing"
    /\ LET page == Pages[snap[c].cursor]
           new == page \ Known
       IN  /\ Q!Submit(new)
           /\ \E n \in {Cardinality(new), Cardinality(page)} : got' = [got EXCEPT ![c] = n]
    /\ at' = [at EXCEPT ![c] = "writing"]
    /\ UNCHANGED <<runs, mode, run, snap, outcome, history>>

\* The client database fails, or the upsert, applied or not.
EnqueueFails(c) ==
    /\ at[c] = "enqueueing"
    /\ UNCHANGED queue \/ Q!Submit(Pages[snap[c].cursor] \ Known)
    /\ Proceed(c, "failing", Absent)
    /\ UNCHANGED <<runs, mode, run, history>>

\* runIngestionWorker(1) claims a job, or finds none that is due.
Claim(c) ==
    /\ at[c] = "claiming"
    /\ \E S \in {T \in SUBSET queued : Cardinality(T) <= 1} :
          /\ Q!Lease(c, S)
          /\ work' = [work EXCEPT ![run[c]] = @ + Cardinality(S)]
          /\ at' = [at EXCEPT ![c] = IF S = {} THEN "writing" ELSE "working"]
          /\ outcome' = [outcome EXCEPT ![c] = IF S = {} THEN "empty" ELSE "none"]
    /\ UNCHANGED <<runs, mode, run, snap, got, wins, dups, faults>>

\* The claim throws; a row it claimed all the same waits for its reclaim.
ClaimFails(c) ==
    /\ at[c] = "claiming"
    /\ Proceed(c, "failing", Absent)
    /\ UNCHANGED <<queue, runs, mode, run, history>>

JobSucceeds(c) ==
    /\ at[c] = "working"
    /\ Q!Release(c, leases[c], leases[c], {})
    /\ wins' = [wins EXCEPT ![run[c]] = @ \cup leases[c]]
    /\ at' = [at EXCEPT ![c] = "writing"]
    /\ outcome' = [outcome EXCEPT ![c] = "success"]
    /\ UNCHANGED <<runs, mode, run, snap, got, work, dups, faults>>

\* The job is queued again, failed for good, or done all the same when only
\* the replies of completeJob and failJob were lost.
JobFails(c) ==
    /\ at[c] = "working"
    /\ \/ Q!Release(c, leases[c], {}, {})
       \/ Q!Release(c, leases[c], {}, leases[c])
       \/ Q!Release(c, leases[c], leases[c], {})
    /\ at' = [at EXCEPT ![c] = "writing"]
    /\ \E o \in {"failure", "halt"} : outcome' = [outcome EXCEPT ![c] = o]
    /\ UNCHANGED <<runs, mode, run, snap, got, history>>

\* The platform ends a step's function; a tab answers HTTP 504 with the next
\* step.  A completeJob may have been applied by then.
Kill(c) ==
    /\ at[c] \notin {"idle", "checked", "driving"}
    /\ \E D \in SUBSET leases[c] : Q!Release(c, leases[c], D, {})
    /\ Settle(c, IF mode[c] = "tab" THEN "driving" ELSE "idle")
    /\ faults[run[c]] < MaxFaults
    /\ faults' = [faults EXCEPT ![run[c]] = @ + 1]
    /\ UNCHANGED <<runs, wins, work, dups>>

\* 15 minutes without a patch.
GoStale(r) ==
    /\ r \in active
    /\ active' = active \ {r}
    /\ UNCHANGED <<queue, row, caller, history>>

\* api/internal/ingest and ingest-worker use the same queue.  A job one of
\* their invocations holds is one that no step finds due: its claim and its
\* settlement are seen as one.
Elsewhere ==
    /\ \/ \E k \in DOMAIN Pages : Q!Submit(Pages[k] \ Known)
       \/ \E j \in queued :
             /\ queued' = queued \ {j}
             /\ \/ done' = done \cup {j} /\ UNCHANGED failed
                \/ failed' = failed \cup {j} /\ UNCHANGED done
             /\ UNCHANGED leases
    /\ UNCHANGED <<runs, caller, history>>

Step(c) ==
    \/ Read(c)
    \/ EnqueuePage(c)
    \/ EnqueueFails(c)
    \/ Claim(c)
    \/ ClaimFails(c)
    \/ JobSucceeds(c)
    \/ JobFails(c)
    \/ Write(c)
    \/ WriteFails(c)
    \/ Answer(c)

Next ==
    \/ \E c \in Callers :
          Start(c) \/ Insert(c) \/ Duplicate(c) \/ Leave(c) \/ Step(c) \/ Kill(c)
    \/ \E r \in Runs : GoStale(r)
    \/ Elsewhere

Spec == Init /\ [][Next]_vars

\* A request under way is executed; tabs may wait or leave as they like.
FairSpec == Spec /\ \A c \in Callers : WF_vars(Step(c))

-----------------------------------------------------------------------------
(***************************************************************************)
(* RowsAddUp: the counters of a run agree with each other and respect its  *)
(* size, also when duplicate steps write absolute values over newer ones.  *)
(***************************************************************************)
RowsAddUp ==
    \A r \in Runs : /\ row[r].claimed = row[r].succeeded + row[r].failed
                    /\ row[r].claimed <= row[r].requested

(***************************************************************************)
(* WorkBound: the steps of a run claim no more jobs than were requested;   *)
(* every job costs a paid search.  Each ended function can add one, and a  *)
(* duplicate step, which may set the counter back by all that was done     *)
(* since it read the row, the whole size of the run again.                 *)
(***************************************************************************)
WorkBound ==
    \A r \in Runs : work[r] <= row[r].requested * (1 + dups[r]) + faults[r]

(***************************************************************************)
(* SuccessesAreReal: the succeeded_count of a run is covered by jobs that  *)
(* its own steps enriched, that are done, and that no other run counts,    *)
(* although runs, tabs and cron share one queue.                           *)
(***************************************************************************)
SuccessesAreReal ==
    /\ \A r \in Runs : /\ wins[r] \subseteq done
                       /\ row[r].succeeded <= Cardinality(wins[r])
    /\ \A q, r \in Runs : q # r => wins[q] \cap wins[r] = {}

(***************************************************************************)
(* SummaryIsTrue: of a run without duplicate steps, phase and status say   *)
(* the same, and "completed", which the panel words as all hotels enriched *)
(* successfully, means that every job its steps claimed was enriched, save *)
(* one for each of its functions that the platform ended: what such a step *)
(* had found out is in no counter.                                         *)
(***************************************************************************)
SummaryIsTrue ==
    \A r \in Runs : dups[r] = 0 =>
        /\ row[r].phase = "done" <=> row[r].status \notin {"absent", "running"}
        /\ row[r].status = "completed" => work[r] <= Cardinality(wins[r]) + faults[r]

(***************************************************************************)
(* RunAdvances: a finished run never runs again, whoever still writes to   *)
(* its row; without duplicate steps phase and counters never go back, over *)
(* ended functions, repeated steps and lost replies.                       *)
(***************************************************************************)
Rank(phase) == CASE phase = "enqueue" -> 0 [] phase = "worker" -> 1 [] OTHER -> 2
RunAdvances ==
    [][\A r \in Runs :
          /\ row[r].status \notin {"absent", "running"} =>
                row'[r].status \notin {"absent", "running"}
          /\ dups[r] = 0 => /\ Rank(row[r].phase) <= Rank(row'[r].phase)
                            /\ row[r].enqueued <= row'[r].enqueued
                            /\ row[r].succeeded <= row'[r].succeeded
                            /\ row[r].failed <= row'[r].failed]_vars

(***************************************************************************)
(* RunEnds: a run that a tab keeps stepping finishes; the enqueue phase    *)
(* runs out of pages and every worker step counts or finishes.             *)
(***************************************************************************)
RunEnds ==
    \A r \in Runs :
        row[r].status = "running" ~>
            \/ row[r].status # "running"
            \/ \A c \in Callers : run[c] # r

(***************************************************************************)
(* OneActiveRun: pipelineOrchestrator.ts:93, "Rejects if one is already    *)
(* active".                                                                *)
(***************************************************************************)
OneActiveRun == Cardinality(active) <= 1
=============================================================================
