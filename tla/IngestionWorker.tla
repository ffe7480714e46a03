--------------------------- MODULE IngestionWorker ---------------------------
(***************************************************************************)
(* runIngestionWorker (services/ingestion/ingestionService.ts) over the    *)
(* queue: any number of invocations, each of which claims one batch and    *)
(* works through it job by job.  An invocation is a Vercel function that   *)
(* the platform ends after MaxDuration ticks, or a script without a limit. *)
(***************************************************************************)
EXTENDS IngestionQueue

CONSTANTS Workers,      \* concurrent invocations
          BatchSize,    \* INGEST_BATCH_SIZE
          MaxDuration,  \* ticks an invocation may last
          MaxFaults,    \* bound of the model: kills and lost replies
          NoJob

ASSUME WorkerAssumption ==
    /\ BatchSize \in Nat \ {0}
    /\ MaxDuration \in Nat
    /\ MaxFaults \in Nat
    /\ NoJob \notin Jobs

(***************************************************************************)
(* batch[w][j]  job.attempts of a claimed job that w has not left yet, 0   *)
(*              for the jobs that are not in w's list                      *)
(* cur[w]       the job of the loop's current iteration                    *)
(* phase[w]     where in the loop w is; "halting" is "failing" with        *)
(*              USAGE_LIMIT_REACHED                                        *)
(* elapsed[w]   ticks since the invocation's claim                         *)
(* stored, tries: history, the hotels that were upserted and how often     *)
(*              enrichOne was called for a job (saturates at AttemptCap)   *)
(***************************************************************************)
VARIABLES phase, batch, cur, elapsed, stored, tries, faults

worker == <<phase, batch, cur, elapsed>>
history == <<stored, tries>>
vars == <<table, worker, history, faults>>

Phases == {"idle", "running", "enriching", "completing", "failing", "halting"}
NoBatch == [j \in Jobs |-> 0]
Held(w) == {j \in Jobs : batch[w][j] # 0}
HeldByAny == UNION {Held(w) : w \in Workers}

TypeOK ==
    /\ TableTypeOK
    /\ phase \in [Workers -> Phases]
    /\ batch \in [Workers -> [Jobs -> 0..AttemptCap]]
    /\ cur \in [Workers -> Jobs \cup {NoJob}]
    /\ elapsed \in [Workers -> 0..MaxDuration]
    /\ stored \in SUBSET Jobs
    /\ tries \in [Jobs -> 0..AttemptCap]
    /\ faults \in 0..MaxFaults

Init ==
    /\ TableInit
    /\ phase = [w \in Workers |-> "idle"]
    /\ batch = [w \in Workers |-> NoBatch]
    /\ cur = [w \in Workers |-> NoJob]
    /\ elapsed = [w \in Workers |-> 0]
    /\ stored = {}
    /\ tries = [j \in Jobs |-> 0]
    /\ faults = 0

Fault == faults < MaxFaults /\ faults' = faults + 1

-----------------------------------------------------------------------------
\* enqueueFromClientDatabase: a page of the client database is queued
Enqueue ==
    /\ \E page \in SUBSET Jobs : EnqueueHotels(page)
    /\ UNCHANGED <<worker, history, faults>>

\* An invocation that finds nothing to claim returns at once: no step.
Claim(w) ==
    /\ phase[w] = "idle"
    /\ \E S \in ClaimBatches(BatchSize) \ {{}} :
          /\ ClaimJobs(S)
          /\ batch' = [batch EXCEPT ![w] =
                          [j \in Jobs |-> IF j \in S THEN OneMore(attempts[j])
                                                     ELSE 0]]
    /\ phase' = [phase EXCEPT ![w] = "running"]
    /\ elapsed' = [elapsed EXCEPT ![w] = 0]
    /\ UNCHANGED <<cur, history, faults>>

\* The claim is committed, its reply lost: the invocation throws.
ClaimLost(w) ==
    /\ phase[w] = "idle"
    /\ \E S \in ClaimBatches(BatchSize) \ {{}} : ClaimJobs(S)
    /\ Fault
    /\ UNCHANGED <<worker, history>>

StartJob(w) ==
    /\ phase[w] = "running"
    /\ \E j \in Held(w) :
          /\ cur' = [cur EXCEPT ![w] = j]
          /\ tries' = [tries EXCEPT ![j] = OneMore(@)]
    /\ phase' = [phase EXCEPT ![w] = "enriching"]
    /\ UNCHANGED <<table, batch, elapsed, stored, faults>>

\* enrichOne reaches its upsert, the hotel is stored.
StoreHotel(w) ==
    /\ phase[w] = "enriching"
    /\ stored' = stored \cup {cur[w]}
    /\ phase' = [phase EXCEPT ![w] = "completing"]
    /\ UNCHANGED <<table, batch, cur, elapsed, tries, faults>>

\* Faulty variant: the error of enrichOne is swallowed.
EnrichFailsSwallowed(w) ==
    /\ phase[w] = "enriching"
    /\ phase' = [phase EXCEPT ![w] = "completing"]
    /\ UNCHANGED <<table, batch, cur, elapsed, history, faults>>

\* enrichOne throws; a timed-out upsert may have stored the hotel.
EnrichFails(w) ==
    /\ phase[w] = "enriching"
    /\ stored' \in {stored, stored \cup {cur[w]}}
    /\ phase' = [phase EXCEPT ![w] = "failing"]
    /\ UNCHANGED <<table, batch, cur, elapsed, tries, faults>>

\* The usage gate in front of the web search throws USAGE_LIMIT_REACHED.
LimitReached(w) ==
    /\ phase[w] = "enriching"
    /\ phase' = [phase EXCEPT ![w] = "halting"]
    /\ UNCHANGED <<table, batch, cur, elapsed, history, faults>>

\* The list w is left with at the end of an iteration: none after a break.
Rest(w) ==
    [j \in Jobs |-> IF phase[w] = "halting" \/ j = cur[w] THEN 0 ELSE batch[w][j]]

\* End of an iteration: the next job, or the end of the invocation.
LeaveJob(w) ==
    /\ batch' = [batch EXCEPT ![w] = Rest(w)]
    /\ cur' = [cur EXCEPT ![w] = NoJob]
    /\ phase' = [phase EXCEPT ![w] = IF Rest(w) = NoBatch THEN "idle" ELSE "running"]
    /\ elapsed' = [elapsed EXCEPT ![w] = IF Rest(w) = NoBatch THEN 0 ELSE @]

Complete(w) ==
    /\ phase[w] = "completing"
    /\ CompleteJob(cur[w])
    /\ LeaveJob(w)
    /\ UNCHANGED <<history, faults>>

\* completeJob throws, before or after its update was applied.
CompleteFails(w) ==
    /\ phase[w] = "completing"
    /\ \/ UNCHANGED table
       \/ CompleteJob(cur[w])
    /\ phase' = [phase EXCEPT ![w] = "failing"]
    /\ UNCHANGED <<batch, cur, elapsed, history, faults>>

Fail(w) ==
    /\ phase[w] \in {"failing", "halting"}
    /\ FailJob(cur[w], batch[w][cur[w]])
    /\ LeaveJob(w)
    /\ UNCHANGED <<history, faults>>

\* failJob's own error is logged and swallowed: the row stays as it is.
FailLost(w) ==
    /\ phase[w] \in {"failing", "halting"}
    /\ LeaveJob(w)
    /\ Fault
    /\ UNCHANGED <<table, history>>

\* The platform ends the invocation: its list is forgotten, the rows stay.
Kill(w) ==
    /\ phase[w] # "idle"
    /\ phase' = [phase EXCEPT ![w] = "idle"]
    /\ batch' = [batch EXCEPT ![w] = NoBatch]
    /\ cur' = [cur EXCEPT ![w] = NoJob]
    /\ elapsed' = [elapsed EXCEPT ![w] = 0]
    /\ Fault
    /\ UNCHANGED <<table, history>>

\* Faulty variant: the platform lets an invocation run on.
TickUnlimited ==
    /\ PassTime
    /\ elapsed' = [w \in Workers |-> IF phase[w] = "idle" THEN 0 ELSE elapsed[w] + 1]
    /\ UNCHANGED <<phase, batch, cur, history, faults>>

\* Time does not pass beyond the end of an invocation.
Tick ==
    /\ \A w \in Workers : phase[w] # "idle" => elapsed[w] < MaxDuration
    /\ PassTime
    /\ elapsed' = [w \in Workers |-> IF phase[w] = "idle" THEN 0 ELSE elapsed[w] + 1]
    /\ UNCHANGED <<phase, batch, cur, history, faults>>

Iterate(w) ==
    \/ StartJob(w)
    \/ StoreHotel(w)
    \/ EnrichFails(w)
    \/ LimitReached(w)
    \/ Complete(w)
    \/ CompleteFails(w)
    \/ Fail(w)
    \/ FailLost(w)

Next ==
    \/ Enqueue
    \/ \E w \in Workers : Claim(w) \/ ClaimLost(w) \/ Iterate(w) \/ Kill(w)
    \/ Tick

Spec == Init /\ [][Next]_vars

(***************************************************************************)
(* An invocation keeps executing, time passes, and invocations keep        *)
(* coming: the scheduler that README.md and ingest-worker.ts name, or an   *)
(* operator (no scheduler is part of the repository).                      *)
(***************************************************************************)
FairSpec ==
    /\ Spec
    /\ WF_vars(Tick)
    /\ \A w \in Workers : WF_vars(Claim(w)) /\ WF_vars(Iterate(w))

-----------------------------------------------------------------------------
(***************************************************************************)
(* Exclusive: no two invocations hold the same job, however a kill, a      *)
(* swallowed error or a quota halt left rows behind for the 15-minute      *)
(* reclaim.  completeJob and failJob update by id alone, so nothing else   *)
(* keeps one invocation from settling what another is still working on.    *)
(***************************************************************************)
Exclusive ==
    \A v, w \in Workers : v # w => Held(v) \cap Held(w) = {}

(***************************************************************************)
(* HolderOwnsRow: what an invocation remembers of a job is what the row    *)
(* says: it is processing, with the attempts of the claim.  The exception  *)
(* is a completeJob whose update was applied and whose reply was lost.     *)
(***************************************************************************)
HolderOwnsRow ==
    \A w \in Workers : \A j \in Held(w) :
        /\ attempts[j] = batch[w][j]
        /\ \/ status[j] = "processing"
           \/ status[j] = "done" /\ phase[w] = "failing" /\ cur[w] = j

(***************************************************************************)
(* SettledOnEvidence: a row is done only if its hotel was stored, and      *)
(* failed only if its enrichment was tried at all; the attempts counter    *)
(* alone does not say so, since a claim counts even if the job is dropped. *)
(***************************************************************************)
SettledOnEvidence ==
    \A j \in Jobs : /\ status[j] = "done" => j \in stored
                    /\ status[j] = "failed" => tries[j] > 0

(***************************************************************************)
(* SettledStays: a failed row never changes, and a done row is reopened    *)
(* only by the invocation that completed it and lost the reply, never by   *)
(* a late write of another one nor by importing the hotel again.           *)
(***************************************************************************)
SettledStays ==
    [][\A j \in Jobs :
          /\ status[j] = "failed" => status'[j] = "failed"
          /\ status[j] = "done" =>
                \/ status'[j] = "done"
                \/ \E w \in Workers : phase[w] = "failing" /\ cur[w] = j]_vars

(***************************************************************************)
(* Settles: every queued job ends up done or failed for good, whatever     *)
(* was killed, lost or halted meanwhile: the reclaim finds orphaned rows   *)
(* and the attempts bound the retries.                                     *)
(***************************************************************************)
Settles ==
    \A j \in Jobs : status[j] # "absent" ~> [](status[j] \in {"done", "failed"})

(***************************************************************************)
(* The queue seen as leases: a row that no invocation holds and that is    *)
(* not settled is queued, even while it still says processing.             *)
(***************************************************************************)
Unheld(ss) == {j \in Jobs \ HeldByAny : status[j] \in ss}

Lease == INSTANCE LeaseQueue WITH
            queued <- Unheld({"pending", "processing"}),
            leases <- [w \in Workers |-> Held(w)],
            done <- Unheld({"done"}),
            failed <- Unheld({"failed"})

(***************************************************************************)
(* ImplementsLeaseQueue: the unfenced updates of queue.ts give what a      *)
(* queue with proper leases gives: a job belongs to one worker at a time   *)
(* and once settled stays settled.                                         *)
(***************************************************************************)
ImplementsLeaseQueue == Lease!Spec

(***************************************************************************)
(* NeverProcessedTwice: queue.ts:9-11, "multiple concurrent workers (cron  *)
(* invocations) can never process the same job twice".                     *)
(***************************************************************************)
NeverProcessedTwice ==
    \A v, w \in Workers :
        v # w /\ phase[v] = "enriching" /\ phase[w] = "enriching" => cur[v] # cur[w]
=============================================================================
