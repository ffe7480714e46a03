--------------------------- MODULE IngestionQueue ---------------------------
(***************************************************************************)
(* The ingestion_jobs table of 0004_queue.sql and the operations           *)
(* services/ingestion/queue.ts performs on it.  A job is its dedupe_key;   *)
(* a row that was never inserted has status "absent".                      *)
(*                                                                         *)
(* Timestamps are kept as the delays the code compares them by:            *)
(*   wait[j]  ticks until run_after <= now()  (0: null or due)             *)
(*   age[j]   ticks since started_at, while the row is "processing" (no    *)
(*            other row's started_at is read)                              *)
(* created[j] orders rows by created_at; the rows of one INSERT share it.  *)
(***************************************************************************)
EXTENDS Naturals, FiniteSets

CONSTANTS Jobs,         \* dedupe keys of the hotels the client database lists
          MaxAttempts,  \* MAX_ATTEMPTS
          AttemptCap,   \* bound of the model: attempts saturates here
          StaleAfter,   \* ticks after which a processing row is reclaimed
          Minute        \* ticks of the backoff's unit

(***************************************************************************)
(* No reader of attempts tells apart two values >= MaxAttempts.            *)
(***************************************************************************)
ASSUME QueueAssumption ==
    /\ IsFiniteSet(Jobs)
    /\ MaxAttempts \in Nat \ {0}
    /\ AttemptCap \in Nat
    /\ MaxAttempts <= AttemptCap
    /\ StaleAfter \in Nat \ {0}
    /\ Minute \in Nat \ {0}

VARIABLES status, attempts, wait, age, created

table == <<status, attempts, wait, age, created>>

Statuses == {"absent", "pending", "processing", "done", "failed"}

TableTypeOK ==
    /\ status \in [Jobs -> Statuses]
    /\ attempts \in [Jobs -> 0..AttemptCap]
    /\ wait \in [Jobs -> Nat]
    /\ age \in [Jobs -> 0..(StaleAfter + 1)]
    /\ created \in [Jobs -> Nat]

TableInit ==
    /\ status = [j \in Jobs |-> "absent"]
    /\ attempts = [j \in Jobs |-> 0]
    /\ wait = [j \in Jobs |-> 0]
    /\ age = [j \in Jobs |-> 0]
    /\ created = [j \in Jobs |-> 0]

Rows == {j \in Jobs : status[j] # "absent"}

-----------------------------------------------------------------------------
\* Faulty variant: an upsert without ignoreDuplicates.
EnqueueHotelsOverwriting(page) ==
    /\ status' = [j \in Jobs |-> IF j \in page THEN "pending" ELSE status[j]]
    /\ UNCHANGED <<attempts, wait, age, created>>

(***************************************************************************)
(* enqueueHotels: one upsert with ignoreDuplicates.  A key that already    *)
(* has a row, whatever its status, keeps that row untouched.               *)
(***************************************************************************)
EnqueueHotels(page) ==
    LET new == page \ Rows
    IN  /\ status' = [j \in Jobs |-> IF j \in new THEN "pending" ELSE status[j]]
        /\ created' = [j \in Jobs |-> IF j \in new THEN Cardinality(Rows)
                                                   ELSE created[j]]
        /\ UNCHANGED <<attempts, wait, age>>

\* Faulty variant: crashed invocations are not reclaimed.
ClaimableNoReclaim == {j \in Jobs : status[j] = "pending" /\ wait[j] = 0}

\* Faulty variant: the reclaim interval is shorter than an invocation.
ClaimableEarly ==
    {j \in Jobs : \/ status[j] = "pending" /\ wait[j] = 0
                  \/ status[j] = "processing" /\ age[j] > 0}

\* Rows a worker may claim: due, or left processing by a crashed invocation.
Claimable ==
    {j \in Jobs : \/ status[j] = "pending" /\ wait[j] = 0
                  \/ status[j] = "processing" /\ age[j] > StaleAfter}

\* least(greatest(p_limit, 1), 50)
RowLimit(limit) == IF limit < 1 THEN 1 ELSE IF limit > 50 THEN 50 ELSE limit

(***************************************************************************)
(* The sets of rows one call of claim_ingestion_jobs may lock: the oldest  *)
(* claimable ones, as many as the limit allows, ties in any order.  SKIP   *)
(* LOCKED makes concurrent calls equivalent to calls one after another.    *)
(***************************************************************************)
ClaimBatches(limit) ==
    {S \in SUBSET Claimable :
        /\ Cardinality(S) = IF Cardinality(Claimable) < RowLimit(limit)
                            THEN Cardinality(Claimable) ELSE RowLimit(limit)
        /\ \A j \in S, k \in Claimable \ S : created[j] <= created[k]}

OneMore(a) == IF a < AttemptCap THEN a + 1 ELSE a

\* Faulty variant: a reclaimed row keeps its first started_at.
ClaimJobsKeepingStart(S) ==
    /\ status' = [j \in Jobs |-> IF j \in S THEN "processing" ELSE status[j]]
    /\ attempts' = [j \in Jobs |-> IF j \in S THEN OneMore(attempts[j])
                                              ELSE attempts[j]]
    /\ UNCHANGED <<age, wait, created>>

\* The claimed rows start processing now, each with one more attempt.
ClaimJobs(S) ==
    /\ status' = [j \in Jobs |-> IF j \in S THEN "processing" ELSE status[j]]
    /\ age' = [j \in Jobs |-> IF j \in S THEN 0 ELSE age[j]]
    /\ attempts' = [j \in Jobs |-> IF j \in S THEN OneMore(attempts[j])
                                              ELSE attempts[j]]
    /\ UNCHANGED <<wait, created>>

\* completeJob: an update by id, whatever the row's status or owner
CompleteJob(j) ==
    /\ status' = [status EXCEPT ![j] = "done"]
    /\ age' = [age EXCEPT ![j] = 0]
    /\ UNCHANGED <<attempts, wait, created>>

Backoff(a) == 2^a * Minute

(***************************************************************************)
(* failJob: decided by the caller's copy a of the attempts, and again an   *)
(* update by id alone.                                                     *)
(***************************************************************************)
FailJob(j, a) ==
    /\ status' = [status EXCEPT ![j] =
                     IF a >= MaxAttempts THEN "failed" ELSE "pending"]
    /\ wait' = [wait EXCEPT ![j] = IF a >= MaxAttempts THEN 0 ELSE Backoff(a)]
    /\ age' = [age EXCEPT ![j] = 0]
    /\ UNCHANGED <<attempts, created>>

\* now() advances by one tick
PassTime ==
    /\ wait' = [j \in Jobs |-> IF wait[j] > 0 THEN wait[j] - 1 ELSE 0]
    /\ age' = [j \in Jobs |-> IF status[j] = "processing" /\ age[j] <= StaleAfter
                              THEN age[j] + 1 ELSE age[j]]
    /\ UNCHANGED <<status, attempts, created>>
=============================================================================
