----------------------- MODULE IngestionWorkerProofs -----------------------
(***************************************************************************)
(* Type correctness of IngestionWorker, and, for invocations that are      *)
(* shorter than the reclaim interval, its safety properties.               *)
(***************************************************************************)
EXTENDS IngestionWorker, FiniteSetTheorems, TLAPS

-----------------------------------------------------------------------------
(***************************************************************************)
(* The operators of the queue.                                             *)
(***************************************************************************)

\* A power of two is a number: the cardinality of a set of subsets.
LEMMA PowerOfTwo ==
    ASSUME NEW a \in Nat
    PROVE  2^a \in Nat
<1>1. IsFiniteSet(1..a) /\ Cardinality(1..a) = a
  BY FS_Interval
<1>2. IsFiniteSet(SUBSET (1..a)) /\ Cardinality(SUBSET (1..a)) = 2^a
  BY <1>1, FS_SUBSET
<1> QED
  BY <1>2, FS_CardinalityType

LEMMA BackoffType ==
    ASSUME NEW a \in Nat
    PROVE  Backoff(a) \in Nat
<1>1. Minute \in Nat
  BY QueueAssumption
<1> QED
  BY <1>1, PowerOfTwo DEF Backoff

\* A claimed job has been attempted at least once.
LEMMA OneMoreType ==
    ASSUME NEW a \in 0..AttemptCap
    PROVE  OneMore(a) \in 0..AttemptCap /\ OneMore(a) # 0
BY QueueAssumption DEF OneMore

LEMMA RowsType == Cardinality(Rows) \in Nat
<1>1. IsFiniteSet(Rows)
  BY QueueAssumption, FS_Subset DEF Rows
<1> QED
  BY <1>1, FS_CardinalityType

-----------------------------------------------------------------------------
(***************************************************************************)
(* Type correctness.                                                       *)
(***************************************************************************)

\* An invocation works on a job of its list.
Working == {"enriching", "completing", "failing", "halting"}
CurHeld == \A w \in Workers : phase[w] \in Working => cur[w] \in Held(w)

TypeInv == TypeOK /\ CurHeld

LEMMA TypeInit == Init => TypeInv
BY QueueAssumption, WorkerAssumption
   DEF Init, TableInit, TypeInv, TypeOK, TableTypeOK, CurHeld, Working, Held,
       Statuses, Phases, NoBatch

LEMMA ClaimJobsType ==
    ASSUME TableTypeOK, NEW S \in SUBSET Jobs, ClaimJobs(S)
    PROVE  TableTypeOK'
BY OneMoreType, QueueAssumption DEF TableTypeOK, ClaimJobs, Statuses

LEMMA CompleteJobType ==
    ASSUME TableTypeOK, NEW j \in Jobs, CompleteJob(j)
    PROVE  TableTypeOK'
BY QueueAssumption DEF TableTypeOK, CompleteJob, Statuses

LEMMA FailJobType ==
    ASSUME TableTypeOK, NEW j \in Jobs, NEW a \in Nat, FailJob(j, a)
    PROVE  TableTypeOK'
BY QueueAssumption, BackoffType DEF TableTypeOK, FailJob, Statuses

LEMMA EnqueueHotelsType ==
    ASSUME TableTypeOK, NEW P \in SUBSET Jobs, EnqueueHotels(P)
    PROVE  TableTypeOK'
BY RowsType DEF TableTypeOK, EnqueueHotels, Statuses

LEMMA PassTimeType ==
    ASSUME TableTypeOK, PassTime
    PROVE  TableTypeOK'
BY QueueAssumption DEF TableTypeOK, PassTime

LEMMA LeaveJobType ==
    ASSUME TypeInv, NEW w \in Workers, LeaveJob(w)
    PROVE  /\ phase' \in [Workers -> Phases]
           /\ batch' \in [Workers -> [Jobs -> 0..AttemptCap]]
           /\ cur' \in [Workers -> Jobs \cup {NoJob}]
           /\ elapsed' \in [Workers -> 0..MaxDuration]
           /\ CurHeld'
<1>1. Rest(w) \in [Jobs -> 0..AttemptCap]
  BY QueueAssumption DEF Rest, TypeInv, TypeOK
<1>2. 0 \in 0..MaxDuration
  BY WorkerAssumption
<1> QED
  BY <1>1, <1>2 DEF LeaveJob, TypeInv, TypeOK, Phases, CurHeld, Held, Working

\* A job of a list carries at least one attempt and is a job.
LEMMA CurType ==
    ASSUME TypeInv, NEW w \in Workers, phase[w] \in Working
    PROVE  cur[w] \in Jobs /\ batch[w][cur[w]] \in Nat
BY QueueAssumption DEF TypeInv, TypeOK, CurHeld, Held

LEMMA TypeStep == TypeInv /\ [Next]_vars => TypeInv'
<1> SUFFICES ASSUME TypeInv, [Next]_vars
             PROVE  TypeInv'
  OBVIOUS
<1> USE DEF TypeInv
<1>0. ASSUME UNCHANGED vars
      PROVE  TypeInv'
  BY <1>0 DEF vars, table, worker, history, TypeOK, TableTypeOK, CurHeld, Held
<1>1. ASSUME Enqueue
      PROVE  TypeInv'
  <2>1. TableTypeOK'
    BY <1>1, EnqueueHotelsType DEF Enqueue, TypeOK
  <2> QED
    BY <1>1, <2>1 DEF Enqueue, TypeOK, CurHeld, Held, worker, history
<1>2. ASSUME NEW w \in Workers, Claim(w)
      PROVE  TypeInv'
  <2>1. PICK S \in ClaimBatches(BatchSize) :
           /\ ClaimJobs(S)
           /\ batch' = [batch EXCEPT ![w] =
                           [j \in Jobs |-> IF j \in S THEN OneMore(attempts[j])
                                                      ELSE 0]]
    BY <1>2 DEF Claim
  <2>2. S \in SUBSET Jobs
    BY <2>1 DEF ClaimBatches, Claimable
  <2>3. TableTypeOK'
    BY <2>1, <2>2, ClaimJobsType DEF TypeOK
  <2>4. batch' \in [Workers -> [Jobs -> 0..AttemptCap]]
    BY <2>1, <2>2, OneMoreType, QueueAssumption DEF TypeOK, TableTypeOK
  <2>5. elapsed' \in [Workers -> 0..MaxDuration]
    BY <1>2, WorkerAssumption DEF Claim, TypeOK
  <2>6. CurHeld'
    BY <1>2, <2>1 DEF Claim, TypeOK, CurHeld, Held, Working
  <2> QED
    BY <1>2, <2>3, <2>4, <2>5, <2>6 DEF Claim, TypeOK, Phases, history
<1>3. ASSUME NEW w \in Workers, ClaimLost(w)
      PROVE  TypeInv'
  <2>1. PICK S \in ClaimBatches(BatchSize) : ClaimJobs(S)
    BY <1>3 DEF ClaimLost
  <2>2. TableTypeOK'
    BY <2>1, ClaimJobsType DEF TypeOK, ClaimBatches, Claimable
  <2> QED
    BY <1>3, <2>2, WorkerAssumption
       DEF ClaimLost, Fault, TypeOK, CurHeld, Held, worker, history
<1>4. ASSUME NEW w \in Workers, StartJob(w)
      PROVE  TypeInv'
  <2>1. PICK j \in Held(w) : /\ cur' = [cur EXCEPT ![w] = j]
                             /\ tries' = [tries EXCEPT ![j] = OneMore(@)]
    BY <1>4 DEF StartJob
  <2>2. j \in Jobs
    BY DEF Held
  <2>3. tries' \in [Jobs -> 0..AttemptCap]
    BY <2>1, <2>2, OneMoreType DEF TypeOK
  <2> QED
    BY <1>4, <2>1, <2>2, <2>3
       DEF StartJob, TypeOK, TableTypeOK, CurHeld, Held, Working, Phases, table
<1>5. ASSUME NEW w \in Workers,
             StoreHotel(w) \/ EnrichFails(w) \/ LimitReached(w)
      PROVE  TypeInv'
  <2>1. cur[w] \in Jobs
    BY <1>5, CurType DEF StoreHotel, EnrichFails, LimitReached, Working
  <2> QED
    BY <1>5, <2>1
       DEF StoreHotel, EnrichFails, LimitReached, TypeOK, TableTypeOK, CurHeld,
           Held, Working, Phases, table, history
<1>6. ASSUME NEW w \in Workers, Complete(w)
      PROVE  TypeInv'
  <2>1. TableTypeOK'
    BY <1>6, CurType, CompleteJobType DEF Complete, Working, TypeOK
  <2> QED
    BY <1>6, <2>1, LeaveJobType DEF Complete, TypeOK, history
<1>7. ASSUME NEW w \in Workers, CompleteFails(w)
      PROVE  TypeInv'
  <2>1. TableTypeOK'
    <3>1. CASE UNCHANGED table
      BY <3>1 DEF TypeOK, TableTypeOK, table
    <3>2. CASE CompleteJob(cur[w])
      BY <1>7, <3>2, CurType, CompleteJobType DEF CompleteFails, Working, TypeOK
    <3> QED
      BY <1>7, <3>1, <3>2 DEF CompleteFails
  <2> QED
    BY <1>7, <2>1 DEF CompleteFails, TypeOK, CurHeld, Held, Working, Phases, history
<1>8. ASSUME NEW w \in Workers, Fail(w)
      PROVE  TypeInv'
  <2>1. TableTypeOK'
    BY <1>8, CurType, FailJobType DEF Fail, Working, TypeOK
  <2> QED
    BY <1>8, <2>1, LeaveJobType DEF Fail, TypeOK, history
<1>9. ASSUME NEW w \in Workers, FailLost(w)
      PROVE  TypeInv'
  BY <1>9, LeaveJobType, WorkerAssumption
     DEF FailLost, Fault, TypeOK, TableTypeOK, table, history
<1>10. ASSUME NEW w \in Workers, Kill(w)
       PROVE  TypeInv'
  <2>1. NoBatch \in [Jobs -> 0..AttemptCap] /\ 0 \in 0..MaxDuration
    BY QueueAssumption, WorkerAssumption DEF NoBatch
  <2> QED
    BY <1>10, <2>1, WorkerAssumption
       DEF Kill, Fault, TypeOK, TableTypeOK, CurHeld, Held, Working, Phases,
           table, history
<1>11. ASSUME Tick
       PROVE  TypeInv'
  <2>1. TableTypeOK'
    BY <1>11, PassTimeType DEF Tick, TypeOK
  <2> QED
    BY <1>11, <2>1, WorkerAssumption DEF Tick, TypeOK, CurHeld, Held, history
<1> QED
  BY <1>0, <1>1, <1>2, <1>3, <1>4, <1>5, <1>6, <1>7, <1>8, <1>9, <1>10, <1>11
     DEF Next, Iterate

(***************************************************************************)
(* TypeCorrect: every state is well typed; in particular an invocation     *)
(* never outlasts MaxDuration and always works on a job of its own list.   *)
(***************************************************************************)
THEOREM TypeCorrect == Spec => []TypeOK
<1>1. Init => TypeInv
  BY TypeInit
<1>2. TypeInv /\ [Next]_vars => TypeInv'
  BY TypeStep
<1>3. TypeInv => TypeOK
  BY DEF TypeInv
<1> QED
  BY <1>1, <1>2, <1>3, PTL DEF Spec

-----------------------------------------------------------------------------
(***************************************************************************)
(* The inductive invariant.  A row that an invocation holds was claimed    *)
(* during that invocation: age[j] <= elapsed[w] <= MaxDuration.  When      *)
(* invocations are shorter than the reclaim interval the row is therefore  *)
(* not claimable, and that alone keeps the holder its only writer.         *)
(***************************************************************************)
ShortInvocations == MaxDuration <= StaleAfter

HeldInv ==
    /\ \A w \in Workers : phase[w] = "idle" => Held(w) = {}
    /\ \A w \in Workers : \A j \in Held(w) : age[j] <= elapsed[w]
    /\ HolderOwnsRow

EvidenceInv ==
    /\ SettledOnEvidence
    /\ \A w \in Workers : /\ phase[w] = "completing" => cur[w] \in stored
                          /\ phase[w] \in Working => tries[cur[w]] > 0

IInv == TypeInv /\ Exclusive /\ HeldInv /\ EvidenceInv

LEMMA InvInit == Init => IInv
<1>1. Init => TypeInv
  BY TypeInit
<1> QED
  BY <1>1 DEF Init, TableInit, IInv, Exclusive, HeldInv, HolderOwnsRow,
              EvidenceInv, SettledOnEvidence, Held, NoBatch, Working

\* What an invocation holds cannot be claimed by another one.
LEMMA HeldNotClaimable ==
    ASSUME ShortInvocations, IInv, NEW w \in Workers
    PROVE  Held(w) \cap Claimable = {}
<1> SUFFICES ASSUME NEW j \in Held(w), j \in Claimable
             PROVE  FALSE
  OBVIOUS
<1>1. status[j] \in {"processing", "done"} /\ age[j] <= elapsed[w]
  BY DEF IInv, HeldInv, HolderOwnsRow
<1>2. age[j] \in Nat /\ elapsed[w] \in 0..MaxDuration
  BY DEF IInv, TypeInv, TypeOK, TableTypeOK, Held
<1>3. age[j] > StaleAfter
  BY <1>1 DEF Claimable
<1> QED
  BY <1>1, <1>2, <1>3, QueueAssumption, WorkerAssumption DEF ShortInvocations

\* A settled row is not claimable either.
LEMMA SettledNotClaimable ==
    \A j \in Claimable : status[j] \in {"pending", "processing"}
BY DEF Claimable

(***************************************************************************)
(* At the end of an iteration only w's own list changes: it shrinks, and   *)
(* loses at least the current job.                                         *)
(***************************************************************************)
LEMMA LeaveJobHeld ==
    ASSUME TypeInv, NEW w \in Workers, LeaveJob(w)
    PROVE  /\ \A v \in Workers \ {w} :
                 /\ Held(v)' = Held(v)
                 /\ batch'[v] = batch[v]
                 /\ phase'[v] = phase[v]
                 /\ cur'[v] = cur[v]
                 /\ elapsed'[v] = elapsed[v]
           /\ Held(w)' \subseteq Held(w) \ {cur[w]}
           /\ \A j \in Held(w)' : /\ batch'[w][j] = batch[w][j]
                                  /\ elapsed'[w] = elapsed[w]
           /\ phase'[w] \in {"idle", "running"}
           /\ phase'[w] = "idle" => Held(w)' = {}
BY DEF TypeInv, TypeOK, LeaveJob, Rest, Held, NoBatch

(***************************************************************************)
(* A worker's actions keep the invariant.  The writes of completeJob and   *)
(* failJob touch no other invocation's rows because of Exclusive.          *)
(***************************************************************************)
LEMMA ClaimInv ==
    ASSUME ShortInvocations, IInv, NEW w \in Workers, Claim(w) \/ ClaimLost(w)
    PROVE  Exclusive' /\ HeldInv' /\ EvidenceInv'
<1> USE DEF IInv
<1>1. PICK S \in ClaimBatches(BatchSize) : ClaimJobs(S)
  BY DEF Claim, ClaimLost
<1>2. S \subseteq Claimable /\ S \subseteq Jobs
  BY <1>1 DEF ClaimBatches, Claimable
<1>3. \A v \in Workers : S \cap Held(v) = {}
  BY <1>2, HeldNotClaimable
<1>4. EvidenceInv'
  <2>1. \A j \in Jobs : status'[j] \in {"done", "failed"} => status'[j] = status[j]
    BY <1>1, <1>2 DEF ClaimJobs
  <2>2. SettledOnEvidence'
    BY <2>1 DEF EvidenceInv, SettledOnEvidence, Claim, ClaimLost, history
  <2> QED
    BY <2>2 DEF EvidenceInv, Claim, ClaimLost, history, worker, Working, TypeInv, TypeOK
<1>5. CASE ClaimLost(w)
  <2>1. \A v \in Workers : Held(v)' = Held(v)
    BY <1>5 DEF ClaimLost, worker, Held
  <2>2. HeldInv'
    BY <1>1, <1>2, <1>3, <1>5, <2>1
       DEF ClaimLost, ClaimJobs, worker, HeldInv, HolderOwnsRow, Held
  <2> QED
    BY <1>4, <2>1, <2>2 DEF Exclusive
<1>6. CASE Claim(w)
  <2>1. PICK R \in ClaimBatches(BatchSize) :
           /\ ClaimJobs(R)
           /\ batch' = [batch EXCEPT ![w] =
                           [j \in Jobs |-> IF j \in R THEN OneMore(attempts[j])
                                                      ELSE 0]]
    BY <1>6 DEF Claim
  <2>2. R \subseteq Claimable /\ R \subseteq Jobs
    BY <2>1 DEF ClaimBatches, Claimable
  <2>3. \A v \in Workers : R \cap Held(v) = {}
    BY <2>2, HeldNotClaimable
  <2>4. Held(w)' = R
    BY <2>1, <2>2, OneMoreType DEF Held, TypeInv, TypeOK, TableTypeOK
  <2>5. \A v \in Workers \ {w} : Held(v)' = Held(v) /\ batch'[v] = batch[v]
    BY <2>1 DEF Held, TypeInv, TypeOK
  <2>6. Exclusive'
    BY <2>3, <2>4, <2>5 DEF Exclusive
  <2>7. \A j \in R : /\ status'[j] = "processing"
                     /\ age'[j] = 0
                     /\ attempts'[j] = batch'[w][j]
    BY <2>1, <2>2 DEF ClaimJobs, TypeInv, TypeOK
  <2>8. \A j \in Jobs \ R : /\ status'[j] = status[j]
                            /\ age'[j] = age[j]
                            /\ attempts'[j] = attempts[j]
    BY <2>1 DEF ClaimJobs
  <2>9. /\ phase' = [phase EXCEPT ![w] = "running"]
        /\ elapsed' = [elapsed EXCEPT ![w] = 0]
        /\ cur' = cur
    BY <1>6 DEF Claim
  <2>10. \A v \in Workers \ {w} : \A j \in Held(v)' :
            /\ age'[j] <= elapsed'[v]
            /\ attempts'[j] = batch'[v][j]
            /\ \/ status'[j] = "processing"
               \/ status'[j] = "done" /\ phase'[v] = "failing" /\ cur'[v] = j
    BY <2>3, <2>5, <2>8, <2>9
       DEF HeldInv, HolderOwnsRow, Held, TypeInv, TypeOK
  <2>11. HeldInv'
    BY <2>4, <2>5, <2>7, <2>9, <2>10 DEF HeldInv, HolderOwnsRow, TypeInv, TypeOK
  <2> QED
    BY <1>4, <2>6, <2>11
<1> QED
  BY <1>5, <1>6

LEMMA EnrichInv ==
    ASSUME IInv, NEW w \in Workers,
           StartJob(w) \/ StoreHotel(w) \/ EnrichFails(w) \/ LimitReached(w)
    PROVE  Exclusive' /\ HeldInv' /\ EvidenceInv'
<1> USE DEF IInv
<1>1. UNCHANGED <<table, batch, elapsed>>
  BY DEF StartJob, StoreHotel, EnrichFails, LimitReached
<1>2. \A v \in Workers : Held(v)' = Held(v)
  BY <1>1 DEF Held
<1>3. Exclusive'
  BY <1>2 DEF Exclusive
<1>4. phase[w] \in {"running", "enriching"} /\ phase'[w] \notin {"idle", "running"}
  BY DEF StartJob, StoreHotel, EnrichFails, LimitReached, TypeInv, TypeOK
<1>5. \A v \in Workers \ {w} : phase'[v] = phase[v] /\ cur'[v] = cur[v]
  BY DEF StartJob, StoreHotel, EnrichFails, LimitReached, TypeInv, TypeOK
<1>6. HeldInv'
  BY <1>1, <1>2, <1>4, <1>5 DEF HeldInv, HolderOwnsRow, table
<1>7. stored \subseteq stored' /\ \A j \in Jobs : tries[j] > 0 => tries'[j] > 0
  BY OneMoreType DEF StartJob, StoreHotel, EnrichFails, LimitReached, history,
                     TypeInv, TypeOK, Held
<1>8. SettledOnEvidence'
  BY <1>1, <1>7 DEF EvidenceInv, SettledOnEvidence, table
<1>9. \A v \in Workers \ {w} : phase'[v] \in Working => tries'[cur'[v]] > 0
  BY <1>5, <1>7, CurType DEF EvidenceInv
<1>10. phase'[w] \in Working => tries'[cur'[w]] > 0
  <2>1. CASE StartJob(w)
    <3>1. PICK j \in Held(w) : /\ cur' = [cur EXCEPT ![w] = j]
                               /\ tries' = [tries EXCEPT ![j] = OneMore(@)]
      BY <2>1 DEF StartJob
    <3>2. tries'[j] = OneMore(tries[j]) /\ tries[j] \in 0..AttemptCap
      BY <3>1 DEF TypeInv, TypeOK, Held
    <3>3. tries'[j] \in 0..AttemptCap /\ tries'[j] # 0
      BY <3>2, OneMoreType
    <3> QED
      BY <3>1, <3>3, QueueAssumption DEF TypeInv, TypeOK
  <2>2. CASE ~StartJob(w)
    BY <1>4, <2>2 DEF StoreHotel, EnrichFails, LimitReached, history, EvidenceInv,
                      Working
  <2> QED
    BY <2>1, <2>2
<1>11. phase'[w] = "completing" => cur'[w] \in stored'
  BY DEF StartJob, StoreHotel, EnrichFails, LimitReached, TypeInv, TypeOK
<1> QED
  BY <1>3, <1>5, <1>6, <1>7, <1>8, <1>9, <1>10, <1>11 DEF EvidenceInv

LEMMA SettleInv ==
    ASSUME IInv, NEW w \in Workers, Complete(w) \/ Fail(w) \/ FailLost(w)
    PROVE  Exclusive' /\ HeldInv' /\ EvidenceInv'
<1> USE DEF IInv
<1>1. phase[w] \in Working /\ LeaveJob(w)
  BY DEF Complete, Fail, FailLost, Working
<1>2. PICK j \in Jobs : j = cur[w] /\ j \in Held(w)
  BY <1>1 DEF TypeInv, CurHeld, Held
<1>3. \A k \in Jobs \ {j} : /\ status'[k] = status[k]
                            /\ age'[k] = age[k]
                            /\ attempts'[k] = attempts[k]
  BY <1>2 DEF Complete, CompleteJob, Fail, FailJob, FailLost, table, TypeInv,
              TypeOK, TableTypeOK
<1>4. Exclusive'
  BY <1>1, LeaveJobHeld DEF Exclusive
<1>5. \A v \in Workers : j \notin Held(v)'
  BY <1>1, <1>2, LeaveJobHeld DEF Exclusive
<1>6. \A v \in Workers : \A k \in Held(v)' :
         /\ k \in Held(v)
         /\ k \in Jobs \ {j}
         /\ batch'[v][k] = batch[v][k]
         /\ elapsed'[v] = elapsed[v]
  BY <1>1, <1>5, LeaveJobHeld DEF Held
<1>7. \A v \in Workers : phase'[v] = "idle" => Held(v)' = {}
  BY <1>1, LeaveJobHeld DEF HeldInv
<1>8. \A v \in Workers \ {w} : phase'[v] = phase[v] /\ cur'[v] = cur[v]
  BY <1>1, LeaveJobHeld
<1>9. \A k \in Held(w)' : status[k] = "processing"
  BY <1>2, <1>6 DEF HeldInv, HolderOwnsRow
<1>10. HolderOwnsRow'
  BY <1>3, <1>6, <1>8, <1>9 DEF HeldInv, HolderOwnsRow
<1>11. HeldInv'
  BY <1>3, <1>6, <1>7, <1>10 DEF HeldInv
<1>12. UNCHANGED history
  BY DEF Complete, Fail, FailLost
<1>13. phase'[w] \in {"idle", "running"}
  BY <1>1, LeaveJobHeld
<1>14. /\ status'[j] = "done" => status[j] = "done" \/ phase[w] = "completing"
       /\ status'[j] = "failed" => tries[j] > 0
  <2>1. CASE Complete(w)
    BY <1>2, <2>1 DEF Complete, CompleteJob, TypeInv, TypeOK, TableTypeOK
  <2>2. CASE Fail(w) \/ FailLost(w)
    BY <1>1, <1>2, <2>2 DEF Fail, FailJob, FailLost, table, EvidenceInv,
                           SettledOnEvidence, TypeInv, TypeOK, TableTypeOK
  <2> QED
    BY <2>1, <2>2
<1>15. EvidenceInv'
  BY <1>2, <1>3, <1>8, <1>12, <1>13, <1>14
     DEF EvidenceInv, SettledOnEvidence, history, Working
<1> QED
  BY <1>4, <1>11, <1>15

LEMMA CompleteFailsInv ==
    ASSUME IInv, NEW w \in Workers, CompleteFails(w)
    PROVE  Exclusive' /\ HeldInv' /\ EvidenceInv'
<1> USE DEF IInv
<1>1. PICK j \in Jobs : j = cur[w] /\ j \in Held(w)
  BY DEF CompleteFails, TypeInv, CurHeld, Held, Working
<1>2. /\ phase[w] = "completing"
      /\ phase' = [phase EXCEPT ![w] = "failing"]
      /\ UNCHANGED <<batch, cur, elapsed, history>>
      /\ \A v \in Workers : Held(v)' = Held(v)
  BY DEF CompleteFails, Held
<1>3. /\ \A k \in Jobs \ {j} : status'[k] = status[k] /\ age'[k] = age[k]
      /\ status'[j] \in {status[j], "done"}
      /\ age'[j] \in {age[j], 0}
      /\ attempts' = attempts
  BY <1>1 DEF CompleteFails, CompleteJob, table, TypeInv, TypeOK, TableTypeOK
<1>4. Exclusive'
  BY <1>2 DEF Exclusive
<1>5. \A v \in Workers \ {w} : j \notin Held(v)
  BY <1>1 DEF Exclusive
<1>6. HolderOwnsRow'
  <2>1. \A k \in Held(w) : status[k] = "processing"
    BY <1>2 DEF HeldInv, HolderOwnsRow
  <2>2. \A k \in Held(w) :
           /\ attempts'[k] = batch'[w][k]
           /\ \/ status'[k] = "processing"
              \/ status'[k] = "done" /\ phase'[w] = "failing" /\ cur'[w] = k
    BY <1>1, <1>2, <1>3, <2>1 DEF HeldInv, HolderOwnsRow, Held, TypeInv, TypeOK
  <2>3. \A v \in Workers \ {w} : \A k \in Held(v) :
           /\ attempts'[k] = batch'[v][k]
           /\ \/ status'[k] = "processing"
              \/ status'[k] = "done" /\ phase'[v] = "failing" /\ cur'[v] = k
    BY <1>2, <1>3, <1>5 DEF HeldInv, HolderOwnsRow, Held, TypeInv, TypeOK
  <2> QED
    BY <1>2, <2>2, <2>3 DEF HolderOwnsRow
<1>7. \A v \in Workers : elapsed[v] >= 0
  BY WorkerAssumption DEF TypeInv, TypeOK
<1>8. HeldInv'
  BY <1>2, <1>3, <1>6, <1>7 DEF HeldInv, Held, TypeInv, TypeOK
<1>9. EvidenceInv'
  BY <1>1, <1>2, <1>3
     DEF EvidenceInv, SettledOnEvidence, history, Working, TypeInv, TypeOK
<1> QED
  BY <1>4, <1>8, <1>9

LEMMA KillInv ==
    ASSUME IInv, NEW w \in Workers, Kill(w)
    PROVE  Exclusive' /\ HeldInv' /\ EvidenceInv'
<1> USE DEF IInv
<1>1. Held(w)' = {} /\ \A v \in Workers \ {w} : Held(v)' = Held(v)
  BY DEF Kill, Held, NoBatch, TypeInv, TypeOK
<1>2. Exclusive'
  BY <1>1 DEF Exclusive
<1>3. HeldInv'
  BY <1>1 DEF Kill, table, HeldInv, HolderOwnsRow, TypeInv, TypeOK
<1>4. EvidenceInv'
  BY DEF Kill, table, history, EvidenceInv, SettledOnEvidence, Working, TypeInv,
         TypeOK
<1> QED
  BY <1>2, <1>3, <1>4

LEMMA TickInv ==
    ASSUME IInv, Tick
    PROVE  Exclusive' /\ HeldInv' /\ EvidenceInv'
<1> USE DEF IInv
<1>1. UNCHANGED <<status, attempts, phase, batch, cur, history>>
  BY DEF Tick, PassTime
<1>2. \A v \in Workers : Held(v)' = Held(v)
  BY <1>1 DEF Held
<1>3. \A w \in Workers : \A j \in Held(w) : age'[j] <= elapsed'[w]
  <2> SUFFICES ASSUME NEW w \in Workers, NEW j \in Held(w)
               PROVE  age'[j] <= elapsed'[w]
    OBVIOUS
  <2>1. age[j] \in Nat /\ elapsed[w] \in Nat /\ age[j] <= elapsed[w]
    BY WorkerAssumption DEF HeldInv, TypeInv, TypeOK, TableTypeOK, Held
  <2>2. age'[j] \in {age[j], age[j] + 1}
    BY DEF Tick, PassTime, Held
  <2>3. elapsed'[w] = elapsed[w] + 1
    BY DEF Tick, HeldInv
  <2> QED
    BY <2>1, <2>2, <2>3
<1>4. HeldInv'
  BY <1>1, <1>2, <1>3 DEF HeldInv, HolderOwnsRow
<1>5. Exclusive' /\ EvidenceInv'
  BY <1>1, <1>2 DEF Exclusive, EvidenceInv, SettledOnEvidence, history
<1> QED
  BY <1>4, <1>5

LEMMA EnqueueInv ==
    ASSUME IInv, Enqueue
    PROVE  Exclusive' /\ HeldInv' /\ EvidenceInv'
<1> USE DEF IInv
<1>1. PICK P \in SUBSET Jobs : EnqueueHotels(P)
  BY DEF Enqueue
<1>2. UNCHANGED <<attempts, age, worker, history>>
  BY <1>1 DEF Enqueue, EnqueueHotels
<1>3. \A v \in Workers : Held(v)' = Held(v)
  BY <1>2 DEF Held, worker
<1>4. \A j \in Jobs : \/ status'[j] = status[j]
                      \/ status[j] = "absent" /\ status'[j] = "pending"
  BY <1>1 DEF EnqueueHotels, Rows
<1>5. HeldInv'
  BY <1>2, <1>3, <1>4 DEF HeldInv, HolderOwnsRow, worker, Held
<1>6. Exclusive' /\ EvidenceInv'
  BY <1>2, <1>3, <1>4 DEF Exclusive, EvidenceInv, SettledOnEvidence, worker, history
<1> QED
  BY <1>5, <1>6

LEMMA InvStep ==
    ASSUME ShortInvocations
    PROVE  IInv /\ [Next]_vars => IInv'
<1> SUFFICES ASSUME IInv, [Next]_vars
             PROVE  IInv'
  OBVIOUS
<1>1. TypeInv'
  BY TypeStep DEF IInv
<1>2. CASE UNCHANGED vars
  BY <1>1, <1>2 DEF IInv, vars, table, worker, history, Exclusive, HeldInv,
                    HolderOwnsRow, EvidenceInv, SettledOnEvidence, Held
<1>3. CASE Next
  BY <1>1, <1>3, EnqueueInv, ClaimInv, EnrichInv, SettleInv, CompleteFailsInv,
     KillInv, TickInv
     DEF IInv, Next, Iterate
<1> QED
  BY <1>2, <1>3

LEMMA Invariance == ShortInvocations => (Spec => []IInv)
<1> SUFFICES ASSUME ShortInvocations
             PROVE  Spec => []IInv
  OBVIOUS
<1>1. Init => IInv
  BY InvInit
<1>2. IInv /\ [Next]_vars => IInv'
  BY InvStep
<1> QED
  BY <1>1, <1>2, PTL DEF Spec

(***************************************************************************)
(* NoSharedJob: as long as no invocation outlasts the reclaim interval,    *)
(* no two invocations ever hold the same job.                              *)
(***************************************************************************)
THEOREM NoSharedJob == ShortInvocations => (Spec => []Exclusive)
<1>1. IInv => Exclusive
  BY DEF IInv
<1> QED
  BY <1>1, Invariance, PTL

(***************************************************************************)
(* HeldRowsAgree: what an invocation remembers of a job is what its row    *)
(* says, except after a completeJob whose reply was lost.                  *)
(***************************************************************************)
THEOREM HeldRowsAgree == ShortInvocations => (Spec => []HolderOwnsRow)
<1>1. IInv => HolderOwnsRow
  BY DEF IInv, HeldInv
<1> QED
  BY <1>1, Invariance, PTL

(***************************************************************************)
(* SettledByWork: done rows have a stored hotel and failed rows were       *)
(* tried, however the rows were claimed, dropped and reclaimed.            *)
(***************************************************************************)
THEOREM SettledByWork == ShortInvocations => (Spec => []SettledOnEvidence)
<1>1. IInv => SettledOnEvidence
  BY DEF IInv, EvidenceInv
<1> QED
  BY <1>1, Invariance, PTL

-----------------------------------------------------------------------------
(***************************************************************************)
(* Refinement: the worker implements LeaseQueue.                           *)
(***************************************************************************)

\* The abstract counterpart of the end of an iteration.
LEMMA LeaveJobReleases ==
    ASSUME IInv, NEW w \in Workers, LeaveJob(w), IInv',
           NEW j \in Jobs, j = cur[w], phase[w] \in Working,
           \A k \in Jobs \ {j} : status'[k] = status[k],
           status'[j] \in Statuses \ {"absent"}
    PROVE  [Lease!Next]_(Lease!vars)
<1> DEFINE R == Held(w) \ Held(w)'
           D == {k \in R : status'[k] = "done"}
           F == {k \in R : status'[k] = "failed"}
<1>1. /\ Held(w)' = Held(w) \ R
      /\ \A v \in Workers \ {w} : Held(v)' = Held(v)
      /\ R \subseteq Held(w)
  BY LeaveJobHeld DEF IInv
<1>2. j \in R
  BY LeaveJobHeld DEF IInv, TypeInv, CurHeld
<1>3. \A v \in Workers \ {w} : R \cap Held(v) = {}
  BY <1>1 DEF IInv, Exclusive
<1>4. HeldByAny' = HeldByAny \ R
  BY <1>1, <1>3 DEF HeldByAny
<1>5. R \subseteq HeldByAny /\ R \subseteq Jobs
  BY <1>1 DEF HeldByAny, Held
<1>6. \A k \in R : status'[k] \in Statuses \ {"absent"}
  <2>1. \A k \in R \ {j} : status'[k] = status[k] /\ status[k] \in {"processing", "done"}
    BY <1>1, <1>5 DEF IInv, HeldInv, HolderOwnsRow
  <2> QED
    BY <2>1 DEF Statuses
<1>7. \A k \in Jobs \ R : status'[k] = status[k]
  BY <1>2
<1>8. Unheld({"pending", "processing"})' =
         Unheld({"pending", "processing"}) \cup (R \ (D \cup F))
  BY <1>4, <1>5, <1>6, <1>7 DEF Unheld, Statuses
<1>9. /\ Unheld({"done"})' = Unheld({"done"}) \cup D
      /\ Unheld({"failed"})' = Unheld({"failed"}) \cup F
  BY <1>4, <1>5, <1>7 DEF Unheld
<1>10. [v \in Workers |-> Held(v)]' =
          [[v \in Workers |-> Held(v)] EXCEPT ![w] = @ \ R]
  BY <1>1
<1>11. Lease!Release(w, R, D, F)
  BY <1>8, <1>9, <1>10 DEF Lease!Release
<1>12. R \in SUBSET [v \in Workers |-> Held(v)][w] /\ D \in SUBSET R /\ F \in SUBSET R
  BY <1>1
<1> QED
  BY <1>11, <1>12 DEF Lease!Next

\* Steps that leave the lists alone and move unheld rows only among the
\* statuses the abstract queue does not tell apart.
LEMMA LeaseStutter ==
    ASSUME UNCHANGED batch,
           \A j \in Jobs \ HeldByAny :
              \/ status'[j] = status[j]
              \/ {status[j], status'[j]} \subseteq {"pending", "processing"}
    PROVE  UNCHANGED Lease!vars
<1>1. HeldByAny' = HeldByAny /\ \A w \in Workers : Held(w)' = Held(w)
  BY DEF HeldByAny, Held
<1>2. \A j \in Jobs \ HeldByAny :
         /\ status'[j] \in {"pending", "processing"}
               <=> status[j] \in {"pending", "processing"}
         /\ status'[j] = "done" <=> status[j] = "done"
         /\ status'[j] = "failed" <=> status[j] = "failed"
  OBVIOUS
<1>3. /\ Unheld({"pending", "processing"})' = Unheld({"pending", "processing"})
      /\ Unheld({"done"})' = Unheld({"done"})
      /\ Unheld({"failed"})' = Unheld({"failed"})
  BY <1>1, <1>2 DEF Unheld
<1> QED
  BY <1>1, <1>3 DEF Lease!vars

LEMMA RefinedInit == Init => Lease!Init
<1> SUFFICES ASSUME Init
             PROVE  Lease!Init
  OBVIOUS
<1>1. \A w \in Workers : Held(w) = {}
  BY DEF Init, Held, NoBatch
<1>2. \A ss \in SUBSET (Statuses \ {"absent"}) : Unheld(ss) = {}
  BY DEF Init, TableInit, Unheld
<1> QED
  BY <1>1, <1>2 DEF Lease!Init, Statuses

LEMMA RefinedStep ==
    ASSUME ShortInvocations, IInv, [Next]_vars, IInv'
    PROVE  [Lease!Next]_(Lease!vars)
<1>1. CASE UNCHANGED vars
  <2>1. UNCHANGED <<batch, status>>
    BY <1>1 DEF vars, worker, table
  <2> QED
    BY <2>1, LeaseStutter
<1>2. CASE Enqueue
  <2>1. PICK P \in SUBSET Jobs : EnqueueHotels(P)
    BY <1>2 DEF Enqueue
  <2> DEFINE new == P \ Rows
  <2>2. /\ \A j \in new : status[j] = "absent" /\ status'[j] = "pending"
        /\ \A j \in Jobs \ new : status'[j] = status[j]
    BY <2>1 DEF EnqueueHotels, Rows
  <2>3. batch' = batch
    BY <1>2 DEF Enqueue, worker
  <2>4. HeldByAny' = HeldByAny /\ \A w \in Workers : Held(w)' = Held(w)
    BY <2>3 DEF HeldByAny, Held
  <2>5. new \cap HeldByAny = {}
    BY <2>2 DEF HeldByAny, IInv, HeldInv, HolderOwnsRow
  <2>6. Unheld({"pending", "processing"})' =
           Unheld({"pending", "processing"}) \cup new
    BY <2>2, <2>4, <2>5 DEF Unheld
  <2>7. /\ Unheld({"done"})' = Unheld({"done"})
        /\ Unheld({"failed"})' = Unheld({"failed"})
    BY <2>2, <2>4 DEF Unheld
  <2>8. new \cap (Unheld({"pending", "processing"}) \cup HeldByAny
                     \cup Unheld({"done"}) \cup Unheld({"failed"})) = {}
    BY <2>2, <2>5 DEF Unheld
  <2>9. Lease!Leased = HeldByAny
    BY DEF Lease!Leased, HeldByAny
  <2>10. Lease!Submit(new)
    BY <2>4, <2>6, <2>7, <2>8, <2>9 DEF Lease!Submit
  <2> QED
    BY <2>10 DEF Lease!Next
<1>3. ASSUME NEW w \in Workers, Claim(w)
      PROVE  [Lease!Next]_(Lease!vars)
  <2>1. PICK S \in ClaimBatches(BatchSize) :
           /\ ClaimJobs(S)
           /\ batch' = [batch EXCEPT ![w] =
                           [j \in Jobs |-> IF j \in S THEN OneMore(attempts[j])
                                                      ELSE 0]]
    BY <1>3 DEF Claim
  <2>2. S \subseteq Claimable /\ S \subseteq Jobs
    BY <2>1 DEF ClaimBatches, Claimable
  <2>3. S \cap HeldByAny = {}
    BY <2>2, HeldNotClaimable DEF HeldByAny
  <2>4. Held(w) = {}
    BY <1>3 DEF Claim, IInv, HeldInv
  <2>5. Held(w)' = S /\ \A v \in Workers \ {w} : Held(v)' = Held(v)
    BY <2>1, <2>2, OneMoreType DEF Held, IInv, TypeInv, TypeOK, TableTypeOK
  <2>6. HeldByAny' = HeldByAny \cup S
    BY <2>4, <2>5 DEF HeldByAny
  <2>7. /\ \A j \in S : status[j] \in {"pending", "processing"}
        /\ \A j \in S : status'[j] = "processing"
        /\ \A j \in Jobs \ S : status'[j] = status[j]
    BY <2>1, <2>2, SettledNotClaimable DEF ClaimJobs
  <2>8. Unheld({"pending", "processing"})' = Unheld({"pending", "processing"}) \ S
    BY <2>6, <2>7 DEF Unheld
  <2>9. /\ Unheld({"done"})' = Unheld({"done"})
        /\ Unheld({"failed"})' = Unheld({"failed"})
    BY <2>6, <2>7 DEF Unheld
  <2>10. S \subseteq Unheld({"pending", "processing"})
    BY <2>2, <2>3, <2>7 DEF Unheld
  <2>11. [v \in Workers |-> Held(v)]' = [[v \in Workers |-> Held(v)] EXCEPT ![w] = S]
    BY <2>5
  <2>12. Lease!Lease(w, S)
    BY <2>4, <2>8, <2>9, <2>10, <2>11 DEF Lease!Lease
  <2> QED
    BY <2>10, <2>12 DEF Lease!Next
<1>4. ASSUME NEW w \in Workers, ClaimLost(w)
      PROVE  [Lease!Next]_(Lease!vars)
  <2>1. PICK S \in ClaimBatches(BatchSize) : ClaimJobs(S)
    BY <1>4 DEF ClaimLost
  <2>2. \A j \in Jobs : \/ status'[j] = status[j]
                        \/ {status[j], status'[j]} \subseteq {"pending", "processing"}
    BY <2>1, SettledNotClaimable DEF ClaimBatches, ClaimJobs
  <2>3. batch' = batch
    BY <1>4 DEF ClaimLost, worker
  <2> QED
    BY <2>2, <2>3, LeaseStutter
<1>5. ASSUME NEW w \in Workers,
             StartJob(w) \/ StoreHotel(w) \/ EnrichFails(w) \/ LimitReached(w)
      PROVE  [Lease!Next]_(Lease!vars)
  <2>1. UNCHANGED <<batch, status>>
    BY <1>5 DEF StartJob, StoreHotel, EnrichFails, LimitReached, table
  <2> QED
    BY <2>1, LeaseStutter
<1>6. ASSUME NEW w \in Workers, Complete(w) \/ Fail(w) \/ FailLost(w)
      PROVE  [Lease!Next]_(Lease!vars)
  <2>1. LeaveJob(w) /\ phase[w] \in Working
    BY <1>6 DEF Complete, Fail, FailLost, Working
  <2>2. PICK j \in Jobs : j = cur[w] /\ j \in Held(w)
    BY <2>1 DEF IInv, TypeInv, CurHeld, Held
  <2>3. /\ \A k \in Jobs \ {j} : status'[k] = status[k]
        /\ status'[j] \in {status[j], "done", "failed", "pending"}
    BY <1>6, <2>2 DEF Complete, CompleteJob, Fail, FailJob, FailLost, table, IInv,
                      TypeInv, TypeOK, TableTypeOK
  <2>4. status[j] \in {"processing", "done"}
    BY <2>2 DEF IInv, HeldInv, HolderOwnsRow
  <2>5. status'[j] \in Statuses \ {"absent"}
    BY <2>3, <2>4 DEF Statuses
  <2> QED
    BY <2>1, <2>2, <2>3, <2>5, LeaveJobReleases
<1>7. ASSUME NEW w \in Workers, CompleteFails(w)
      PROVE  [Lease!Next]_(Lease!vars)
  <2>1. cur[w] \in HeldByAny /\ cur[w] \in Jobs
    BY <1>7 DEF CompleteFails, IInv, TypeInv, CurHeld, Working, HeldByAny, Held
  <2>2. \A k \in Jobs \ HeldByAny : status'[k] = status[k]
    BY <1>7, <2>1 DEF CompleteFails, CompleteJob, table, IInv, TypeInv, TypeOK,
                      TableTypeOK
  <2>3. batch' = batch
    BY <1>7 DEF CompleteFails
  <2> QED
    BY <2>2, <2>3, LeaseStutter
<1>8. ASSUME NEW w \in Workers, Kill(w)
      PROVE  [Lease!Next]_(Lease!vars)
  <2> DEFINE R == Held(w)
             D == {k \in R : status[k] = "done"}
             F == {k \in R : status[k] = "failed"}
  <2>1. status' = status
    BY <1>8 DEF Kill, table
  <2>2. Held(w)' = {} /\ \A v \in Workers \ {w} : Held(v)' = Held(v)
    BY <1>8 DEF Kill, Held, NoBatch, IInv, TypeInv, TypeOK
  <2>3. \A v \in Workers \ {w} : R \cap Held(v) = {}
    BY DEF IInv, Exclusive
  <2>4. HeldByAny' = HeldByAny \ R
    BY <2>2, <2>3 DEF HeldByAny
  <2>5. R \subseteq HeldByAny /\ R \subseteq Jobs
    BY DEF HeldByAny, Held
  <2>6. \A k \in R : status[k] \in {"processing", "done"}
    BY DEF IInv, HeldInv, HolderOwnsRow
  <2>7. Unheld({"pending", "processing"})' =
           Unheld({"pending", "processing"}) \cup (R \ (D \cup F))
    BY <2>1, <2>4, <2>5, <2>6 DEF Unheld
  <2>8. /\ Unheld({"done"})' = Unheld({"done"}) \cup D
        /\ Unheld({"failed"})' = Unheld({"failed"}) \cup F
    BY <2>1, <2>4, <2>5 DEF Unheld
  <2>9. [v \in Workers |-> Held(v)]' =
           [[v \in Workers |-> Held(v)] EXCEPT ![w] = @ \ R]
    BY <2>2
  <2>10. Lease!Release(w, R, D, F)
    BY <2>7, <2>8, <2>9 DEF Lease!Release
  <2>11. R \in SUBSET [v \in Workers |-> Held(v)][w] /\ D \in SUBSET R /\ F \in SUBSET R
    OBVIOUS
  <2> QED
    BY <2>10, <2>11 DEF Lease!Next
<1>9. CASE Tick
  <2>1. UNCHANGED <<batch, status>>
    BY <1>9 DEF Tick, PassTime
  <2> QED
    BY <2>1, LeaseStutter
<1> QED
  BY <1>1, <1>2, <1>3, <1>4, <1>5, <1>6, <1>7, <1>8, <1>9 DEF Next, Iterate

(***************************************************************************)
(* WorkersLeaseJobs: when invocations are shorter than the reclaim         *)
(* interval, queue.ts and its workers implement LeaseQueue: every job is   *)
(* queued, leased to one invocation, or settled for good.                  *)
(***************************************************************************)
THEOREM WorkersLeaseJobs == ShortInvocations => (Spec => ImplementsLeaseQueue)
<1> SUFFICES ASSUME ShortInvocations
             PROVE  Spec => ImplementsLeaseQueue
  OBVIOUS
<1>1. Init => Lease!Init
  BY RefinedInit
<1>2. IInv /\ IInv' /\ [Next]_vars => [Lease!Next]_(Lease!vars)
  BY RefinedStep
<1>3. Spec => []IInv
  BY Invariance
<1> QED
  BY <1>1, <1>2, <1>3, PTL DEF Spec, ImplementsLeaseQueue, Lease!Spec

-----------------------------------------------------------------------------
\* One step settles nothing anew: only Complete, CompleteFails and Fail write a
\* settled row, and only the holder takes them.
LEMMA SettledStep ==
    ASSUME ShortInvocations, IInv, [Next]_vars, NEW j \in Jobs
    PROVE  /\ status[j] = "failed" => status'[j] = "failed"
           /\ status[j] = "done" =>
                 \/ status'[j] = "done"
                 \/ \E w \in Workers : phase[w] = "failing" /\ cur[w] = j
<1> SUFFICES ASSUME status[j] \in {"done", "failed"}, status'[j] # status[j]
             PROVE  status[j] = "done"
                    /\ \E w \in Workers : phase[w] = "failing" /\ cur[w] = j
  OBVIOUS
<1> USE DEF IInv
<1>1. ASSUME NEW w \in Workers, Complete(w) \/ Fail(w) \/ CompleteFails(w)
      PROVE  status[j] = "done" /\ phase[w] = "failing" /\ cur[w] = j
  <2>1. j = cur[w]
    BY <1>1 DEF Complete, CompleteJob, Fail, FailJob, CompleteFails, table, TypeInv,
                TypeOK, TableTypeOK
  <2>2. j \in Held(w)
    BY <1>1, <2>1 DEF Complete, Fail, CompleteFails, TypeInv, CurHeld, Working
  <2> QED
    BY <2>1, <2>2 DEF HeldInv, HolderOwnsRow
<1>2. j \notin Claimable
  BY SettledNotClaimable
<1>3. ~UNCHANGED status
  OBVIOUS
<1>4. ~Enqueue
  BY DEF Enqueue, EnqueueHotels, Rows
<1>5. \A w \in Workers : ~Claim(w) /\ ~ClaimLost(w)
  BY <1>2 DEF Claim, ClaimLost, ClaimBatches, ClaimJobs
<1>6. \A w \in Workers : /\ ~StartJob(w) /\ ~StoreHotel(w) /\ ~EnrichFails(w)
                         /\ ~LimitReached(w) /\ ~FailLost(w) /\ ~Kill(w)
  BY <1>3 DEF StartJob, StoreHotel, EnrichFails, LimitReached, FailLost, Kill, table
<1>7. ~Tick /\ ~UNCHANGED vars
  BY <1>3 DEF Tick, PassTime, vars, table
<1> QED
  BY <1>1, <1>4, <1>5, <1>6, <1>7 DEF Next, Iterate

(***************************************************************************)
(* SettledRowsStay: a failed row is final, and only the invocation that    *)
(* completed a job and lost the reply reopens its done row.                *)
(***************************************************************************)
THEOREM SettledRowsStay == ShortInvocations => (Spec => SettledStays)
<1> SUFFICES ASSUME ShortInvocations
             PROVE  Spec => SettledStays
  OBVIOUS
<1>1. Spec => []IInv
  BY Invariance
<1>2. IInv /\ [Next]_vars =>
        [\A j \in Jobs :
            /\ status[j] = "failed" => status'[j] = "failed"
            /\ status[j] = "done" =>
                  \/ status'[j] = "done"
                  \/ \E w \in Workers : phase[w] = "failing" /\ cur[w] = j]_vars
  BY SettledStep
<1> QED
  BY <1>1, <1>2, PTL DEF Spec, SettledStays
=============================================================================
