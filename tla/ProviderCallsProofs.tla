------------------------- MODULE ProviderCallsProofs -------------------------
(***************************************************************************)
(* Type correctness of ProviderCalls, the bounds on the DataForSEO spend   *)
(* and on the NVIDIA counter, the consistency of the circuit breakers and  *)
(* the account of the requests sent.                                       *)
(***************************************************************************)
EXTENDS ProviderCalls, FiniteSetTheorems, TLAPS

LEMMA LimitType == Limit \in Nat
<1>1. SoftGate \in Nat
  BY ProviderAssumption DEF SoftGate
<1>2. BlockAt \in Nat
  BY <1>1, ProviderAssumption DEF BlockAt, AtLeastWarn
<1> QED
  BY <1>2, ProviderAssumption DEF Limit

\* A behaviour is about one provider.
LEMMA ProviderStays ==
    ASSUME [Next]_vars
    PROVE  provider' = provider /\ Limit' = Limit
<1>1. provider' = provider
  BY DEF Next, Step, DecideOnCache, AskUsage, ReadUsage, ReadFails, DecideOnReply,
         Retry, Succeed, GiveUp, Record, Recorded, RecordFails, Kill, Tick, usage, vars
<1> QED
  BY <1>1 DEF Limit

LEMMA TypeInit == Init => TypeOK
BY ProviderAssumption DEF Init, TypeOK, Phases

\* What the gate and the breaker do to a call is well typed.
LEMMA DecideType ==
    ASSUME TypeOK, NEW c \in Calls, NEW used \in Nat, Decide(c, used)
    PROVE  /\ phase' \in [Calls -> Phases]
           /\ seen' \in [Calls -> Nat]
           /\ attempt' \in [Calls -> 0..Attempts]
           /\ outcome' \in [Calls -> {"none", "success", "failure"}]
           /\ failures' \in [Instances -> Nat]
           /\ circuit' \in [Instances -> {"closed", "open"}]
           /\ cool' \in [Instances -> 0..Cooldown]
           /\ sent' \in 0..SentCap
           /\ lost' \in Nat
<1>1. CASE Refuse(c) \/ Reject(c)
  BY <1>1 DEF Refuse, Reject, TypeOK, Phases, breaker, history
<1>2. CASE LetThrough(c)
  <2>1. Threshold - 1 \in Nat /\ 1 \in 0..Attempts /\ Home[c] \in Instances
    BY ProviderAssumption
  <2>2. sent' \in 0..SentCap
    BY <1>2, ProviderAssumption DEF LetThrough, OneMoreSent, TypeOK
  <2> QED
    BY <1>2, <2>1, <2>2 DEF LetThrough, TypeOK, Phases
<1> QED
  BY <1>1, <1>2 DEF Decide

LEMMA TypeStep == TypeOK /\ [Next]_vars => TypeOK'
<1> SUFFICES ASSUME TypeOK, [Next]_vars
             PROVE  TypeOK'
  OBVIOUS
<1> USE DEF TypeOK
<1>0. CASE UNCHANGED vars
  BY <1>0 DEF vars, usage, cache, call, breaker, history
<1>1. ASSUME NEW c \in Calls, DecideOnCache(c)
      PROVE  TypeOK'
  <2>1. cacheVal[Home[c]] \in Nat
    BY ProviderAssumption
  <2> QED
    BY <1>1, <2>1, DecideType DEF DecideOnCache, usage, cache
<1>2. ASSUME NEW c \in Calls, AskUsage(c) \/ ReadUsage(c) \/ ReadFails(c)
      PROVE  TypeOK'
  BY <1>2 DEF AskUsage, ReadUsage, ReadFails, usage, cache, breaker, history, Phases
<1>3. ASSUME NEW c \in Calls, DecideOnReply(c)
      PROVE  TypeOK'
  <2>1. CacheTtl \in 0..CacheTtl /\ seen[c] \in Nat
    BY ProviderAssumption
  <2>2. cacheVal' \in [Instances -> Nat] /\ cacheLeft' \in [Instances -> 0..CacheTtl]
    BY <1>3, <2>1 DEF DecideOnReply, cache
  <2> QED
    BY <1>3, <2>1, <2>2, DecideType DEF DecideOnReply, usage
<1>4. ASSUME NEW c \in Calls, Retry(c)
      PROVE  TypeOK'
  <2>1. attempt' \in [Calls -> 0..Attempts]
    BY <1>4, ProviderAssumption DEF Retry
  <2>2. sent' \in 0..SentCap
    BY <1>4, ProviderAssumption DEF Retry, OneMoreSent
  <2> QED
    BY <1>4, <2>1, <2>2 DEF Retry, usage, cache, breaker
<1>5. ASSUME NEW c \in Calls, Succeed(c)
      PROVE  TypeOK'
  <2>1. 0 \in 0..Attempts /\ Home[c] \in Instances
    BY ProviderAssumption
  <2>2. failures' \in [Instances -> Nat]
    BY <1>5, <2>1 DEF Succeed
  <2> QED
    BY <1>5, <2>1, <2>2 DEF Succeed, usage, cache, history, Phases
<1>6. ASSUME NEW c \in Calls, GiveUp(c)
      PROVE  TypeOK'
  <2>1. Cooldown \in 0..Cooldown /\ 0 \in 0..Attempts
    BY ProviderAssumption
  <2>2. circuit' \in [Instances -> {"closed", "open"}]
    BY <1>6 DEF GiveUp
  <2>3. cool' \in [Instances -> 0..Cooldown]
    BY <1>6, <2>1 DEF GiveUp
  <2> QED
    BY <1>6, <2>1, <2>2, <2>3 DEF GiveUp, usage, cache, history, Phases
<1>7. ASSUME NEW c \in Calls, Record(c) \/ Recorded(c)
      PROVE  TypeOK'
  BY <1>7, ProviderAssumption
     DEF Record, Recorded, Charge, usage, cache, breaker, history, Phases
<1>8. ASSUME NEW c \in Calls, RecordFails(c)
      PROVE  TypeOK'
  BY <1>8, ProviderAssumption DEF RecordFails, Fault, usage, cache, breaker, Phases
<1>9. ASSUME NEW i \in Instances, Kill(i)
      PROVE  TypeOK'
  <2> DEFINE unrecorded == {c \in On(i) : phase[c] \in {"calling", "recording"}}
  <2>1. IsFiniteSet(unrecorded)
    BY ProviderAssumption, FS_Subset DEF On
  <2>2. Cardinality(unrecorded) \in Nat
    BY <2>1, FS_CardinalityType
  <2>3. lost' = lost + Cardinality(unrecorded)
    BY <1>9 DEF Kill
  <2>4. lost' \in Nat
    BY <2>2, <2>3
  <2>5. /\ phase' \in [Calls -> Phases]
        /\ seen' \in [Calls -> Nat]
        /\ attempt' \in [Calls -> 0..Attempts]
        /\ outcome' \in [Calls -> {"none", "success", "failure"}]
    BY <1>9, ProviderAssumption DEF Kill, Phases
  <2>6. /\ cacheVal' \in [Instances -> Nat]
        /\ cacheLeft' \in [Instances -> 0..CacheTtl]
        /\ failures' \in [Instances -> Nat]
        /\ circuit' \in [Instances -> {"closed", "open"}]
        /\ cool' \in [Instances -> 0..Cooldown]
    BY <1>9, ProviderAssumption DEF Kill
  <2>7. faults' \in 0..MaxFaults /\ UNCHANGED <<usage, sent>>
    BY <1>9, ProviderAssumption DEF Kill, Fault
  <2> QED
    BY <2>4, <2>5, <2>6, <2>7 DEF usage
<1>10. CASE Tick
  BY <1>10, ProviderAssumption DEF Tick, usage, call, history
<1> QED
  BY <1>0, <1>1, <1>2, <1>3, <1>4, <1>5, <1>6, <1>7, <1>8, <1>9, <1>10
     DEF Next, Step

(***************************************************************************)
(* TypeCorrect: every state is well typed; in particular no call makes     *)
(* more than Attempts attempts.                                            *)
(***************************************************************************)
THEOREM TypeCorrect == Spec => []TypeOK
BY TypeInit, TypeStep, PTL DEF Spec

-----------------------------------------------------------------------------
(***************************************************************************)
(* The spend.  The sum recorded + Cardinality(Committed) grows only when a *)
(* select is evaluated below the limit, and then it is bounded by the      *)
(* counter just read and the number of callers.                            *)
(***************************************************************************)
LEMMA CommittedFinite ==
    /\ IsFiniteSet(Committed) /\ Cardinality(Committed) \in Nat
    /\ Cardinality(Committed) <= Cardinality(Calls)
    /\ Cardinality(Calls) \in Nat \ {0}
<1>1. IsFiniteSet(Calls) /\ Committed \subseteq Calls
  BY ProviderAssumption DEF Committed
<1>2. IsFiniteSet(Committed) /\ Cardinality(Committed) <= Cardinality(Calls)
  BY <1>1, FS_Subset
<1>3. Cardinality(Calls) # 0
  BY <1>1, ProviderAssumption, FS_EmptySet
<1> QED
  BY <1>1, <1>2, <1>3, FS_CardinalityType

\* As long as nothing is recorded, no caller joins Committed.
LEMMA FewerCommitted ==
    ASSUME TypeOK, TypeOK', SpendBound, provider' = provider,
           recorded' = recorded, Committed' \subseteq Committed
    PROVE  SpendBound'
<1>1. Cardinality(Committed') <= Cardinality(Committed) /\ Cardinality(Committed') \in Nat
  BY CommittedFinite, FS_Subset, FS_CardinalityType
<1>2. Limit' = Limit
  BY DEF Limit
<1> QED
  BY <1>1, <1>2, CommittedFinite, LimitType DEF SpendBound, TypeOK

LEMMA SpendStep ==
    ASSUME TypeOK, TypeOK', SpendBound, [Next]_vars
    PROVE  SpendBound'
<1> USE DEF TypeOK
<1>0. provider' = provider
  BY ProviderStays
<1>1. Limit' = Limit
  BY ProviderStays
<1>2. CASE UNCHANGED vars
  <2>1. Committed' = Committed /\ recorded' = recorded
    BY <1>1, <1>2 DEF vars, usage, call, Committed, Blocked
  <2> QED
    BY <1>0, <2>1, FewerCommitted
<1>3. ASSUME NEW c \in Calls, DecideOnCache(c)
      PROVE  SpendBound'
  <2>1. provider # "dataforseo"
    BY <1>3 DEF DecideOnCache, CacheHit, Cached
  <2> QED
    BY <1>0, <2>1 DEF SpendBound
<1>4. ASSUME NEW c \in Calls, ReadUsage(c)
      PROVE  SpendBound'
  <2>1. recorded' = recorded
    BY <1>4 DEF ReadUsage, usage
  <2>2. CASE Blocked(recorded)
    <3>1. Committed' \subseteq Committed
      BY <1>1, <1>4, <2>2 DEF ReadUsage, Committed, Blocked
    <3> QED
      BY <1>0, <2>1, <3>1, FewerCommitted
  <2>3. CASE ~Blocked(recorded)
    <3>1. recorded <= Limit - 1
      BY <2>3, LimitType DEF Blocked
    <3>2. /\ Cardinality(Committed') <= Cardinality(Calls)
          /\ Cardinality(Committed') \in Nat
          /\ Cardinality(Calls) \in Nat
      <4>1. IsFiniteSet(Calls) /\ Committed' \subseteq Calls
        BY ProviderAssumption DEF Committed
      <4> QED
        BY <4>1, FS_Subset, FS_CardinalityType
    <3> QED
      BY <1>1, <2>1, <3>1, <3>2, LimitType DEF SpendBound
  <2> QED
    BY <2>2, <2>3
<1>5. ASSUME NEW c \in Calls, DecideOnReply(c)
      PROVE  SpendBound'
  <2>1. /\ phase[c] = "answered"
        /\ recorded' = recorded
        /\ \A d \in Calls \ {c} : phase'[d] = phase[d] /\ seen'[d] = seen[d]
        /\ Blocked(seen[c]) => phase'[c] = "idle"
        /\ phase'[c] # "answered"
    BY <1>5 DEF DecideOnReply, Decide, Refuse, Reject, LetThrough, usage
  <2>2. Committed' \subseteq Committed
    BY <1>1, <2>1 DEF Committed, Blocked
  <2> QED
    BY <1>0, <2>1, <2>2, FewerCommitted
<1>6. ASSUME NEW c \in Calls, Record(c)
      PROVE  SpendBound'
  <2>1. recorded' \in {recorded, recorded + 1}
    BY <1>6 DEF Record, Charge
  <2>2. c \in Committed /\ Committed' = Committed \ {c}
    BY <1>1, <1>6 DEF Record, Committed, Blocked
  <2>3. Cardinality(Committed') = Cardinality(Committed) - 1
    BY <2>2, CommittedFinite, FS_RemoveElement
  <2> QED
    BY <1>0, <1>1, <2>1, <2>3, CommittedFinite, LimitType DEF SpendBound
<1>7. ASSUME NEW c \in Calls,
             \/ AskUsage(c) \/ ReadFails(c) \/ Retry(c) \/ Succeed(c)
             \/ GiveUp(c) \/ Recorded(c) \/ RecordFails(c)
      PROVE  SpendBound'
  <2>1. recorded' = recorded
    BY <1>7 DEF AskUsage, ReadFails, Retry, Succeed, GiveUp, Recorded, RecordFails, usage
  <2>2. /\ \A d \in Calls \ {c} : phase'[d] = phase[d]
        /\ seen' = seen
        /\ phase'[c] # "answered"
        /\ phase'[c] \in {"calling", "recording"} => phase[c] \in {"calling", "recording"}
    BY <1>7 DEF AskUsage, ReadFails, Retry, Succeed, GiveUp, Recorded, RecordFails
  <2>3. Committed' \subseteq Committed
    BY <1>1, <2>2 DEF Committed, Blocked
  <2> QED
    BY <1>0, <2>1, <2>3, FewerCommitted
<1>8. ASSUME NEW i \in Instances, Kill(i)
      PROVE  SpendBound'
  <2>1. /\ recorded' = recorded
        /\ \A d \in Calls : \/ phase'[d] = "idle"
                            \/ phase'[d] = phase[d] /\ seen'[d] = seen[d]
    BY <1>8 DEF Kill, usage
  <2>2. Committed' \subseteq Committed
    BY <1>1, <2>1 DEF Committed, Blocked
  <2> QED
    BY <1>0, <2>1, <2>2, FewerCommitted
<1>9. CASE Tick
  <2>1. Committed' = Committed /\ recorded' = recorded
    BY <1>1, <1>9 DEF Tick, usage, call, Committed, Blocked
  <2> QED
    BY <1>0, <2>1, FewerCommitted
<1> QED
  BY <1>2, <1>3, <1>4, <1>5, <1>6, <1>7, <1>8, <1>9 DEF Next, Step

(***************************************************************************)
(* SpendBounded: for any number of callers on any number of instances,     *)
(* whatever is killed, retried or left unrecorded, the recorded DataForSEO *)
(* spend exceeds the blocking threshold by less than one call per caller.  *)
(***************************************************************************)
THEOREM SpendBounded == Spec => []SpendBound
<1>1. Init => SpendBound
  <2> SUFFICES ASSUME Init
               PROVE  SpendBound
    OBVIOUS
  <2>1. Committed = {} /\ recorded = 0
    BY DEF Init, Committed
  <2>2. Cardinality({}) = 0
    BY FS_EmptySet
  <2> QED
    BY <2>1, <2>2, CommittedFinite, LimitType DEF SpendBound
<1>2. TypeOK /\ TypeOK' /\ SpendBound /\ [Next]_vars => SpendBound'
  BY SpendStep
<1> QED
  BY <1>1, <1>2, TypeCorrect, PTL DEF Spec

-----------------------------------------------------------------------------
(***************************************************************************)
(* BreakersConsistent: a breaker that lets calls through is below its      *)
(* failure threshold.                                                      *)
(***************************************************************************)
THEOREM BreakersConsistent == Spec => []ClosedBelowThreshold
<1>1. Init => ClosedBelowThreshold
  BY ProviderAssumption DEF Init, ClosedBelowThreshold
<1>2. TypeOK /\ ClosedBelowThreshold /\ [Next]_vars => ClosedBelowThreshold'
  <2> SUFFICES ASSUME TypeOK, ClosedBelowThreshold, [Next]_vars
               PROVE  ClosedBelowThreshold'
    OBVIOUS
  <2> USE DEF TypeOK, ClosedBelowThreshold
  <2>1. ASSUME UNCHANGED <<failures, circuit>>
        PROVE  ClosedBelowThreshold'
    BY <2>1
  <2>2. ASSUME NEW c \in Calls, LetThrough(c)
        PROVE  ClosedBelowThreshold'
    BY <2>2, ProviderAssumption DEF LetThrough
  <2>3. ASSUME NEW c \in Calls, DecideOnCache(c) \/ DecideOnReply(c)
        PROVE  ClosedBelowThreshold'
    BY <2>1, <2>2, <2>3
       DEF DecideOnCache, DecideOnReply, Decide, Refuse, Reject, breaker
  <2>4. ASSUME NEW c \in Calls, Succeed(c)
        PROVE  ClosedBelowThreshold'
    BY <2>4, ProviderAssumption DEF Succeed
  <2>5. ASSUME NEW c \in Calls, GiveUp(c)
        PROVE  ClosedBelowThreshold'
    <3>1. Home[c] \in Instances
      BY ProviderAssumption
    <3> QED
      BY <2>5, <3>1, ProviderAssumption DEF GiveUp
  <2>6. ASSUME NEW i \in Instances, Kill(i)
        PROVE  ClosedBelowThreshold'
    BY <2>6, ProviderAssumption DEF Kill
  <2>7. ASSUME NEW c \in Calls,
               \/ AskUsage(c) \/ ReadUsage(c) \/ ReadFails(c) \/ Retry(c)
               \/ Record(c) \/ Recorded(c) \/ RecordFails(c)
        PROVE  ClosedBelowThreshold'
    BY <2>1, <2>7
       DEF AskUsage, ReadUsage, ReadFails, Retry, Record, Recorded, RecordFails, breaker
  <2>8. CASE Tick \/ UNCHANGED vars
    BY <2>1, <2>8 DEF Tick, vars, breaker
  <2> QED
    BY <2>3, <2>4, <2>5, <2>6, <2>7, <2>8 DEF Next, Step
<1> QED
  BY <1>1, <1>2, TypeCorrect, PTL DEF Spec

-----------------------------------------------------------------------------
(***************************************************************************)
(* What was sent.  A call under way stands for all the attempts it may     *)
(* still make once it is recording; while it is calling, for those it has  *)
(* made.  Requests sent are covered by these and by Attempts for every     *)
(* call that was recorded or lost.                                         *)
(***************************************************************************)
Tries ==
    {t \in Calls \X (1..Attempts) :
        \/ phase[t[1]] = "recording"
        \/ phase[t[1]] = "calling" /\ t[2] <= attempt[t[1]]}
SentInv ==
    provider # "dataforseo" =>
        sent <= Attempts * (recorded + lost) + Cardinality(Tries)

\* The attempts of a finite set of calls.
LEMMA AttemptsOf ==
    ASSUME NEW C, IsFiniteSet(C)
    PROVE  /\ IsFiniteSet(C \X (1..Attempts))
           /\ Cardinality(C \X (1..Attempts)) = Cardinality(C) * Attempts
           /\ Cardinality(C) \in Nat
<1>1. IsFiniteSet(1..Attempts) /\ Cardinality(1..Attempts) = Attempts
  BY FS_Interval, ProviderAssumption
<1> QED
  BY <1>1, FS_Product, FS_CardinalityType

LEMMA TriesFinite == IsFiniteSet(Tries) /\ Cardinality(Tries) \in Nat
<1>1. IsFiniteSet(Calls) /\ Tries \subseteq Calls \X (1..Attempts)
  BY ProviderAssumption DEF Tries
<1> QED
  BY <1>1, AttemptsOf, FS_Subset, FS_CardinalityType

\* Multiplication by the number of attempts is monotonic.
LEMMA AttemptsTimes ==
    ASSUME NEW old \in Nat, NEW new \in Nat, NEW k \in Nat, new >= old + k
    PROVE  /\ Attempts * old \in Nat /\ Attempts * new \in Nat /\ k * Attempts \in Nat
           /\ Attempts * new >= Attempts * old + k * Attempts
<1>1. Attempts \in Nat
  BY ProviderAssumption
<1>2. PICK m \in Nat : new = old + k + m
  OBVIOUS
<1>3. Attempts * new = Attempts * old + Attempts * k + Attempts * m
  BY <1>1, <1>2
<1>4. /\ Attempts * m \in Nat /\ Attempts * k = k * Attempts /\ Attempts * k \in Nat
      /\ Attempts * old \in Nat /\ Attempts * new \in Nat
  BY <1>1, <1>2
<1> QED
  BY <1>3, <1>4

LEMMA SumOfNat == ASSUME NEW a \in Nat, NEW b \in Nat PROVE a + b \in Nat
  OBVIOUS

\* Calls that are settled stand for all their attempts.
LEMMA Settled ==
    ASSUME TypeOK, TypeOK', SentInv, provider' = provider, sent' = sent,
           NEW C, IsFiniteSet(C), Tries \subseteq Tries' \cup (C \X (1..Attempts)),
           provider # "dataforseo" => recorded' + lost' >= recorded + lost + Cardinality(C)
    PROVE  SentInv'
<1> SUFFICES ASSUME provider # "dataforseo"
             PROVE  sent' <= Attempts * (recorded' + lost') + Cardinality(Tries')
  BY DEF SentInv
<1> DEFINE k == Cardinality(C)
<1>1. IsFiniteSet(Tries') /\ Cardinality(Tries') \in Nat /\ Cardinality(Tries) \in Nat
  <2>1. IsFiniteSet(Calls) /\ Tries' \subseteq Calls \X (1..Attempts)
    BY ProviderAssumption DEF Tries
  <2> QED
    BY <2>1, TriesFinite, AttemptsOf, FS_Subset, FS_CardinalityType
<1>2. Cardinality(Tries) <= Cardinality(Tries') + k * Attempts
  <2> DEFINE T == C \X (1..Attempts)
  <2>1. IsFiniteSet(T) /\ Cardinality(T) = k * Attempts /\ k \in Nat
    BY AttemptsOf
  <2> HIDE DEF T, k
  <2>2. /\ IsFiniteSet(Tries' \cup T) /\ IsFiniteSet(Tries' \cap T)
        /\ Cardinality(Tries' \cup T) = Cardinality(Tries') + Cardinality(T) - Cardinality(Tries' \cap T)
    BY <1>1, <2>1, FS_Union, FS_Intersection
  <2>3. Cardinality(Tries' \cap T) \in Nat /\ Cardinality(T) \in Nat
    BY <2>1, <2>2, FS_CardinalityType
  <2>4. Cardinality(Tries) <= Cardinality(Tries' \cup T)
    BY <2>2, FS_Subset DEF T
  <2>5. Cardinality(Tries' \cup T) \in Nat
    BY <2>2, FS_CardinalityType
  <2> QED
    BY <1>1, <2>1, <2>2, <2>3, <2>4, <2>5
<1>3. /\ recorded + lost \in Nat /\ recorded' + lost' \in Nat
      /\ k \in Nat /\ recorded' + lost' >= recorded + lost + k
  <2>1. recorded \in Nat /\ lost \in Nat
    BY DEF TypeOK
  <2>2. recorded' \in Nat /\ lost' \in Nat
    BY DEF TypeOK
  <2>3. recorded' + lost' \in Nat
    BY <2>2, SumOfNat, Zenon
  <2>4. k \in Nat
    BY AttemptsOf
  <2> HIDE DEF k
  <2>5. recorded + lost \in Nat
    BY <2>1
  <2>6. recorded' + lost' >= recorded + lost + k
    BY DEF k
  <2> QED
    BY <2>3, <2>4, <2>5, <2>6
<1> HIDE DEF k
<1>4. sent' <= Attempts * (recorded + lost) + Cardinality(Tries) /\ sent' \in Nat
  BY ProviderAssumption DEF SentInv, TypeOK
<1>5. /\ Attempts * (recorded + lost) \in Nat /\ Attempts * (recorded' + lost') \in Nat
      /\ k * Attempts \in Nat
      /\ Attempts * (recorded' + lost') >= Attempts * (recorded + lost) + k * Attempts
  BY <1>3, AttemptsTimes
<1> QED
  BY <1>1, <1>2, <1>4, <1>5

\* One more attempt was sent.
LEMMA OneTry ==
    ASSUME TypeOK, TypeOK', SentInv, provider' = provider, recorded' = recorded,
           lost' = lost, sent' <= sent + 1,
           NEW t, t \in Tries' \ Tries, Tries \subseteq Tries'
    PROVE  SentInv'
<1>1. IsFiniteSet(Tries') /\ Cardinality(Tries') \in Nat /\ Cardinality(Tries) \in Nat
  <2>1. IsFiniteSet(Calls) /\ Tries' \subseteq Calls \X (1..Attempts)
    BY ProviderAssumption DEF Tries
  <2> QED
    BY <2>1, TriesFinite, AttemptsOf, FS_Subset, FS_CardinalityType
<1>2. Cardinality(Tries) <= Cardinality(Tries' \ {t})
  BY <1>1, FS_RemoveElement, FS_Subset
<1>3. Cardinality(Tries') >= Cardinality(Tries) + 1
  <2>1. Cardinality(Tries' \ {t}) = Cardinality(Tries') - 1
    BY <1>1, FS_RemoveElement
  <2> QED
    BY <1>1, <1>2, <2>1
<1>4. Attempts * (recorded + lost) \in Nat /\ sent \in Nat /\ sent' \in Nat
  BY ProviderAssumption DEF TypeOK
<1> QED
  BY <1>1, <1>3, <1>4 DEF SentInv

\* A step that sends, records and loses nothing, and ends no call.
LEMMA NothingSent ==
    ASSUME TypeOK, TypeOK', SentInv, provider' = provider, sent' = sent,
           recorded' = recorded, lost' = lost, Tries \subseteq Tries'
    PROVE  SentInv'
<1>1. IsFiniteSet({}) /\ Cardinality({}) = 0
  BY FS_EmptySet
<1>2. recorded' + lost' >= recorded + lost + Cardinality({})
  BY <1>1 DEF TypeOK
<1> QED
  BY <1>1, <1>2, Settled

LEMMA SentDecide ==
    ASSUME TypeOK, TypeOK', SentInv, provider' = provider, recorded' = recorded,
           NEW c \in Calls, phase[c] \in {"idle", "answered"}, NEW used, Decide(c, used)
    PROVE  SentInv'
<1>1. CASE Refuse(c) \/ Reject(c)
  <2>1. Tries \subseteq Tries' /\ sent' = sent /\ lost' = lost
    BY <1>1 DEF Refuse, Reject, Tries, history, TypeOK
  <2> QED
    BY <2>1, NothingSent
<1>2. CASE LetThrough(c)
  <2>1. /\ phase' = [phase EXCEPT ![c] = "calling"]
        /\ attempt' = [attempt EXCEPT ![c] = 1]
        /\ sent' <= sent + 1 /\ lost' = lost
    BY <1>2 DEF LetThrough, OneMoreSent, TypeOK
  <2>2. <<c, 1>> \in Tries' \ Tries
    BY <2>1, ProviderAssumption DEF Tries, TypeOK
  <2>3. Tries \subseteq Tries'
    BY <2>1 DEF Tries, TypeOK
  <2> QED
    BY <2>1, <2>2, <2>3, OneTry
<1> QED
  BY <1>1, <1>2 DEF Decide

LEMMA SentStep ==
    ASSUME TypeOK, TypeOK', SentInv, [Next]_vars
    PROVE  SentInv'
<1>0. provider' = provider
  BY ProviderStays
<1>1. ASSUME NEW c \in Calls, DecideOnCache(c) \/ DecideOnReply(c)
      PROVE  SentInv'
  <2>1. recorded' = recorded /\ phase[c] \in {"idle", "answered"} /\ \E used : Decide(c, used)
    BY <1>1 DEF DecideOnCache, DecideOnReply, usage
  <2> QED
    BY <1>0, <2>1, SentDecide
<1>2. ASSUME NEW c \in Calls,
             AskUsage(c) \/ ReadUsage(c) \/ ReadFails(c) \/ Succeed(c) \/ GiveUp(c) \/ Recorded(c)
      PROVE  SentInv'
  <2>1. sent' = sent /\ lost' = lost /\ recorded' = recorded
    BY <1>2 DEF AskUsage, ReadUsage, ReadFails, Succeed, GiveUp, Recorded, usage, history
  <2>2. /\ \A d \in Calls \ {c} : phase'[d] = phase[d] /\ attempt'[d] = attempt[d]
        /\ phase[c] \in {"calling", "recording"} => phase'[c] = "recording"
    BY <1>2 DEF AskUsage, ReadUsage, ReadFails, Succeed, GiveUp, Recorded, TypeOK
  <2>3. Tries \subseteq Tries'
    BY <2>2 DEF Tries
  <2> QED
    BY <1>0, <2>1, <2>3, NothingSent
<1>3. ASSUME NEW c \in Calls, Retry(c)
      PROVE  SentInv'
  <2>1. /\ phase' = phase /\ phase[c] = "calling" /\ attempt[c] < Attempts
        /\ attempt' = [attempt EXCEPT ![c] = attempt[c] + 1]
        /\ recorded' = recorded /\ lost' = lost /\ sent' <= sent + 1
    BY <1>3 DEF Retry, OneMoreSent, usage, TypeOK
  <2>2. attempt[c] \in 0..Attempts /\ attempt[c] + 1 \in 1..Attempts
    BY <2>1, ProviderAssumption DEF TypeOK
  <2>3. <<c, attempt[c] + 1>> \in Tries' \ Tries
    BY <2>1, <2>2 DEF Tries, TypeOK
  <2>4. Tries \subseteq Tries'
    BY <2>1, <2>2 DEF Tries, TypeOK
  <2> QED
    BY <1>0, <2>1, <2>3, <2>4, OneTry
<1>4. ASSUME NEW c \in Calls, Record(c)
      PROVE  SentInv'
  <2>1. /\ sent' = sent /\ lost' = lost
        /\ provider # "dataforseo" => recorded' = recorded + 1
        /\ phase' = [phase EXCEPT ![c] = "noted"] /\ attempt' = attempt
    BY <1>4 DEF Record, Charge, history
  <2>2. Tries \subseteq Tries' \cup ({c} \X (1..Attempts))
    BY <2>1 DEF Tries, TypeOK
  <2>3. IsFiniteSet({c}) /\ Cardinality({c}) = 1
    BY FS_Singleton
  <2>4. provider # "dataforseo" => recorded' + lost' >= recorded + lost + 1
    BY <2>1 DEF TypeOK
  <2> QED
    BY <1>0, <2>1, <2>2, <2>3, <2>4, Settled
<1>5. ASSUME NEW c \in Calls, RecordFails(c)
      PROVE  SentInv'
  <2>1. /\ sent' = sent /\ recorded' = recorded /\ attempt' = attempt
        /\ phase' = [phase EXCEPT ![c] = "idle"] /\ phase[c] \in {"recording", "noted"}
        /\ lost' = lost + IF phase[c] = "recording" THEN 1 ELSE 0
    BY <1>5 DEF RecordFails, usage
  <2>2. CASE phase[c] = "noted"
    <3>1. lost' = lost /\ Tries \subseteq Tries'
      BY <2>1, <2>2 DEF Tries, TypeOK
    <3> QED
      BY <1>0, <2>1, <3>1, NothingSent
  <2>3. CASE phase[c] = "recording"
    <3>1. Tries \subseteq Tries' \cup ({c} \X (1..Attempts))
      BY <2>1 DEF Tries, TypeOK
    <3>2. IsFiniteSet({c}) /\ Cardinality({c}) = 1
      BY FS_Singleton
    <3>3. recorded' + lost' >= recorded + lost + 1
      BY <2>1, <2>3 DEF TypeOK
    <3> QED
      BY <1>0, <2>1, <3>1, <3>2, <3>3, Settled
  <2> QED
    BY <2>1, <2>2, <2>3
<1>6. ASSUME NEW i \in Instances, Kill(i)
      PROVE  SentInv'
  <2> DEFINE unrecorded == {c \in On(i) : phase[c] \in {"calling", "recording"}}
  <2>1. /\ sent' = sent /\ recorded' = recorded /\ lost' = lost + Cardinality(unrecorded)
        /\ \A c \in Calls \ On(i) : phase'[c] = phase[c] /\ attempt'[c] = attempt[c]
    BY <1>6 DEF Kill, usage
  <2>2. IsFiniteSet(unrecorded) /\ Cardinality(unrecorded) \in Nat
    <3>1. unrecorded \subseteq Calls /\ IsFiniteSet(Calls)
      BY ProviderAssumption DEF On
    <3> QED
      BY <3>1, FS_Subset, FS_CardinalityType
  <2>3. Tries \subseteq Tries' \cup (unrecorded \X (1..Attempts))
    BY <2>1 DEF Tries
  <2>4. recorded' + lost' >= recorded + lost + Cardinality(unrecorded)
    BY <2>1, <2>2 DEF TypeOK
  <2> HIDE DEF unrecorded
  <2> QED
    BY <1>0, <2>1, <2>2, <2>3, <2>4, Settled
<1>7. CASE Tick \/ UNCHANGED vars
  <2>1. UNCHANGED <<sent, lost, recorded>> /\ Tries' = Tries
    BY <1>7 DEF Tick, vars, call, usage, history, Tries
  <2> QED
    BY <1>0, <2>1, NothingSent
<1> QED
  BY <1>1, <1>2, <1>3, <1>4, <1>5, <1>6, <1>7 DEF Next, Step

(***************************************************************************)
(* SentIsAccounted: whatever is retried, killed or not recorded, the       *)
(* requests sent on an NVIDIA key are at most Attempts for every call that *)
(* was recorded, is under way or was lost.                                 *)
(***************************************************************************)
THEOREM SentIsAccounted == Spec => []SentAccounted
<1>1. Init => SentInv
  <2> SUFFICES ASSUME Init
               PROVE  SentInv
    OBVIOUS
  <2>1. sent = 0 /\ recorded = 0 /\ lost = 0 /\ Attempts \in Nat
    BY ProviderAssumption DEF Init
  <2> QED
    BY <2>1, TriesFinite DEF SentInv
<1>2. TypeOK /\ TypeOK' /\ SentInv /\ [Next]_vars => SentInv'
  BY SentStep
<1>3. TypeOK /\ SentInv => SentAccounted
  <2> SUFFICES ASSUME TypeOK, SentInv, provider # "dataforseo"
               PROVE  sent <= Attempts * (recorded + Cardinality(UnderWay) + lost)
    BY DEF SentAccounted
  <2> DEFINE k == Cardinality(UnderWay)
  <2>1. IsFiniteSet(UnderWay)
    BY ProviderAssumption, FS_Subset DEF UnderWay
  <2>2. Tries \subseteq UnderWay \X (1..Attempts)
    BY DEF Tries, UnderWay
  <2>3. Cardinality(Tries) <= k * Attempts /\ k \in Nat
    <3> DEFINE T == UnderWay \X (1..Attempts)
    <3>1. IsFiniteSet(T) /\ Cardinality(T) = k * Attempts /\ k \in Nat
      BY <2>1, AttemptsOf
    <3> HIDE DEF T
    <3>2. Cardinality(Tries) <= Cardinality(T)
      BY <2>2, <3>1, FS_Subset DEF T
    <3> QED
      BY <3>1, <3>2
  <2> HIDE DEF k
  <2>4. recorded \in Nat /\ lost \in Nat /\ Attempts \in Nat /\ sent \in Nat
    BY ProviderAssumption DEF TypeOK
  <2>5. Attempts * (recorded + k + lost) = Attempts * (recorded + lost) + k * Attempts
    BY <2>3, <2>4
  <2>6. Attempts * (recorded + lost) \in Nat /\ k * Attempts \in Nat
    BY <2>3, <2>4
  <2>7. sent <= Attempts * (recorded + k + lost)
    BY <2>3, <2>4, <2>5, <2>6, TriesFinite DEF SentInv
  <2> QED
    BY <2>7 DEF k
<1> QED
  BY <1>1, <1>2, <1>3, TypeCorrect, PTL DEF Spec

-----------------------------------------------------------------------------
(***************************************************************************)
(* The NVIDIA counter.  Once the limit is reached, a further request comes *)
(* from a caller that is under way, or from one that is free while its     *)
(* instance still has a cached counter below the limit.  A caller with a   *)
(* stale reply may refill that cache: it stands for one request of every   *)
(* caller of its instance, a pair {c, d} each, its own being {c}.  When it *)
(* decides it releases the pairs with the free callers, whose own singleton*)
(* takes their place.                                                      *)
(***************************************************************************)
Pairs == UNION {{{c, d} : d \in On(Home[c])} : c \in Calls}
Stale == {c \in Calls : phase[c] = "answered" /\ ~Blocked(seen[c])}
Free == {c \in Calls : \/ phase[c] \in {"idle", "asking"}
                       \/ phase[c] = "answered" /\ Blocked(seen[c])}
Live == {i \in Instances : cacheLeft[i] > 0 /\ ~Blocked(cacheVal[i])}
Single == UnderWay \cup {c \in Free : Home[c] \in Live}
Open == {p \in Pairs : p \cap Stale # {} \/ \E c \in Single : p = {c}}
QuotaInv ==
    provider # "dataforseo" /\ recorded >= Limit =>
        recorded + Cardinality(Open) <= Limit - 1 + QuotaSlack + faults

LEMMA PairsAre ==
    /\ \A c, d \in Calls : Home[c] = Home[d] => {c, d} \in Pairs
    /\ \A c \in Calls : {c} \in Pairs
    /\ \A p \in Pairs : \E c, d \in Calls : Home[c] = Home[d] /\ p = {c, d}
<1>1. ASSUME NEW c \in Calls, NEW d \in Calls, Home[c] = Home[d]
      PROVE  {c, d} \in Pairs
  BY <1>1 DEF Pairs, On
<1>2. ASSUME NEW c \in Calls
      PROVE  {c} \in Pairs
  <2>1. {c} = {c, c}
    OBVIOUS
  <2> QED
    BY <1>1, <2>1
<1>3. ASSUME NEW p \in Pairs
      PROVE  \E c, d \in Calls : Home[c] = Home[d] /\ p = {c, d}
  BY DEF Pairs, On
<1> QED
  BY <1>1, <1>2, <1>3

LEMMA PairsFinite ==
    /\ IsFiniteSet(Pairs) /\ Cardinality(Pairs) \in Nat \ {0}
    /\ QuotaSlack = Cardinality(Pairs)
<1>1. Pairs \subseteq SUBSET Calls
  BY PairsAre
<1>2. IsFiniteSet(Pairs) /\ Cardinality(Pairs) \in Nat
  BY <1>1, ProviderAssumption, FS_SUBSET, FS_Subset, FS_CardinalityType
<1>3. Pairs # {}
  BY PairsAre, ProviderAssumption
<1>4. Cardinality(Pairs) # 0
  BY <1>2, <1>3, FS_EmptySet
<1>5. QuotaSlack = Cardinality(Pairs)
  BY DEF QuotaSlack, Pairs
<1> QED
  BY <1>2, <1>4, <1>5

LEMMA OpenFinite ==
    ASSUME NEW S \in SUBSET Pairs
    PROVE  /\ IsFiniteSet(S) /\ Cardinality(S) \in Nat
           /\ Cardinality(S) <= Cardinality(Pairs)
BY PairsFinite, FS_Subset, FS_CardinalityType

LEMMA OpenArePairs == Open \in SUBSET Pairs /\ Open' \in SUBSET Pairs
BY DEF Open, Pairs, On

\* A step on which no caller gains a stale reply or a request of its own
\* opens no pair; a caller that gains a request opens its singleton.
LEMMA Narrower ==
    ASSUME Stale' \subseteq Stale, Single' \subseteq Single \cup Stale
    PROVE  Open' \subseteq Open
BY OpenArePairs DEF Open

LEMMA OneWider ==
    ASSUME NEW c, Stale' \subseteq Stale, Single' \subseteq Single \cup Stale \cup {c}
    PROVE  Open' \subseteq Open \cup {{c}}
BY OpenArePairs DEF Open

LEMMA OneMore ==
    ASSUME NEW S, NEW x, IsFiniteSet(S)
    PROVE  /\ IsFiniteSet(S \cup {x})
           /\ Cardinality(S \cup {x}) <= Cardinality(S) + 1
<1>1. Cardinality(S) \in Nat
  BY FS_CardinalityType
<1>2. /\ IsFiniteSet(S \cup {x})
      /\ Cardinality(S \cup {x}) = IF x \in S THEN Cardinality(S) ELSE Cardinality(S) + 1
  BY FS_AddElement, Zenon
<1> QED
  BY <1>1, <1>2

\* As long as nothing is recorded and no pair opens, the bound stays.
LEMMA FewerOpen ==
    ASSUME TypeOK, TypeOK', QuotaInv, [Next]_vars, recorded' = recorded, faults' = faults,
           recorded >= Limit => Open' \subseteq Open
    PROVE  QuotaInv'
<1> SUFFICES ASSUME provider # "dataforseo", recorded >= Limit
             PROVE  recorded + Cardinality(Open') <= Limit - 1 + QuotaSlack + faults
  BY ProviderStays DEF QuotaInv, QuotaSlack, On
<1>1. Cardinality(Open') <= Cardinality(Open)
  BY OpenArePairs, OpenFinite, FS_Subset
<1>2. Cardinality(Open') \in Nat /\ Cardinality(Open) \in Nat
  BY OpenArePairs, OpenFinite
<1> QED
  BY <1>1, <1>2, LimitType, PairsFinite DEF QuotaInv, TypeOK

\* A stale reply that is let through: the pairs it held with the free callers
\* of its instance go, their singletons take their place.
LEMMA StaleDecides ==
    ASSUME TypeOK, NEW c \in Calls, c \in Stale, c \notin Stale',
           \A d \in Calls \ {c} : phase'[d] = phase[d] /\ seen'[d] = seen[d],
           \A i \in Instances \ {Home[c]} : i \in Live' => i \in Live,
           Limit' = Limit
    PROVE  Cardinality(Open') <= Cardinality(Open)
<1> DEFINE F == {d \in Calls : Home[d] = Home[c] /\ d \in Free}
           R == {{c, d} : d \in F}
           S == {{d} : d \in F}
<1>1. Stale' \subseteq Stale \ {c} /\ Free' \subseteq Free \cup {c} /\ UnderWay' \subseteq UnderWay \cup {c}
  BY DEF Stale, Free, Blocked, UnderWay
<1>2. c \notin F /\ \A d \in F : d \notin Stale
  BY DEF Stale, Free
<1>3. R \subseteq Open
  BY PairsAre DEF Open
<1>4. Open' \subseteq (Open \ R) \cup S
  <2> SUFFICES ASSUME NEW p \in Open', p \notin S
               PROVE  p \in Open \ R
    OBVIOUS
  <2>1. p \in Pairs /\ p \subseteq Calls
    BY OpenArePairs, PairsAre
  <2>2. ASSUME NEW d \in Calls, d \in p, d \in Stale'
        PROVE  p \in Open \ R
    <3>1. d # c /\ d \in Stale
      BY <1>1, <2>2
    <3>2. p \notin R
      BY <1>2, <2>2, <3>1
    <3> QED
      BY <2>1, <2>2, <3>1, <3>2 DEF Open
  <2>3. ASSUME NEW d \in Calls, p = {d}, d \in Single'
        PROVE  p \in Open \ R
    <3>1. p \notin R
      BY <1>2, <2>3
    <3>2. CASE d = c
      BY <2>1, <2>3, <3>1, <3>2 DEF Open
    <3>3. CASE d # c /\ Home[d] # Home[c]
      <4>1. Home[d] \in Instances
        BY ProviderAssumption
      <4>2. d \in Single
        BY <1>1, <2>3, <3>3, <4>1 DEF Single
      <4> QED
        BY <2>1, <2>3, <3>1, <4>2 DEF Open
    <3>4. CASE d # c /\ Home[d] = Home[c]
      <4>1. d \notin F
        BY <2>3
      <4>2. d \in Single
        BY <1>1, <2>3, <3>4, <4>1 DEF Single
      <4> QED
        BY <2>1, <2>3, <3>1, <4>2 DEF Open
    <3> QED
      BY <3>2, <3>3, <3>4
  <2>4. Stale' \subseteq Calls /\ Single' \subseteq Calls
    BY DEF Stale, Single, UnderWay, Free
  <2> QED
    BY <2>2, <2>3, <2>4 DEF Open
<1>5. Cardinality(S) <= Cardinality(R) /\ IsFiniteSet(S) /\ IsFiniteSet(R)
  <2> DEFINE f == [s \in S |-> s \cup {c}]
  <2>1. f \in [S -> R]
    <3> SUFFICES ASSUME NEW s \in S
                 PROVE  s \cup {c} \in R
      OBVIOUS
    <3>1. PICK d \in F : s = {d}
      OBVIOUS
    <3>2. s \cup {c} = {c, d}
      BY <3>1
    <3> QED
      BY <3>2
  <2>2. \A a, b \in S : f[a] = f[b] => a = b
    BY <1>2
  <2>3. f \in Injection(S, R)
    BY <2>1, <2>2 DEF Injection, IsInjective
  <2>4. IsFiniteSet(R)
    BY <1>3, OpenArePairs, OpenFinite
  <2> HIDE DEF f, S, R
  <2> QED
    BY <2>3, <2>4, FS_Injection
<1> HIDE DEF S, R
<1>6. IsFiniteSet(Open) /\ IsFiniteSet(Open') /\ IsFiniteSet(Open \ R)
  BY OpenArePairs, OpenFinite
<1>7. Cardinality(Open \ R) = Cardinality(Open) - Cardinality(R)
  <2>1. Open \cap R = R
    BY <1>3
  <2> QED
    BY <1>6, <2>1, FS_Difference
<1>8. /\ IsFiniteSet((Open \ R) \cup S) /\ IsFiniteSet((Open \ R) \cap S)
      /\ Cardinality((Open \ R) \cup S)
             = Cardinality(Open \ R) + Cardinality(S) - Cardinality((Open \ R) \cap S)
  BY <1>5, <1>6, FS_Union, FS_Intersection
<1>9. Cardinality(Open') <= Cardinality((Open \ R) \cup S)
  BY <1>4, <1>8, FS_Subset
<1>10. /\ Cardinality(Open) \in Nat /\ Cardinality(Open') \in Nat
       /\ Cardinality(S) \in Nat /\ Cardinality(R) \in Nat
       /\ Cardinality((Open \ R) \cap S) \in Nat
       /\ Cardinality((Open \ R) \cup S) \in Nat
  BY <1>5, <1>6, <1>8, FS_CardinalityType
<1> QED
  BY <1>5, <1>7, <1>8, <1>9, <1>10

LEMMA QuotaStep ==
    ASSUME TypeOK, TypeOK', QuotaInv, [Next]_vars
    PROVE  QuotaInv'
<1> SUFFICES ASSUME provider # "dataforseo"
             PROVE  QuotaInv'
  BY ProviderStays DEF QuotaInv
<1> USE DEF TypeOK
<1>0. provider' = provider /\ Limit' = Limit /\ QuotaSlack' = QuotaSlack
  BY ProviderStays DEF QuotaSlack, On
<1>1. ASSUME NEW c \in Calls, DecideOnCache(c)
      PROVE  QuotaInv'
  <2>1. /\ recorded' = recorded /\ faults' = faults
        /\ phase[c] = "idle"
        /\ Home[c] \in Live \/ Blocked(cacheVal[Home[c]])
        /\ cacheVal' = cacheVal /\ cacheLeft' = cacheLeft
    BY <1>1, ProviderAssumption DEF DecideOnCache, CacheHit, usage, cache, Live
  <2>2. /\ \A d \in Calls \ {c} : phase'[d] = phase[d] /\ seen'[d] = seen[d]
        /\ Blocked(cacheVal[Home[c]]) => phase'[c] = "idle"
        /\ phase'[c] # "answered" /\ phase[c] = "idle"
    BY <1>1 DEF DecideOnCache, Decide, Refuse, Reject, LetThrough
  <2>3. Stale' \subseteq Stale
    BY <1>0, <2>2 DEF Stale, Blocked
  <2>4. Single' \subseteq Single \cup Stale
    BY <1>0, <2>1, <2>2 DEF Single, Free, Live, UnderWay, Blocked
  <2>5. Open' \subseteq Open
    BY <2>3, <2>4, Narrower
  <2> QED
    BY <2>1, <2>5, FewerOpen
<1>2. ASSUME NEW c \in Calls,
             AskUsage(c) \/ ReadUsage(c) \/ ReadFails(c) \/ Retry(c) \/ Succeed(c) \/ GiveUp(c)
      PROVE  QuotaInv'
  <2>1. /\ recorded' = recorded /\ faults' = faults
        /\ cacheVal' = cacheVal /\ cacheLeft' = cacheLeft
    BY <1>2 DEF AskUsage, ReadUsage, ReadFails, Retry, Succeed, GiveUp, usage, cache
  <2>2. /\ \A d \in Calls \ {c} : phase'[d] = phase[d] /\ seen'[d] = seen[d]
        /\ \/ /\ phase[c] \in {"idle", "asking"}
              /\ \/ phase'[c] \in {"idle", "asking"}
                 \/ phase'[c] = "answered" /\ seen'[c] = recorded
           \/ c \in UnderWay /\ phase'[c] \in {"calling", "recording"}
    BY <1>2 DEF AskUsage, ReadUsage, ReadFails, Retry, Succeed, GiveUp, UnderWay
  <2>3. ASSUME Blocked(recorded)
        PROVE  Open' \subseteq Open
    <3>1. Stale' \subseteq Stale
      BY <1>0, <2>2, <2>3 DEF Stale, Blocked
    <3>2. Single' \subseteq Single \cup Stale
      BY <1>0, <2>1, <2>2, <2>3 DEF Single, Free, Live, UnderWay, Blocked
    <3> QED
      BY <3>1, <3>2, Narrower
  <2> QED
    BY <2>1, <2>3, FewerOpen DEF Blocked
<1>3. ASSUME NEW c \in Calls, DecideOnReply(c)
      PROVE  QuotaInv'
  <2>1. /\ recorded' = recorded /\ faults' = faults /\ phase[c] = "answered"
        /\ cacheVal' = [cacheVal EXCEPT ![Home[c]] = seen[c]]
        /\ cacheLeft' = [cacheLeft EXCEPT ![Home[c]] = CacheTtl]
    BY <1>3 DEF DecideOnReply, Cached, usage
  <2>2. /\ \A d \in Calls \ {c} : phase'[d] = phase[d] /\ seen'[d] = seen[d]
        /\ Blocked(seen[c]) => phase'[c] = "idle"
        /\ phase'[c] # "answered"
    BY <1>3 DEF DecideOnReply, Decide, Refuse, Reject, LetThrough
  <2>3. \A i \in Instances \ {Home[c]} : i \in Live' => i \in Live
    BY <1>0, <2>1 DEF Live, Blocked
  <2>4. CASE Blocked(seen[c])
    <3>1. Home[c] \in Instances /\ cacheVal'[Home[c]] = seen[c]
      BY <2>1, ProviderAssumption
    <3>2. \A d \in Calls : Home[d] \in Live' => Home[d] \in Live
      BY <1>0, <2>3, <2>4, <3>1, ProviderAssumption DEF Live, Blocked
    <3>3. Stale' \subseteq Stale
      BY <1>0, <2>2 DEF Stale, Blocked
    <3>4. Single' \subseteq Single \cup Stale
      BY <1>0, <2>1, <2>2, <2>4, <3>2 DEF Single, Free, UnderWay, Blocked
    <3>5. Open' \subseteq Open
      BY <3>3, <3>4, Narrower
    <3> QED
      BY <2>1, <3>5, FewerOpen
  <2>5. CASE ~Blocked(seen[c])
    <3>1. c \in Stale /\ c \notin Stale'
      BY <2>1, <2>2, <2>5 DEF Stale
    <3>2. Cardinality(Open') <= Cardinality(Open)
      BY <1>0, <2>2, <2>3, <3>1, StaleDecides
    <3>3. Cardinality(Open') \in Nat /\ Cardinality(Open) \in Nat
      BY OpenArePairs, OpenFinite
    <3> QED
      BY <1>0, <2>1, <3>2, <3>3, LimitType, PairsFinite DEF QuotaInv
  <2> QED
    BY <2>4, <2>5
<1>4. ASSUME NEW c \in Calls, Record(c)
      PROVE  QuotaInv'
  <2>1. /\ recorded' = recorded + 1 /\ faults' = faults
        /\ c \in UnderWay /\ phase' = [phase EXCEPT ![c] = "noted"] /\ seen' = seen
        /\ cacheVal' = cacheVal /\ cacheLeft' = cacheLeft
    BY <1>4 DEF Record, Charge, UnderWay, cache
  <2>2. {c} \notin Open'
    <3>1. c \notin Stale' /\ c \notin Single'
      BY <2>1 DEF Stale, Single, Free, UnderWay
    <3> QED
      BY <3>1 DEF Open
  <2>3. {c} \in Pairs
    BY PairsAre
  <2>4. CASE recorded >= Limit
    <3>1. {c} \in Open
      BY <2>1, <2>3 DEF Open, Single
    <3>2. Stale' \subseteq Stale
      BY <1>0, <2>1 DEF Stale, Blocked
    <3>3. Single' \subseteq Single \cup Stale
      BY <1>0, <2>1 DEF Single, Free, Live, UnderWay, Blocked
    <3>4. Open' \subseteq Open \ {{c}}
      <4>1. Open' \subseteq Open
        BY <3>2, <3>3, Narrower
      <4> QED
        BY <2>2, <4>1
    <3>5. /\ Cardinality(Open \ {{c}}) = Cardinality(Open) - 1
          /\ IsFiniteSet(Open \ {{c}})
      BY <3>1, OpenArePairs, OpenFinite, FS_RemoveElement
    <3>6. Cardinality(Open') <= Cardinality(Open) - 1
      BY <3>4, <3>5, FS_Subset
    <3>7. Cardinality(Open') \in Nat /\ Cardinality(Open) \in Nat
      BY OpenArePairs, OpenFinite
    <3> QED
      BY <1>0, <2>1, <2>4, <3>6, <3>7, LimitType, PairsFinite DEF QuotaInv
  <2>5. CASE recorded < Limit
    <3>1. Open' \subseteq Pairs \ {{c}}
      BY <2>2, OpenArePairs
    <3>2. /\ Cardinality(Pairs \ {{c}}) = Cardinality(Pairs) - 1
          /\ IsFiniteSet(Pairs \ {{c}})
      BY <2>3, PairsFinite, FS_RemoveElement
    <3>3. Cardinality(Open') <= Cardinality(Pairs) - 1 /\ Cardinality(Open') \in Nat
      BY <3>1, <3>2, OpenArePairs, OpenFinite, FS_Subset
    <3> QED
      BY <1>0, <2>1, <2>5, <3>3, LimitType, PairsFinite DEF QuotaInv
  <2> QED
    BY <2>4, <2>5, LimitType
<1>5. ASSUME NEW c \in Calls, Recorded(c)
      PROVE  QuotaInv'
  <2>1. /\ recorded' = recorded /\ faults' = faults /\ phase[c] = "noted"
        /\ phase' = [phase EXCEPT ![c] = "idle"] /\ seen' = seen
        /\ cacheVal' = [cacheVal EXCEPT ![Home[c]] = 0]
        /\ cacheLeft' = [cacheLeft EXCEPT ![Home[c]] = 0]
    BY <1>5 DEF Recorded, usage
  <2>2. Home[c] \notin Live' /\ \A i \in Instances \ {Home[c]} : i \in Live' => i \in Live
    BY <1>0, <2>1, ProviderAssumption DEF Live, Blocked
  <2>3. \A d \in Calls : Home[d] \in Live' => Home[d] \in Live /\ d # c
    BY <2>2, ProviderAssumption
  <2>4. Stale' \subseteq Stale
    BY <1>0, <2>1 DEF Stale, Blocked
  <2>5. Single' \subseteq Single \cup Stale
    BY <1>0, <2>1, <2>3 DEF Single, Free, UnderWay, Blocked
  <2>6. Open' \subseteq Open
    BY <2>4, <2>5, Narrower
  <2> QED
    BY <2>1, <2>6, FewerOpen
<1>6. ASSUME NEW c \in Calls, RecordFails(c)
      PROVE  QuotaInv'
  <2>1. /\ recorded' = recorded /\ faults' = faults + 1
        /\ phase' = [phase EXCEPT ![c] = "idle"] /\ seen' = seen
        /\ cacheVal' = cacheVal /\ cacheLeft' = cacheLeft
    BY <1>6 DEF RecordFails, Fault, usage, cache
  <2>2. Stale' \subseteq Stale
    BY <1>0, <2>1 DEF Stale, Blocked
  <2>3. Single' \subseteq Single \cup Stale \cup {c}
    BY <1>0, <2>1 DEF Single, Free, Live, UnderWay, Blocked
  <2>4. Open' \subseteq Open \cup {{c}}
    BY <2>2, <2>3, OneWider
  <2>5. /\ Cardinality(Open \cup {{c}}) <= Cardinality(Open) + 1
        /\ IsFiniteSet(Open \cup {{c}})
    <3>1. IsFiniteSet(Open) /\ Cardinality(Open) \in Nat
      BY OpenArePairs, OpenFinite
    <3> QED
      BY <3>1, OneMore
  <2>6. Cardinality(Open') <= Cardinality(Open \cup {{c}})
    BY <2>4, <2>5, FS_Subset
  <2>7. /\ Cardinality(Open') \in Nat /\ Cardinality(Open) \in Nat
        /\ Cardinality(Open \cup {{c}}) \in Nat
    BY <2>5, OpenArePairs, OpenFinite, FS_CardinalityType
  <2> QED
    BY <1>0, <2>1, <2>5, <2>6, <2>7, LimitType, PairsFinite DEF QuotaInv
<1>7. ASSUME NEW i \in Instances, Kill(i)
      PROVE  QuotaInv'
  <2>1. /\ recorded' = recorded /\ faults' = faults + 1
        /\ \A d \in Calls : \/ Home[d] = i /\ phase'[d] = "idle"
                            \/ Home[d] # i /\ phase'[d] = phase[d] /\ seen'[d] = seen[d]
        /\ cacheVal' = [cacheVal EXCEPT ![i] = 0]
        /\ cacheLeft' = [cacheLeft EXCEPT ![i] = 0]
    BY <1>7 DEF Kill, Fault, On, usage
  <2>2. \A d \in Calls : Home[d] \in Live' => Home[d] \in Live /\ Home[d] # i
    BY <1>0, <2>1, ProviderAssumption DEF Live, Blocked
  <2>3. Stale' \subseteq Stale
    BY <1>0, <2>1 DEF Stale, Blocked
  <2>4. Single' \subseteq Single \cup Stale
    BY <1>0, <2>1, <2>2 DEF Single, Free, UnderWay, Blocked
  <2>5. Open' \subseteq Open
    BY <2>3, <2>4, Narrower
  <2>6. Cardinality(Open') <= Cardinality(Open)
    BY <2>5, OpenArePairs, OpenFinite, FS_Subset
  <2>7. Cardinality(Open') \in Nat /\ Cardinality(Open) \in Nat
    BY OpenArePairs, OpenFinite
  <2> QED
    BY <1>0, <2>1, <2>6, <2>7, LimitType, PairsFinite DEF QuotaInv
<1>8. CASE Tick \/ UNCHANGED vars
  <2>1. recorded' = recorded /\ faults' = faults /\ phase' = phase /\ seen' = seen
    BY <1>8 DEF Tick, vars, call, usage
  <2>2. \A i \in Instances : i \in Live' => i \in Live
    BY <1>0, <1>8, ProviderAssumption DEF Tick, vars, cache, Live, Blocked
  <2>3. Stale' \subseteq Stale
    BY <1>0, <2>1 DEF Stale, Blocked
  <2>4. Single' \subseteq Single \cup Stale
    BY <1>0, <2>1, <2>2, ProviderAssumption DEF Single, Free, UnderWay, Blocked
  <2>5. Open' \subseteq Open
    BY <2>3, <2>4, Narrower
  <2> QED
    BY <2>1, <2>5, FewerOpen
<1> QED
  BY <1>1, <1>2, <1>3, <1>4, <1>5, <1>6, <1>7, <1>8 DEF Next, Step

(***************************************************************************)
(* QuotaIsBounded: for any number of callers on any number of instances,   *)
(* the recorded requests of an NVIDIA key pass the blocking threshold by   *)
(* less than one per pair of callers of one instance and one per kill or   *)
(* failed recording, however long the cached counter stays fresh.          *)
(***************************************************************************)
THEOREM QuotaIsBounded == Spec => []QuotaBound
<1>1. Init => QuotaInv
  <2> SUFFICES ASSUME Init
               PROVE  QuotaInv
    OBVIOUS
  <2>1. recorded = 0 /\ faults = 0
    BY DEF Init
  <2>2. \A c \in Calls : c \notin Stale /\ c \notin Single
    BY ProviderAssumption DEF Init, Stale, Single, UnderWay, Live
  <2>3. Open = {}
    BY <2>2, PairsAre DEF Open
  <2> QED
    BY <2>1, <2>3, FS_EmptySet, PairsFinite, LimitType DEF QuotaInv
<1>2. TypeOK /\ TypeOK' /\ QuotaInv /\ [Next]_vars => QuotaInv'
  BY QuotaStep
<1>3. TypeOK /\ QuotaInv => QuotaBound
  <2> SUFFICES ASSUME TypeOK, QuotaInv, provider # "dataforseo"
               PROVE  recorded <= Limit - 1 + QuotaSlack + faults
    BY DEF QuotaBound
  <2>1. Cardinality(Open) \in Nat
    BY OpenArePairs, OpenFinite
  <2> QED
    BY <2>1, PairsFinite, LimitType DEF QuotaInv, TypeOK
<1> QED
  BY <1>1, <1>2, <1>3, TypeCorrect, PTL DEF Spec
=============================================================================
