---------------------------- MODULE ProviderCalls ----------------------------
(***************************************************************************)
(* Calls of a metered provider: nvidiaChat (llm/nvidiaClient.ts) and       *)
(* googleOrganicSearch (dataforseo/dataForSeoClient.ts).  Each call passes *)
(* the usage gate (monitoring/usageMonitor.ts), the circuit breaker and    *)
(* the retry loop (utils/resilience.ts), then records itself.  The counter *)
(* lives in Postgres (0003_usage.sql) and is shared; the cache of the gate *)
(* and the breaker live in the memory of one serverless instance.          *)
(*                                                                         *)
(* Usage is counted in requests for the NVIDIA keys (one day) and in tasks *)
(* of DATAFORSEO_COST_PER_TASK_USD for DataForSEO (one month).             *)
(***************************************************************************)
EXTENDS Integers, FiniteSets

CONSTANTS Calls,      \* callers; one has at most one call under way
          Instances,  \* serverless instances
          Home,       \* the instance a caller runs on
          Providers,  \* the TrackedProviders considered
          Quota,      \* NVIDIA_KEY*_DAILY_REQUEST_QUOTA
          WarnAt,     \* DATAFORSEO_WARN_USD
          HardStop,   \* DATAFORSEO_HARD_STOP_USD
          CacheTtl,   \* CACHE_TTL_MS, in ticks
          Attempts,   \* tries of the retry loop
          Threshold,  \* failureThreshold of the breaker
          Cooldown,   \* cooldownMs, in ticks
          MaxFaults,  \* bound of the model: kills and failed recordings
          SentCap     \* bound of the model: the history of sent requests

ASSUME ProviderAssumption ==
    /\ IsFiniteSet(Calls) /\ Calls # {}
    /\ Home \in [Calls -> Instances]
    /\ Providers \subseteq {"nvidia_key_1", "nvidia_key_2", "dataforseo"}
    /\ {Quota, WarnAt, HardStop, MaxFaults, SentCap} \subseteq Nat
    /\ {CacheTtl, Attempts, Threshold, Cooldown} \subseteq Nat \ {0}

(***************************************************************************)
(* provider     the provider that all the calls of a behaviour go to       *)
(* recorded     the provider's row of api_usage_daily (DataForSEO: the sum *)
(*              over the month)                                            *)
(* cacheVal[i], cacheLeft[i]   cached counter and the ticks it stays fresh *)
(* phase[c]     asking: select under way; answered: its reply under way;   *)
(*              calling: HTTP request under way; recording: RPC under way; *)
(*              noted: the RPC's reply under way                           *)
(* seen[c]      the counter in the reply of the select                     *)
(* attempt[c]   attempt of the retry loop                                  *)
(* outcome[c]   whether the call to record succeeded                       *)
(* failures[i], circuit[i], cool[i]   the breaker: open is openedAt # null *)
(*              with cool ticks left of the cooldown                       *)
(* sent, lost   history: requests sent, calls that were never recorded     *)
(***************************************************************************)
VARIABLES provider, recorded, cacheVal, cacheLeft, phase, seen, attempt, outcome,
          failures, circuit, cool, sent, lost, faults

usage == <<provider, recorded>>
cache == <<cacheVal, cacheLeft>>
call == <<phase, seen, attempt, outcome>>
breaker == <<failures, circuit, cool>>
history == <<sent, lost>>
vars == <<usage, cache, call, breaker, history, faults>>

Phases == {"idle", "asking", "answered", "calling", "recording", "noted"}
\* getMonthlyCost always asks Postgres, getToday caches.
Cached == provider # "dataforseo"

TypeOK ==
    /\ provider \in Providers
    /\ recorded \in Nat
    /\ cacheVal \in [Instances -> Nat]
    /\ cacheLeft \in [Instances -> 0..CacheTtl]
    /\ phase \in [Calls -> Phases]
    /\ seen \in [Calls -> Nat]
    /\ attempt \in [Calls -> 0..Attempts]
    /\ outcome \in [Calls -> {"none", "success", "failure"}]
    /\ failures \in [Instances -> Nat]
    /\ circuit \in [Instances -> {"closed", "open"}]
    /\ cool \in [Instances -> 0..Cooldown]
    /\ sent \in 0..SentCap
    /\ lost \in Nat
    /\ faults \in 0..MaxFaults

Init ==
    /\ provider \in Providers
    /\ recorded = 0
    /\ cacheVal = [i \in Instances |-> 0]
    /\ cacheLeft = [i \in Instances |-> 0]
    /\ phase = [c \in Calls |-> "idle"]
    /\ seen = [c \in Calls |-> 0]
    /\ attempt = [c \in Calls |-> 0]
    /\ outcome = [c \in Calls |-> "none"]
    /\ failures = [i \in Instances |-> 0]
    /\ circuit = [i \in Instances |-> "closed"]
    /\ cool = [i \in Instances |-> 0]
    /\ sent = 0
    /\ lost = 0
    /\ faults = 0

Fault == faults < MaxFaults /\ faults' = faults + 1

-----------------------------------------------------------------------------
(***************************************************************************)
(* assertWithinLimits: DataForSEO is blocked from                          *)
(* min(hard, max(0.8 * hard, warn)), an NVIDIA key from floor(0.8 * quota).*)
(* Usage counts whole tasks, so 0.8 * hard is rounded up.                  *)
(***************************************************************************)
SoftGate == (8 * HardStop + 9) \div 10
AtLeastWarn == IF WarnAt > SoftGate THEN WarnAt ELSE SoftGate
BlockAt == IF AtLeastWarn < HardStop THEN AtLeastWarn ELSE HardStop
Limit == IF provider = "dataforseo" THEN BlockAt ELSE (8 * Quota) \div 10

\* Faulty variant: the counter may reach the threshold and pass it by one.
BlockedAbove(used) == used > Limit

\* Whether the gate refuses a call on this counter.
Blocked(used) == used >= Limit

OneMoreSent == sent' = IF sent < SentCap THEN sent + 1 ELSE sent

\* CircuitBreaker.exec finds the breaker open: CIRCUIT_OPEN, which the
\* clients record as a failed request.
Reject(c) ==
    /\ circuit[Home[c]] = "open" /\ cool[Home[c]] > 0
    /\ phase' = [phase EXCEPT ![c] = "recording"]
    /\ outcome' = [outcome EXCEPT ![c] = "failure"]
    /\ seen' = [seen EXCEPT ![c] = 0]
    /\ UNCHANGED <<attempt, breaker, history>>

\* Faulty variant: the half-open breaker keeps its failure count.
LetThroughKeepingFailures(c) ==
    LET i == Home[c]
    IN  /\ circuit[i] = "open" => cool[i] = 0
        /\ circuit' = [circuit EXCEPT ![i] = "closed"]
        /\ phase' = [phase EXCEPT ![c] = "calling"]
        /\ seen' = [seen EXCEPT ![c] = 0]
        /\ attempt' = [attempt EXCEPT ![c] = 1]
        /\ OneMoreSent
        /\ UNCHANGED <<outcome, failures, cool, lost>>

\* exec lets the call through, after a cooldown as a probe of the
\* half-open breaker, and the first attempt is sent.
LetThrough(c) ==
    LET i == Home[c]
    IN  /\ circuit[i] = "open" => cool[i] = 0
        /\ circuit' = [circuit EXCEPT ![i] = "closed"]
        /\ failures' = [failures EXCEPT ![i] =
                           IF circuit[i] = "open" THEN Threshold - 1 ELSE @]
        /\ phase' = [phase EXCEPT ![c] = "calling"]
        /\ seen' = [seen EXCEPT ![c] = 0]
        /\ attempt' = [attempt EXCEPT ![c] = 1]
        /\ OneMoreSent
        /\ UNCHANGED <<outcome, cool, lost>>

\* USAGE_LIMIT_REACHED: nothing is sent and nothing is recorded.
Refuse(c) ==
    /\ phase' = [phase EXCEPT ![c] = "idle"]
    /\ seen' = [seen EXCEPT ![c] = 0]
    /\ UNCHANGED <<attempt, outcome, breaker, history>>

\* The gate decides on a counter; passing it, the call goes on to the
\* breaker in the same turn of the event loop.
Decide(c, used) ==
    \/ Blocked(used) /\ Refuse(c)
    \/ ~Blocked(used) /\ (Reject(c) \/ LetThrough(c))

CacheHit(c) == Cached /\ cacheLeft[Home[c]] > 0

DecideOnCache(c) ==
    /\ phase[c] = "idle"
    /\ CacheHit(c)
    /\ Decide(c, cacheVal[Home[c]])
    /\ UNCHANGED <<usage, cache, faults>>

AskUsage(c) ==
    /\ phase[c] = "idle"
    /\ ~CacheHit(c)
    /\ phase' = [phase EXCEPT ![c] = "asking"]
    /\ UNCHANGED <<usage, cache, seen, attempt, outcome, breaker, history, faults>>

\* Postgres evaluates the select ...
ReadUsage(c) ==
    /\ phase[c] = "asking"
    /\ phase' = [phase EXCEPT ![c] = "answered"]
    /\ seen' = [seen EXCEPT ![c] = recorded]
    /\ UNCHANGED <<usage, cache, attempt, outcome, breaker, history, faults>>

\* ... or fails: DB_ERROR, the call is given up before the provider.
ReadFails(c) ==
    /\ phase[c] = "asking"
    /\ phase' = [phase EXCEPT ![c] = "idle"]
    /\ UNCHANGED <<usage, cache, seen, attempt, outcome, breaker, history, faults>>

\* The reply arrives, however old it is by then; getToday caches it.
DecideOnReply(c) ==
    /\ phase[c] = "answered"
    /\ IF Cached
       THEN /\ cacheVal' = [cacheVal EXCEPT ![Home[c]] = seen[c]]
            /\ cacheLeft' = [cacheLeft EXCEPT ![Home[c]] = CacheTtl]
       ELSE UNCHANGED cache
    /\ Decide(c, seen[c])
    /\ UNCHANGED <<usage, faults>>

-----------------------------------------------------------------------------
\* Faulty variant: one attempt too many.
RetryOnceMore(c) ==
    /\ phase[c] = "calling"
    /\ attempt[c] <= Attempts
    /\ attempt' = [attempt EXCEPT ![c] = @ + 1]
    /\ OneMoreSent
    /\ UNCHANGED <<usage, cache, phase, seen, outcome, breaker, lost, faults>>

\* retry: the next attempt passes neither the gate nor the breaker.
Retry(c) ==
    /\ phase[c] = "calling"
    /\ attempt[c] < Attempts
    /\ attempt' = [attempt EXCEPT ![c] = @ + 1]
    /\ OneMoreSent
    /\ UNCHANGED <<usage, cache, phase, seen, outcome, breaker, lost, faults>>

Succeed(c) ==
    /\ phase[c] = "calling"
    /\ failures' = [failures EXCEPT ![Home[c]] = 0]
    /\ phase' = [phase EXCEPT ![c] = "recording"]
    /\ attempt' = [attempt EXCEPT ![c] = 0]
    /\ outcome' = [outcome EXCEPT ![c] = "success"]
    /\ UNCHANGED <<usage, cache, seen, circuit, cool, history, faults>>

\* The last attempt fails; openedAt is set whether or not it already was.
GiveUp(c) ==
    LET i == Home[c]
        trips == failures[i] + 1 >= Threshold
    IN  /\ phase[c] = "calling"
        /\ attempt[c] = Attempts
        /\ failures' = [failures EXCEPT ![i] = @ + 1]
        /\ circuit' = [circuit EXCEPT ![i] = IF trips THEN "open" ELSE @]
        /\ cool' = [cool EXCEPT ![i] = IF trips THEN Cooldown ELSE @]
        /\ phase' = [phase EXCEPT ![c] = "recording"]
        /\ attempt' = [attempt EXCEPT ![c] = 0]
        /\ outcome' = [outcome EXCEPT ![c] = "failure"]
        /\ UNCHANGED <<usage, cache, seen, history, faults>>

\* Faulty variant: failed calls are not counted on any provider.
ChargeSuccess(result) == IF result = "failure" THEN 0 ELSE 1

\* What record_api_usage adds: a failed DataForSEO call has costUsd 0.
Charge(result) == IF provider = "dataforseo" /\ result = "failure" THEN 0 ELSE 1

Record(c) ==
    /\ phase[c] = "recording"
    /\ recorded' = recorded + Charge(outcome[c])
    /\ phase' = [phase EXCEPT ![c] = "noted"]
    /\ outcome' = [outcome EXCEPT ![c] = "none"]
    /\ UNCHANGED <<provider, cache, seen, attempt, breaker, history, faults>>

\* Faulty variant: the cached counter survives the recording.
RecordedKeepingCache(c) ==
    /\ phase[c] = "noted"
    /\ phase' = [phase EXCEPT ![c] = "idle"]
    /\ UNCHANGED <<usage, cache, seen, attempt, outcome, breaker, history, faults>>

\* The RPC's reply arrives: cache.delete(todayKey).
Recorded(c) ==
    /\ phase[c] = "noted"
    /\ cacheLeft' = [cacheLeft EXCEPT ![Home[c]] = 0]
    /\ cacheVal' = [cacheVal EXCEPT ![Home[c]] = 0]
    /\ phase' = [phase EXCEPT ![c] = "idle"]
    /\ UNCHANGED <<usage, seen, attempt, outcome, breaker, history, faults>>

\* The RPC fails, or its reply is lost: logged and swallowed.
RecordFails(c) ==
    /\ phase[c] \in {"recording", "noted"}
    /\ phase' = [phase EXCEPT ![c] = "idle"]
    /\ outcome' = [outcome EXCEPT ![c] = "none"]
    /\ lost' = lost + IF phase[c] = "recording" THEN 1 ELSE 0
    /\ Fault
    /\ UNCHANGED <<usage, cache, seen, attempt, breaker, sent>>

On(i) == {c \in Calls : Home[c] = i}

\* The platform ends an instance: its calls, cache and breaker are gone.
Kill(i) ==
    LET unrecorded == {c \in On(i) : phase[c] \in {"calling", "recording"}}
    IN  /\ \E c \in On(i) : phase[c] # "idle"
        /\ phase' = [c \in Calls |-> IF c \in On(i) THEN "idle" ELSE phase[c]]
        /\ seen' = [c \in Calls |-> IF c \in On(i) THEN 0 ELSE seen[c]]
        /\ attempt' = [c \in Calls |-> IF c \in On(i) THEN 0 ELSE attempt[c]]
        /\ outcome' = [c \in Calls |-> IF c \in On(i) THEN "none" ELSE outcome[c]]
        /\ cacheVal' = [cacheVal EXCEPT ![i] = 0]
        /\ cacheLeft' = [cacheLeft EXCEPT ![i] = 0]
        /\ failures' = [failures EXCEPT ![i] = 0]
        /\ circuit' = [circuit EXCEPT ![i] = "closed"]
        /\ cool' = [cool EXCEPT ![i] = 0]
        /\ lost' = lost + Cardinality(unrecorded)
        /\ Fault
        /\ UNCHANGED <<usage, sent>>

Tick ==
    /\ cacheLeft' = [i \in Instances |-> IF cacheLeft[i] > 0 THEN cacheLeft[i] - 1 ELSE 0]
    /\ cacheVal' = [i \in Instances |-> IF cacheLeft[i] > 1 THEN cacheVal[i] ELSE 0]
    /\ cool' = [i \in Instances |-> IF cool[i] > 0 THEN cool[i] - 1 ELSE 0]
    /\ UNCHANGED <<usage, call, failures, circuit, history, faults>>

Step(c) ==
    \/ DecideOnCache(c)
    \/ AskUsage(c)
    \/ ReadUsage(c)
    \/ ReadFails(c)
    \/ DecideOnReply(c)
    \/ Retry(c)
    \/ Succeed(c)
    \/ GiveUp(c)
    \/ Record(c)
    \/ Recorded(c)

Next ==
    \/ \E c \in Calls : Step(c) \/ RecordFails(c)
    \/ \E i \in Instances : Kill(i)
    \/ Tick

Spec == Init /\ [][Next]_vars

-----------------------------------------------------------------------------
\* Calls that passed the gate, or will, on a counter below the limit, and
\* are not recorded yet.
Committed ==
    {c \in Calls : \/ phase[c] \in {"calling", "recording"}
                   \/ phase[c] = "answered" /\ ~Blocked(seen[c])}

(***************************************************************************)
(* SpendBound: the monthly DataForSEO spend passes the blocking threshold  *)
(* by at most one call per caller, minus one: read and decision are not    *)
(* atomic, and every caller may decide on a counter the others are about   *)
(* to raise (usageMonitor.ts:103-129, 152-170).                            *)
(***************************************************************************)
SpendBound ==
    provider = "dataforseo" =>
        recorded + Cardinality(Committed) <= Limit - 1 + Cardinality(Calls)

(***************************************************************************)
(* QuotaBound: the 2-second cache lets the NVIDIA counter overshoot more:  *)
(* on an instance of n callers, every select that was answered before the  *)
(* limit may refill the cache after a recording cleared it, which lets     *)
(* each idle caller through once more: n + (n - 1) + ... + 1 calls, the    *)
(* number of pairs of callers of one instance.                             *)
(***************************************************************************)
QuotaSlack ==
    Cardinality(UNION {{{c, d} : d \in On(Home[c])} : c \in Calls})
QuotaBound ==
    provider # "dataforseo" => recorded <= Limit - 1 + QuotaSlack + faults

(***************************************************************************)
(* SentAccounted: what was sent on an NVIDIA key is covered by what was    *)
(* recorded, up to the retries (a call counts once however often it is     *)
(* retried), the calls under way and the calls that were never recorded.   *)
(***************************************************************************)
UnderWay == {c \in Calls : phase[c] \in {"calling", "recording"}}
SentAccounted ==
    provider # "dataforseo" =>
        sent <= Attempts * (recorded + Cardinality(UnderWay) + lost)

(***************************************************************************)
(* ClosedBelowThreshold: a breaker that lets calls through has seen fewer  *)
(* failures than the threshold, also when calls admitted before it opened  *)
(* fail or succeed while it is open or half-open.                          *)
(***************************************************************************)
ClosedBelowThreshold ==
    \A i \in Instances : circuit[i] = "closed" => failures[i] < Threshold

(***************************************************************************)
(* RaceByOneCall: usageMonitor.ts:11-12, "concurrent lambdas cannot race   *)
(* past a limit by more than one in-flight call".                          *)
(***************************************************************************)
RaceByOneCall == recorded <= Limit + 1
=============================================================================
