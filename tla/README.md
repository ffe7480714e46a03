# HotelIQ backend: models and proofs

TLA+ models of the HotelIQ repository (`src/`), the TLC configurations that
check them on small instances, and theorems about them that TLAPS checks.
Line numbers refer to the files of the repository; paths below omit the leading
`src/` of the checkout where the name is unambiguous.

## 1. The system

Two pipelines share a Postgres database. Enrichment pulls hotels from a client
database into a job queue; workers search the web for each hotel (DataForSEO),
normalise the evidence, let an LLM write a summary and upsert the hotel. Search
turns a user's message into filters (LLM), queries the hotels and answers. An
operations panel lets an administrator drive ingestion runs from the browser.
Everything on the server runs in short-lived serverless functions (10 s at most,
`vercel.json`): process memory is per instance and disposable, the database is
the only shared state, and nothing in the code uses transactions beyond one
statement.

| component | state | operations | talks to |
|---|---|---|---|
| ingestion queue (`queue.ts`, `0004_queue.sql`) | table `ingestion_jobs` | enqueue, claim (`SKIP LOCKED`), complete, fail | Postgres |
| ingestion worker (`ingestionService.ts`, `ingest-worker.ts`, `scripts/ingest5.ts`) | the batch of one invocation, in memory | claim a batch, enrich job by job, halt on a quota | queue, provider clients, hotel repository |
| usage monitor (`usageMonitor.ts`, `0003_usage.sql`) | table `api_usage_daily`, a 2 s cache per instance | gate, record, snapshot | Postgres |
| provider clients (`nvidiaClient.ts`, `dataForSeoClient.ts`) and `resilience.ts` | a circuit breaker per instance and provider | gated, retried, recorded calls | usage monitor, providers |
| pipeline orchestrator (`pipelineOrchestrator.ts`, `0006_pipeline_runs.sql`, `api/admin/run.ts`) | table `pipeline_runs` | start, step, latest | queue, worker |
| operations panel (`public/admin.js`) | per tab: `authed`, `isRunning`, `stepPending`, requests and timers | log in and out, start, step until the run ends, retry on 504 | `api/admin/run`, `api/admin/auth` |
| admin session (`adminAuth.ts`, `api/admin/auth.ts`) | the browser's cookie; nothing on the server | issue, clear, verify | |
| hotel repository (`hotelRepository.ts`, `0001_init.sql`, `0005_fix_unique_constraints.sql`) | table `hotels` and its unique constraints | upsert by one of two keys, find and write without constraints, search | Postgres |
| client hotel API (`clientHotelApi.ts`) | none | list a page, map its records | client database |
| normalizer and summary generator (`normalizer.ts`, `summaryGenerator.ts`) | none | extract facts, score; fact sheet, summary | provider clients |
| query search (`searchService.ts`, `queryParser.ts`, `searchCache.ts`, `0002_search.sql`) | response cache per instance | parse (2 LLM attempts, fallback), search, reply | provider clients, repository |
| middleware (`http.ts`) | rate-limit windows per instance | limit | |
| chat frontend (`public/chat.js`) | chats in `localStorage`, mirror of the open chat | new, load, send, retry | `api/chat` |

Hard behaviours, and where they come from:

* **Unfenced updates.** `completeJob`, `failJob` and `patchRun` update by id,
  with no check that the writer still owns what it writes. Whether that is safe
  depends on durations (10 s against 15 minutes) and on who else may hold the row.
* **Ended functions and lost replies.** A function can be ended between any two
  awaits; an update can be applied and its reply lost. Rows then wait for a
  reclaim, counters miss work that was done, catch blocks write over successes.
* **Check, then act.** The usage gate, `createRun` and the frontend's storage
  all read, decide, and write later.
* **State of one instance.** Caches and breakers are shared by the concurrent
  calls of one instance and by nobody else.

`PROJECT.json` lists these at their lines ("hazards"), with the properties that
would catch them.

What makes each part correct: the queue gives a job to one worker at a time and
settles it once, on evidence, eventually; the gate bounds what is spent; the
breaker is closed only below its threshold; a run's counters agree, never go
back, claim only work that was done, and the run ends; a tab's button tells
whether its loop goes on, and of a run's steps at most one has not been given up
by a timeout; the table has one row per hotel, a completed hotel
is in it for good, and what it says follows from the evidence; a reply is fresh, the
rate limit is what it says, and a chat loses no message.

## 2. Modules

| module | models |
|---|---|
| `IngestionQueue` | the table and the operations of `queue.ts` on it, as operators |
| `IngestionWorker` | any number of invocations of `runIngestionWorker` over that table |
| `LeaseQueue` | abstract: what the queue promises (submit, lease, release) |
| `ProviderCalls` | concurrent provider calls: gate, cache, breaker, retries, recording |
| `PipelineRun` | runs, the tabs that step them and duplicate steps, over `LeaseQueue` |
| `SearchCache`, `RateLimiter` | the two memories of a chat instance and their operations, as operators |
| `ChatSearch` | concurrent chat requests of one instance over both |
| `ChatClient` | browser tabs over the chats in `localStorage` |
| `AdminPanel` | the panel's tabs, their requests and timers, and the session cookie |
| `RunDriver` | abstract: what `PipelineRun` takes a tab to be |
| `Normalizer` | facts, keywords, score and fact sheet of a hotel, as operators |
| `HotelStore` | concurrent enrichments that write the table `hotels`, over `Normalizer` and `LeaseQueue` |
| `IngestionWorkerProofs`, `ProviderCallsProofs`, `PipelineRunProofs`, `AdminPanelProofs`, `HotelStoreProofs`, `RateLimiterProofs`, `ChatSearchProofs`, `ChatClientProofs` | theorems (`RateLimiterProofs`: lemmas about the operators of `RateLimiter`) |
| `MCIngestionWorker`, `MCProviderCalls`, `MCPipelineRun`, `MCChatSearch`, `MCChatClient`, `MCHotelStore` | instances for TLC (`AdminPanel` needs none) |

`IngestionWorker` refines `LeaseQueue` (property `ImplementsLeaseQueue`, theorem
`WorkersLeaseJobs`); `PipelineRun` and `HotelStore` are built on instances of
`LeaseQueue`, so that orchestrator and table are checked against what the queue is
shown to do, without its timestamps. `AdminPanel` refines `RunDriver` (property
`ImplementsRunDriver`, theorem `TabsDriveRuns`), the tab that `PipelineRun`
assumes. Operators marked "Faulty variant" are plausible mistakes in the
definition that follows them; no behaviour of the models uses them. They show
that the properties can fail.

### IngestionQueue and IngestionWorker

Time is counted in ticks, and timestamps are kept as the delays the code
compares them by: `wait` (until `run_after`) and `age` (since `started_at`).
`attempts` saturates at `AttemptCap`, above which no comparison changes.

| code | action |
|---|---|
| `enqueueFromClientDatabase`, upsert with `ignoreDuplicates` | `Enqueue` |
| `claimJobs`; committed with its reply lost | `Claim`; `ClaimLost` |
| loop: next job, `enrichOne` succeeds or throws, the gate throws | `StartJob`, `StoreHotel`, `EnrichFails`, `LimitReached` |
| `completeJob` succeeds or throws (applied or not) | `Complete`, `CompleteFails` |
| `failJob` succeeds, or its error is swallowed | `Fail`, `FailLost` |
| the platform ends the function; time | `Kill`, `Tick` |

The loop takes the jobs of its batch in any order: `RETURNING` promises none.
`Tick` is disabled once an invocation has lasted `MaxDuration`: that is the
platform's promise (`vercel.json`), and `worker_unlimited.cfg` drops it.

### ProviderCalls

One behaviour is about one provider. A call is idle, asking (the select is
under way), answered (its reply is), calling, recording (the RPC is under way)
or noted (its reply is); everything between two awaits is one action, so the
gate's decision and the breaker's are one step (`Decide`). DataForSEO's spend
is counted in tasks. The threshold of the gate is computed as the code does,
in whole tasks. `sent` and `lost` are history variables.

| code | action |
|---|---|
| `getToday` cache hit; select sent, evaluated, failed, answered | `DecideOnCache`; `AskUsage`, `ReadUsage`, `ReadFails`, `DecideOnReply` |
| `assertWithinLimits` throws; `CIRCUIT_OPEN`; call let through | `Refuse`, `Reject`, `LetThrough` in `Decide` |
| `retry`, result of the last attempt | `Retry`, `Succeed`, `GiveUp` |
| `record_api_usage`, its reply, its failure | `Record`, `Recorded`, `RecordFails` |
| instance ended; time | `Kill`, `Tick` |

`GiveUp` needs the last attempt: every error the clients throw inside `retry`
is retryable. That includes a refused key: `isRetryable`'s comment
(nvidiaClient.ts:67) excludes auth errors, but they are thrown as
`UPSTREAM_ERROR` (110), which it retries.

### PipelineRun

A caller is a panel tab, which repeats steps until the answer is not "running",
or the sender of one duplicate step (one that is still being executed when a 504
makes the tab send the next). A step reads the row, does its work and patches
absolute values; between these, other callers move. `active` is the set of running rows
whose `last_activity_at` is younger than 15 minutes; `GoStale` lets any run age.
`Elsewhere` is the rest of the system at the same queue.

| code | action |
|---|---|
| `createRun`: check; insert | `Start`; `Insert` |
| `stepRun`: select; what to do next | `Read`, `NextStation` |
| one page queued; failure | `EnqueuePage`, `EnqueueFails` |
| `runIngestionWorker(log, 1)` | `Claim`, `ClaimFails`, `JobSucceeds`, `JobFails` |
| `patchRun`; it throws, applied or not | `Write` (with `Outcome`), `WriteFails` |
| the answer in the tab; 504; tab gone | `Answer`, `Kill`, `Leave` |

A step that is ended gives its job back to the queue at once, although the row
stays processing for 15 minutes: a queued job of `LeaseQueue` need not be
claimable, and `Claim` may find nothing at any time.

### SearchCache, RateLimiter and ChatSearch

The cache is the sequence of the Map's insertion order, with the time left of
each entry and the age of the data in it; a timestamp of the limiter is its age.
Timestamps are pushed in order, so the ages are oldest first and the code's filter
leaves an end of the list (`Recent`); that this is the filter, on every such list
of the instance, is an assumption that TLC evaluates (`RecentIsFilter`).
A query stands for all spellings that `normalizeKey` joins, a set of filters for
whether it carries a signal. A provider call is three waits: the select of the
usage gate, the model, and the recording. Only the model's has a timeout; of the
other two it is assumed that a round trip to the database takes `RoundTrip` at most.
A call that an open breaker refuses is recorded without the model's wait. Any number
of times the instance may be replaced by a cold one.

| code | action |
|---|---|
| `rateLimit` throws; body invalid (after it was counted) | `Refuse`; `Malformed` |
| `responseCache.get`: a response; null, first provider call | `CacheHit`; `CacheMiss` |
| the gate passes; the fetch ends or is aborted | `GatePasses`; `CallEnds` |
| filters valid; call failed, timed out or invalid; quota or breaker | `Understood`; `AttemptFails`; `CallRefused` |
| `filtersAreEmpty`, guidance or search | `SearchWith` |
| `searchHotels`, `responseCache.set`, reply; it throws | `SearchAnswers`; `SearchFails` |
| the request ended at 10 s; instance replaced; reply read; time | `EndRequest`; `Recycle`; `Leave`; `Tick` |

`admitted` and `promise` are histories kept apart from the limiter's own list, so
that the list is checked against what was really let through. Both are of one
instance, as the limit is.

### ChatClient

A handler of a tab is one step, also across `localStorage`. A message is a
question or the reply to one; error texts are replies. The chats that two tabs
ever had open at once are kept in the history `shared`: their messages can be
overwritten by a stale mirror, and the properties promise nothing about them.
A reply joins the chat that is open when it arrives, which need not be the one of
its question, or is lost when none is: `RepliesAreKept` says that it is there once,
and nowhere else.

| code | action |
|---|---|
| `sendMessage` up to its `fetch` (button, Enter, Retry); after it | `Send`; `Answer` |
| `loadChat`; New chat; the page is reloaded | `LoadChat`; `NewChat`; `Reload` |

Rendering is taken not to throw: an exception of `renderHotelList` inside the `try`
would store an error text after the reply. `localStorage` is taken to accept
every write.

### AdminPanel and RunDriver

A request under way and a callback of `setTimeout` are tasks; every handler of an
answer or a timer is one action, since nothing else runs in a tab meanwhile. The
server side of a request is one action too: of `stepRun` only the status of the
run matters here, and `PipelineRun` has the rest. The session a request carries
is the cookie when it was sent, and can expire on its way. A lost connection
leaves the handler at work without anybody waiting for it; so does a reload; and so
may a 504, after which "the hotel may still be processing on the server"
(admin.js:513): the tab takes its step for ended and repeats it after two seconds,
beside the one that goes on. Such a request is `late`.

| code | action |
|---|---|
| `init`, `checkSession`; its answer | `Load`; `Checked` |
| `submitAuth`, `logout`; their answers | `SubmitAuth`, `Logout`; `LoggedIn`, `LoggedOut` |
| `startRun`; its answer | `StartRun`; `Started` |
| `scheduleStep`, `doStep`; the step's answer, the retry after a 504 | `Schedule` in `Started`, `Stepped`, `RetryStep`; `DoStep`; `Stepped`; `RetryStep` |
| `finishRun`, `handleAuthExpired` | `EndLoop` |
| `requireAdminSession` refuses | `Deny` |
| `api/admin/run`: `getLatestRun`, `createRun`, `stepRun` | `Status`, `Create`, `Advance` |
| `api/admin/auth`: POST, DELETE | `Issue`, `Clear` |
| request or reply lost; 504 with the handler still at work | `Lose`; `Overrun` |
| token expired or password changed; 15 minutes | `Expire`; `GoStale` |

A wrong password is a login answered with an error (`Lose`). The status request
that `submitAuth` sends after a login (`refreshStatus`, admin.js:411) only displays,
and is left out.

### Normalizer and HotelStore

A job is a record of the client database; `Jobs` drops nameless ones, as
`mapRecord` does. A search result is a rating, a number of reviews and the terms
its text mentions; which text mentions what is the business of the patterns. The
decisions are modelled: the rating of the most reviewed result, repeated terms
dropped, facilities in the order of the patterns, lists cut, flags true or unknown
but never false, keywords, the score in ten-thousandths and the fact sheet. The joined text is the set of its places, pairs of
a result and a mention, in their order (`Before`): `dedupe` keeps the first place of
each word, and what it returns is the words at the first few of these. The
logarithm in the score is rounded down to a whole power of ten (`Magnitude`), so two
review counts of the same magnitude score alike in the model. `HotelStore` takes
each round trip to the database as an action, on a table that has both unique
constraints, one or none. A constraint compares as SQL does: null equals nothing.

| code | action |
|---|---|
| `enqueueFromClientDatabase`; claim; `enrichOne` up to the upsert | `Import`; `Claim`; `Enrich` |
| `upsertHotel`: `ON CONFLICT`; error 42P10, no such constraint | `Upsert`; `FallBack` |
| select by external id; by name and city; update; insert | `LookById`; `LookByName`; `Update`; `Insert` |
| a statement returns, throws, or is applied and its reply lost | the disjuncts of `Write` |
| `completeJob`; anything else goes wrong in between | `Complete`; `Break` |
| `0005_fix_unique_constraints.sql`, one statement | `Migrate` |

The errors of the two lookups are ignored by the code (hotelRepository.ts:81, 86)
and taken for "no row"; `misled` keeps the jobs this happened to.

## 3. Runs

| run | instance | what it checks |
|---|---|---|
| `worker` | 2 jobs, 2 workers, batches of 2, 2 faults | `Exclusive`, `HolderOwnsRow`, `SettledOnEvidence`, `SettledStays`, `ImplementsLeaseQueue`, `Settles` |
| `provider` | 3 calls on 2 instances, 2 providers, warning below the soft gate, 1 fault | `SpendBound`, `QuotaBound`, `SentAccounted`, `ClosedBelowThreshold` |
| `pipeline` | 1 run of 1 or 2 hotels on overlapping pages, a tab and a duplicate step, 1 ended function | `RowsAddUp`, `WorkBound`, `SuccessesAreReal`, `SummaryIsTrue`, `RunAdvances`, `RunEnds` |
| `panel` | 2 tabs, 2 runs, 2 requests or timers at a time | `ButtonTellsLoop`, `OnlyLateStepsOverlap`, `ImplementsRunDriver`, `SignedOutStops` |
| `hotels` | 2 workers, 2 hotels of one name and city (one with an external id), a nameless record, 3 lists of search results, 13 facility patterns, tables with both constraints and with none | `OneRowPerHotel`, `DoneHotelsAreStored`, `DoneRowsStay`, `SummaryFitsFacts`, `FactsAreEvidenced`, `RankedByEvidence` |
| `chat` | 2 requests at a time, 2 clients, 3 queries, 2 cache entries | `CacheKeepsItsLimit`, `AnswersAreFresh`, `LimiterIsExact` |
| `client` | 2 tabs, 3 chats, 3 questions | `MirrorIsStored`, `RepliesAreKept`, `NothingIsForgotten` |

Each of them also has its module's `TypeOK` (that of `ChatClient` includes that a
chat begins with a question). TLC finds 80 545 states for `client`, 299 044 for
`panel`, 789 964 for `hotels`, between one and four million for each of `pipeline`,
`provider` and `chat`. Five runs expect a violation. Each is a sentence of the
repository that the code does not keep:

| run | sentence | what happens |
|---|---|---|
| `worker_unlimited` | queue.ts:9-11, a job is never processed twice | a script without a time limit is still at work when its row is reclaimed |
| `provider_race` | usageMonitor.ts:10-12, past a limit by at most one call | every caller may decide on the same counter |
| `pipeline_active` | pipelineOrchestrator.ts:93, rejects if one is active | two checks, then two inserts |
| `chat_fallback` | queryParser.ts:13-14, the fallback lets search always proceed | two calls that hang for 6 s outlast the function's 10 s |
| `hotels_identity` | 0001_init.sql:34, name and city identify a hotel without external id | a null city conflicts with nothing: an enrichment repeated after its insert adds a second row |

More sentences were found not to hold without a run of their own:

* admin.js:14 and 31: the panel drives one step at a time and prevents concurrent
  step calls. A 504 clears `stepPending` and the step is repeated beside the one still
  at work (`Overrun`, `RetryStep`, `DoStep`, all taken in `panel`). Without the
  exception of late steps `OnlyLateStepsOverlap` fails in 12 states.
* usageMonitor.ts:18-20: the block uses the stricter of warning and soft gate. The
  code takes the laxer one, capped by the hard stop; only the defaults coincide.
* README.md:107-108 gives the worker 300 s and a cron; `vercel.json` gives it 10 s
  and configures no cron. The models take the 10 s; with 300 s, too, a worker ends
  long before the 15 minutes after which its rows are reclaimed.
* README.md:122: failed jobs retry up to 3 times. The reclaim of
  `claim_ingestion_jobs` does not look at `attempts`, so a job whose function is ended
  each time is tried without end (`attempts` saturates in the model for that reason).
* resilience.ts:94 speaks of one probe: after the cooldown all callers pass until
  the first one has answered (`Decide` lets them).

**Bounds.** Two jobs and two workers let batches overlap in every way that matters:
a job reclaimed while its first holder is alive or gone, and a batch half done when
it is halted. The tick constants keep the order of the code's durations: 10 s of
function < 2 minutes of backoff < 15 minutes to the reclaim. Both backoffs (2 and 4
minutes) fit below the reclaim interval. Three callers on two instances make cache
and breaker shared and stale at once; quota 3 gives the threshold 2, warning 2 and
hard stop 5 give the block at 4, so that the two thresholds differ. In `pipeline`
the first page has two hotels and the second one of them again: a page can queue
more than was requested, or nothing new, and the enqueue phase can end by its limit
and by its last page. Faults (kills, lost recordings and replies) are counted by
`MaxFaults` where they could repeat for ever; failures of statements that code
handles itself are not bounded. `MaxDuplicates` bounds duplicate steps, `SentCap`
the history of requests. `chat` has one more query than entries, so that entries are
evicted for others and for themselves, and one tick per wait and lifetime, two per
request and window; `chat_fallback` has the code's ratio of 6 s to 10 s in ticks of
2 s, and round trips that take no time, which is the best case. Three questions let
a tab answer late, load and send again in a chat of its own while another tab does
the same; `MaxQuestions` bounds them. Two runs in `panel` let a second one start
when the first is stale or ended, while a request for the first is still under way;
two slots suffice for a step of each tab, or for a step and a logout, a second login
or a request left behind by a reload. One namesake with and one without an external
id make the two keys of `upsertHotel` meet, on one table as the lookups by hand and
as the conflicts; `MaxRows` (2) leaves room for a second row of either hotel. The
three lists of search results make a hotel rated 1 out of 5 without reviews, one
that is not rated, and one on a scale of a hundred with reviews out of order and one
facility and one landmark more than a hotel may have: of any two of them one is
nowhere behind the other, so that every pair of rows tests the ranking. In
`pipeline` one run is checked; that runs do not count each other's successes is
proved for any number of them (`CountedSuccessesAreReal`). None of the bounds is in
a proof but `MaxRows`, `MaxFaults` and `MaxDuplicates`, which are any numbers there.

**Fairness.** `worker`: time passes, an invocation keeps executing, and a worker
that can claim eventually does. The last is an assumption on the deployment:
README.md:108 and `ingest-worker.ts` name a cron, `vercel.json` configures none.
No fairness is assumed of importing or of faults. `pipeline`: a request under
way is executed; a tab may leave at any time, and `RunEnds` promises an end only
to a run that is being stepped. `panel`: requests are answered, at the latest when
the platform ends them, and the browser runs its callbacks; nothing is assumed of
users, the clock and the session. The other runs check safety only.

**Deadlock** is checked in every run.

## 4. Proofs

All theorems hold for every value of the constants that meets the named
assumptions (`QueueAssumption`, `WorkerAssumption`, `ProviderAssumption`,
`PipelineAssumption`, `PanelAssumption`, `NullAssumption`, `StoreAssumption`,
`RowAssumption`, `CacheAssumption`, `LimiterAssumption`, `ChatAssumption`,
`ClientAssumption`). All invariants and action properties that the runs check are
theorems, and both refinements.

*IngestionWorkerProofs.* `TypeCorrect` needs no more. The others have the
hypothesis `ShortInvocations` (`MaxDuration <= StaleAfter`), which is what the
code relies on without stating it, and which `worker_unlimited` shows to be
necessary. `Exclusive` alone is not inductive. The invariant says that a held
row is either processing, with an age that is at most the time its holder has
been running, or done with the reply of its completion lost; that a row
held by one invocation is held by no other; and that the job at hand is in the
batch. A held row then is too young to be reclaimed, so claims take only rows
that nobody holds. The refinement theorem maps each action to `Submit`, `Lease`,
`Release` or a stutter.

*ProviderCallsProofs.* `SpendBound` counts callers that passed the gate, or
that hold a reply that will, and have not been recorded. A caller that reads a
counter below the limit joins them, and the invariant bounds counter plus their
number by the limit and the number of callers; the step that needs care is
`Record`, which moves one from the second summand to the first.
`ClosedBelowThreshold` is inductive with the types.
`SentIsAccounted` (`SentInv`) counts attempts: the requests sent are at most
`Attempts` for each call that was recorded or lost, plus the attempts a call under way
has made, as a set of pairs of a call and an attempt (`Tries`), so that a retry adds
one pair and a recording removes `Attempts` of them at most.
`QuotaIsBounded` (`QuotaInv`) bounds the overrun at the limit. A caller that holds a
stale reply will let one call through, and refill the cache of its instance for all
others; it stands for a pair `{c, d}` with each caller `d` of its instance, and a call
under way for the singleton `{c}`. The pairs still open and the counter together
never exceed the limit by more than `QuotaSlack` and the faults: a stale decision
gives up its pairs with the free callers, whose singletons take their place.

*PipelineRunProofs.* The invariant has six parts: types; the leases of callers
are disjoint, disjoint from what is settled, and only a caller inside a worker
step holds one; counters of rows and of what callers remember of them add up and
are covered by `wins`; at most one caller is inside a step of a run that has no
duplicates, and its memory is the row's; a row not inserted is untouched; and
without duplicates what the steps claimed is what they enriched, what the row counts
as failed, an ended function each, and the one job that its step has claimed and not
yet counted (`DueInv`). A run is completed only with a failed count of zero, which
leaves `SummariesAreTrue` the ended functions.
`RunAdvances` follows from the same invariant as an action property.
`WorkIsBounded` needs a second one, `WorkInv`. A run's bill (`Bill`) is what its steps
claimed, plus its size for every duplicate step that may still write the counter
back, less the job such a step has already claimed; it is at most the size once for
every duplicate and the faults (`Paid`), plus what the row, or the memory of the
tab's step, says was claimed, plus the one that is claimed and not yet written
(`Owed`). A late write of a duplicate may reset the counter by the size at most,
which is the share it gives up by writing; a step whose write is lost has cost a
fault.

*AdminPanelProofs.* `ButtonTellsLoop` holds because a loop hands its slot on: the
invariant `PanelInv` says that a tab that is running has one task of the loop and
an idle one none, that a step is pending exactly while the loop pauses or steps
(so that `scheduleStep` never drops one), that tasks left behind by reloads and
lost connections are requests under way (`Orphans`), that a late request belongs to
no tab (`LateOnes`), that no two tasks of tabs name the same run, and no two others
that are not late, except a step that is still being executed and its lost answer
(`RunsKept`). The first two give the button, the last two `OnlyLateOverlap`.
`TabsDriveRuns` maps each action to one of `RunDriver` or a
stutter.

*HotelStoreProofs.* `StoreInv` rests on the leases: only the worker that holds a
job writes rows of its seed, so that what a successful lookup told it stays true
until it writes (`Courses`). Queued jobs have different keys (`Keys`), and rows are
only of jobs that were queued (`Seeds`); two rows that agree on the columns of
either constraint then have the same name and city, so an update that hits
another hotel's row leaves a row of that name and city there. That is why
`DoneHotelsAreStored` and `DoneRowsStay` speak of name and city, and why neither
needs the constraints. `RowAssumption` says that the value for null is no row.
What rows say rests on `RowsMade`: every row is `Row` of a job, a list of results that
was evidence for it, and a summary of it. The rest is about `Normalizer` alone, for all
lists of results. `RankIs`: the places of a finite set have the ranks 1 to its
cardinality, each once, because different places have different numbers of places
before them; so `Dedupe` is defined, returns different words, only words said, and leaves
none out below its cap (`DedupeIs`). `BestRatedIs`: some rated result has the most
reviews and is the first of those, by the least counterexample. `FactsEvidenced`
follows for every column. `RankingFollowsEvidence` bounds each part of the score and
shows that it grows with what it counts (`MagnitudeIs`, `CompletenessIs`, `ScoreParts`),
an unknown rating standing for 1.5 out of five, for all ratings and review counts.

*ChatSearchProofs.* `SearchInv` has a part for the cache, `Sound`: no query twice,
the limit, and for an entry that is alive, that its age and the time it has left
are together at most `Ttl + MaxDuration`. Each operation of the cache keeps it
(`GotSound`, `EvictedSound`, `StoredSound`, `AgedSound`); a tick moves one unit from
the time left to the age, a hit moves the entry and neither number, and a store
brings an age that is at most the time its request has spent. The part for the
requests says just that.
`LimiterExact` rests on `LimiterInv`: the list of a client, filtered, is exactly the
history of what was let through in the last window, that history has at most
`MaxRequests` entries, and while it is full its oldest leaves the window before a
promised `Retry-After` is over (`Kept`). A tick keeps it because filtering the aged
list is the same as filtering the aged filtered list (`RecentOlder`, in
`RateLimiterProofs`), and the cleanup of the shared map because it deletes only lists
whose filter is empty. `TypeCorrect` combines both invariants.

*ChatClientProofs.* `MirrorIsStored` is inductive once two tabs with the same open
chat are on record (`Noted`). `RepliesAreKept` counts places, and needs that a
question awaits its answer in one tab, and no longer when it has it (`Awaited`),
that it has it in one chat (`AnsweredOnce`), and that every reply in a chat, or in
the mirror that will overwrite it, arrived there and is in it once (`StoredArrived`,
`MirrorsArrived`). That a chat begins with its title's question is part of
`TypeOK` and needs the same of mirrors (`Headed`). `NothingIsForgotten` is an action
property that follows: an unshared chat is replaced by its mirror and one message.

Only model-checked: the liveness properties `Settles`, `RunEnds` and
`SignedOutStops`, which the prover cannot reach (fairness is `ENABLED`). That `Recent` is the
code's filter is checked on the lists of the instance and not proved: the library has
no facts about `SelectSeq`.

## 5. Not modelled

* **Search.** `search_hotels` (0002_search.sql) ranks by text similarity and
  arithmetic on it; it reads only. Filters are abstracted to whether they carry a
  signal, so the prompts and the keyword patterns of `queryParser.ts` are left out,
  and with them the case that spellings which share a cache key parse differently.
* **Normalizer and summary.** The patterns that decide which text mentions what,
  the URL, snippets and domains. A rating is clamped to 0..10 and otherwise kept
  as it is, whatever scale it is on; the score cuts it at 5. The prompt and the text of a summary.
* **Hotel repository.** `searchHotels` reads; `findStaleHotels` is never called.
  Two hotels of the client database that share name and city, but not their
  external ids, cannot both be stored: the second enrichment takes over the row,
  or fails on the other constraint until its attempts are used up. `hotels` shows
  both, and the properties are stated so that they allow it.
* **Panel.** What is displayed: counters, phase, usage, banners. A run that its
  tab has abandoned cannot be resumed from the panel and blocks a start for 15
  minutes (`GoStale`); the panel says so nowhere.
* **Chat frontend.** Rendering, export, presentation, and a `localStorage` that is
  full or cleared.
* **Provider clients.** Day and month do not change during a behaviour of
  `ProviderCalls`; a DataForSEO task costs one unit, and a search that failed
  costs nothing, as the code records it.
* **No state of their own:** configuration, errors, logging, sanitising, bearer
  check and cryptography of the token, health and usage endpoints, diagnostics,
  demo data, styles and build files. Text processing is out of TLC's reach.

Left for later: theorems that the violated sentences hold under the condition that
the counterexamples break (a usage limit passed by one call at most when one caller
works at a time, one active run when nobody else is between check and insert).
