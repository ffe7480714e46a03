------------------------------ MODULE ChatSearch ------------------------------
(***************************************************************************)
(* POST /api/chat on one warm instance (api/chat.ts, searchService.ts,     *)
(* queryParser.ts): requests pass the rate limiter, look into the response *)
(* cache, ask the model for filters in at most two calls, fall back to     *)
(* keywords, search the database and store the response in the cache.      *)
(* Requests interleave at every await and share the cache and the limiter. *)
(* A provider call is three waits, for the usage gate, the model and the   *)
(* recording of the call; only the model has a timeout (ProviderCalls has  *)
(* what the gate decides).                                                 *)
(***************************************************************************)
EXTENDS SearchCache, RateLimiter

CONSTANTS Requests,     \* requests that may be under way at once
          CallTimeout,  \* timeoutMs of the query parser's calls, in ticks
          RoundTrip,    \* how long the gate and the recording of a call may
                        \* take, in ticks: the code sets no limit
          MaxDuration   \* maxDuration of api/chat.ts (vercel.json), in ticks

ASSUME ChatAssumption ==
    /\ {CallTimeout, MaxDuration} \subseteq Nat \ {0}
    /\ RoundTrip \in Nat

(***************************************************************************)
(* cache, hits   see SearchCache and RateLimiter                           *)
(* req[r]        phase: idle; asking: the usage gate reads its counters;   *)
(*               model: the call is under way; recording: it is being      *)
(*               recorded, refused: so is one that the breaker refused;    *)
(*               database: search_hotels is under way; done: a reply is    *)
(*               sent                                                      *)
(*               client          of a refused request                      *)
(*               query           of a request that missed the cache        *)
(*               attempt         of the parser's loop, 0 outside of it     *)
(*               waited, spent   time in this wait, since the request came *)
(*               age             of the data: since the search began, in a *)
(*                               reply when it was sent                    *)
(*               reply           kind of the reply                         *)
(* admitted[c]   history: ages of the requests of c let through, those in  *)
(*               the last Window                                           *)
(* promise[c]    history: time left until a refused client may come back   *)
(***************************************************************************)
VARIABLES cache, hits, req, admitted, promise

memory == <<cache, hits>>
history == <<admitted, promise>>
vars == <<memory, req, history>>

NoPromise == -1
AgeCap == MaxDuration + Ttl + 1

Replies == {"none", "limited", "invalid", "results", "guidance", "error", "ended", "lost"}

Unused == [phase |-> "idle", client |-> "none", query |-> "none", attempt |-> 0,
           waited |-> 0, spent |-> 0, age |-> 0, reply |-> "none"]

Sent(kind) == [Unused EXCEPT !.phase = "done", !.reply = kind]

Under(phase, r) == req[r].phase = phase
Calling == {"asking", "model", "recording", "refused"}
Busy(r) == req[r].phase \in Calling \cup {"database"}

Init ==
    /\ cache = <<>>
    /\ hits = [c \in Clients |-> <<>>]
    /\ req = [r \in Requests |-> Unused]
    /\ admitted = [c \in Clients |-> <<>>]
    /\ promise = [c \in Clients |-> NoPromise]

(***************************************************************************)
(* The handler up to its first await.                                      *)
(***************************************************************************)

(* rateLimit throws; sendError sets Retry-After. *)
Refuse(r, c) ==
    /\ Under("idle", r) /\ Full(hits, c)
    /\ req' = [req EXCEPT ![r] = [Sent("limited") EXCEPT !.client = c]]
    /\ promise' = [promise EXCEPT ![c] = RetryAfter(hits, c)]
    /\ UNCHANGED <<memory, admitted>>

LetThrough(r, c) ==
    /\ Under("idle", r) /\ ~Full(hits, c)
    /\ hits' = Noted(hits, c)
    /\ admitted' = [admitted EXCEPT ![c] = Append(@, 0)]
    /\ promise' = [promise EXCEPT ![c] = NoPromise]

(* parseBody throws after the request was counted. *)
Malformed(r, c) ==
    /\ LetThrough(r, c)
    /\ req' = [req EXCEPT ![r] = Sent("invalid")]
    /\ UNCHANGED cache

(* responseCache.get returns a response. *)
CacheHit(r, c, q) ==
    /\ LetThrough(r, c) /\ Live(cache, q)
    /\ cache' = Got(cache, q)
    /\ req' = [req EXCEPT ![r] = [Sent("results") EXCEPT !.age = cache[Place(cache, q)].age]]

(* It returns null; the first provider call begins with its gate. *)
CacheMiss(r, c, q) ==
    /\ LetThrough(r, c) /\ ~Live(cache, q)
    /\ cache' = Got(cache, q)
    /\ req' = [req EXCEPT ![r] = [Unused EXCEPT !.phase = "asking", !.query = q, !.attempt = 1]]

(***************************************************************************)
(* parseUserQuery, and what runSearch does with its filters: without any   *)
(* signal it replies at once, otherwise the search is sent.                *)
(***************************************************************************)

(* assertWithinLimits lets the call pass; the breaker may be open. *)
GatePasses(r) ==
    /\ Under("asking", r)
    /\ \E phase \in {"model", "refused"} :
          req' = [req EXCEPT ![r].phase = phase, ![r].waited = 0]
    /\ UNCHANGED <<memory, history>>

(* The fetch ends, at the latest with its timeout; either way it is recorded. *)
CallEnds(r) ==
    /\ Under("model", r)
    /\ req' = [req EXCEPT ![r].phase = "recording", ![r].waited = 0]
    /\ UNCHANGED <<memory, history>>

SearchWith(r, signal) ==
    IF signal
    THEN req' = [req EXCEPT ![r].phase = "database", ![r].attempt = 0, ![r].waited = 0]
    ELSE req' = [req EXCEPT ![r] = Sent("guidance")]

(* The answer passes SearchFiltersSchema, which also passes empty filters. *)
Understood(r) ==
    /\ Under("recording", r)
    /\ \E signal \in BOOLEAN : SearchWith(r, signal)
    /\ UNCHANGED <<memory, history>>

(* keywordFallback may find nothing but stopwords. *)
Fallback(r) == \E signal \in BOOLEAN : SearchWith(r, signal)

(* The gate's select or the call failed, or the answer was invalid: one more
   call, then the fallback. *)
AttemptFails(r) ==
    /\ Under("asking", r) \/ Under("recording", r)
    /\ \/ /\ req[r].attempt = 1
          /\ req' = [req EXCEPT ![r].phase = "asking", ![r].attempt = 2, ![r].waited = 0]
       \/ req[r].attempt = 2 /\ Fallback(r)
    /\ UNCHANGED <<memory, history>>

(* USAGE_LIMIT_REACHED, or CIRCUIT_OPEN once recorded: no second call. *)
CallRefused(r) ==
    /\ Under("asking", r) \/ Under("refused", r)
    /\ Fallback(r)
    /\ UNCHANGED <<memory, history>>

(***************************************************************************)
(* search_hotels and the reply.                                            *)
(***************************************************************************)

SearchAnswers(r) ==
    /\ Under("database", r)
    /\ cache' = Stored(cache, req[r].query, req[r].age)
    /\ req' = [req EXCEPT ![r] = [Sent("results") EXCEPT !.age = req[r].age]]
    /\ UNCHANGED <<hits, history>>

SearchFails(r) ==
    /\ Under("database", r)
    /\ req' = [req EXCEPT ![r] = Sent("error")]
    /\ UNCHANGED <<memory, history>>

(* The client has its reply; the slot is free for another request. *)
Leave(r) ==
    /\ Under("done", r)
    /\ req' = [req EXCEPT ![r] = Unused]
    /\ UNCHANGED <<memory, history>>

(***************************************************************************)
(* The platform and time.                                                  *)
(***************************************************************************)

(* A request that lasted MaxDuration is ended. *)
EndRequest(r) ==
    /\ Busy(r) /\ req[r].spent = MaxDuration
    /\ req' = [req EXCEPT ![r] = [Sent("ended") EXCEPT !.attempt = req[r].attempt]]
    /\ UNCHANGED <<memory, history>>

(* The instance is replaced by a cold one; its requests are lost. *)
Recycle ==
    /\ cache' = <<>>
    /\ hits' = [c \in Clients |-> <<>>]
    /\ req' = [r \in Requests |-> IF Busy(r) THEN Sent("lost") ELSE req[r]]
    /\ admitted' = [c \in Clients |-> <<>>]
    /\ promise' = [c \in Clients |-> NoPromise]

(* Faulty variant: the abort of the fetch is forgotten. *)
InTimeUnaborted ==
    \A r \in Requests :
        /\ Busy(r) => req[r].spent < MaxDuration
        /\ req[r].phase \in Calling \ {"model"} => req[r].waited < RoundTrip

(* The platform and the fetch end what lasts too long; RoundTrip is assumed. *)
InTime ==
    \A r \in Requests :
        /\ Busy(r) => req[r].spent < MaxDuration
        /\ Under("model", r) => req[r].waited < CallTimeout
        /\ req[r].phase \in Calling \ {"model"} => req[r].waited < RoundTrip

Tick ==
    /\ InTime
    /\ req' = [r \in Requests |->
                 IF req[r].phase \in Calling
                 THEN [req[r] EXCEPT !.spent = @ + 1, !.waited = @ + 1]
                 ELSE IF Under("database", r)
                      THEN [req[r] EXCEPT !.spent = @ + 1, !.age = @ + 1]
                      ELSE req[r]]
    /\ cache' = [i \in DOMAIN cache |->
                   [cache[i] EXCEPT !.left = IF @ = Expired THEN @ ELSE @ - 1,
                                    !.age = IF @ = AgeCap THEN @ ELSE @ + 1]]
    /\ hits' = [c \in Clients |-> Older(hits[c])]
    /\ admitted' = [c \in Clients |-> Recent(Older(admitted[c]))]
    /\ promise' = [c \in Clients |-> IF promise[c] > 0 THEN promise[c] - 1 ELSE promise[c]]

Next ==
    \/ \E r \in Requests :
        \/ \E c \in Clients :
            \/ Refuse(r, c)
            \/ Malformed(r, c)
            \/ \E q \in Queries : CacheHit(r, c, q) \/ CacheMiss(r, c, q)
        \/ GatePasses(r)
        \/ CallEnds(r)
        \/ Understood(r)
        \/ AttemptFails(r)
        \/ CallRefused(r)
        \/ SearchAnswers(r)
        \/ SearchFails(r)
        \/ Leave(r)
        \/ EndRequest(r)
    \/ Recycle
    \/ Tick

Spec == Init /\ [][Next]_vars

(***************************************************************************)
(* Properties                                                              *)
(***************************************************************************)

LongestWait == IF CallTimeout < RoundTrip THEN RoundTrip ELSE CallTimeout

(* The shape of the state. *)
TypeOK ==
    /\ cache \in Seq([query : Queries, left : Expired..Ttl, age : 0..AgeCap])
    /\ {hits, admitted} \subseteq [Clients -> Seq(0..Window)]
    /\ req \in [Requests -> [phase : Calling \cup {"idle", "database", "done"},
                             client : Clients \cup {"none"}, query : Queries \cup {"none"},
                             attempt : 0..2, waited : 0..LongestWait,
                             spent : 0..MaxDuration, age : 0..AgeCap,
                             reply : Replies]]
    /\ promise \in [Clients -> NoPromise..Window]

(* The cache never holds more than its limit, nor a query twice, although
   requests for one query that all missed store their answers one after the
   other and set evicts before it knows whether it adds (searchCache.ts:44). *)
CacheKeepsItsLimit ==
    /\ Len(cache) <= MaxEntries
    /\ \A i, j \in DOMAIN cache : cache[i].query = cache[j].query => i = j

(* No reply shows data that was read longer ago than a cache lifetime and a
   request: hits move an entry but never prolong it, and a slow request that
   overwrites the answer of a faster one cannot bring back older data than
   its own (searchCache.ts:30, searchService.ts:116). *)
AnswersAreFresh ==
    \A r \in Requests : req[r].reply = "results" => req[r].age <= Ttl + MaxDuration

(* A client has exactly its allowance in every window: never more, however
   the cleanup of the shared map falls, and it is refused only when that many
   of its requests were let through within the last Window; refused requests
   do not count (http.ts:80).  A client that was refused and comes back,
   undisturbed, after the time of Retry-After is let through (http.ts:93,
   sendError 48). *)
LimiterIsExact ==
    [][/\ \A c \in Clients : Len(admitted'[c]) <= MaxRequests
       /\ \A r \in Requests : Under("idle", r) /\ req'[r].reply = "limited"
                              => /\ Len(admitted[req'[r].client]) = MaxRequests
                                 /\ promise[req'[r].client] # 0]_vars

(* "Deterministic keyword-extraction fallback so search ALWAYS proceeds"
   (queryParser.ts:13): the platform ends no request that waits for the model.
   It does: two timeouts outlast the function, even if nothing else takes time. *)
SearchAlwaysProceeds ==
    \A r \in Requests : req[r].reply = "ended" => req[r].attempt = 0
==============================================================================
