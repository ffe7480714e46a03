----------------------------- MODULE HotelStore -----------------------------
(***************************************************************************)
(* The table hotels (0001_init.sql, 0005_fix_unique_constraints.sql) under *)
(* the enrichments that write it: mapRecord of client_api/clientHotelApi.ts*)
(* decides what becomes a job, enrichOne of ingestionService.ts builds a   *)
(* row, upsertHotel of hotelRepository.ts stores it.  Each round trip to   *)
(* the database is an action.                                              *)
(*                                                                         *)
(* A job is a record of the client database; the queue is what LeaseQueue  *)
(* promises, which IngestionWorker is shown to implement.                  *)
(***************************************************************************)
EXTENDS Normalizer

CONSTANTS Records,  \* raw records [ext, name, city], each field possibly Null
          Workers,
          Evidence, \* what a web search may return
          Schemas,  \* the sets of unique constraints the table may start with
          MaxRows   \* bound of the model: rows of the table

Constraints == {"external_id", "name_city"}

ASSUME StoreAssumption ==
    /\ Evidence \subseteq Seq(SearchResults)
    /\ \A r \in Records : DOMAIN r = {"ext", "name", "city"}
    /\ Schemas \subseteq SUBSET Constraints
    /\ MaxRows \in Nat

(***************************************************************************)
(* queued, leases, done, failed   the queue, see LeaseQueue                *)
(* hotels    the rows; the id of a row is its position                     *)
(* unique    the constraints the table has                                 *)
(* at[w]     where w's enrichment is: "idle", "enriching", "upserting",    *)
(*           "byId", "byName" (the lookups without constraints), "updating"*)
(*           "inserting", "stored"                                         *)
(* draft[w], found[w]   the row w writes, the id its lookup returned       *)
(* misled    history: jobs that wrote after a lookup had failed            *)
(***************************************************************************)
VARIABLES queued, leases, done, failed, hotels, unique, at, draft, found, misled

queue == <<queued, leases, done, failed>>
worker == <<at, draft, found>>
vars == <<queue, hotels, unique, worker, misled>>

\* mapRecord: a record without a name is dropped.
Jobs == {r \in Records : r.name # Null}

Q == INSTANCE LeaseQueue

\* The dedupe_key of enqueueHotels.
Key(j) == IF j.ext # Null THEN <<j.ext>> ELSE <<j.name, j.city>>

\* fetchClientHotels: a page holds any mapped records.
Pages == SUBSET Jobs

\* generateHotelSummary: a text about the facts it is given; null when the call
\* fails or the text is too short.
Summaries(facts) == {FactSheet(facts), Null}

\* What enrichOne stores; items is kept as history.
Row(j, items, summary) ==
    LET facts == Normalize(j, items)
    IN  [seed |-> j, items |-> items, facts |-> facts, summary |-> summary,
         keywords |-> Keywords(j, facts), score |-> Score(facts)]

Facts == {Normalize(j, items) : j \in Jobs, items \in Evidence}
Rows == [seed : Jobs, items : Evidence, facts : Facts,
         summary : UNION {Summaries(f) : f \in Facts},
         keywords : {Keywords(j, f) : j \in Jobs, f \in Facts},
         score : {Score(f) : f \in Facts}]

ASSUME RowAssumption == Null \notin Rows

Stations == {"idle", "enriching", "upserting", "byId", "byName", "updating",
             "inserting", "stored"}

TypeOK ==
    /\ {queued, done, failed} \subseteq SUBSET Jobs
    /\ leases \in [Workers -> SUBSET Jobs]
    /\ hotels \in Seq(Rows)
    /\ unique \in SUBSET Constraints
    /\ at \in [Workers -> Stations]
    /\ draft \in [Workers -> Rows \cup {Null}]
    /\ found \in [Workers -> 0..Len(hotels)]
    /\ misled \in SUBSET Jobs
    /\ \A w \in Workers : draft[w] = Null <=> at[w] \in {"idle", "enriching"}

Init ==
    /\ Q!Init
    /\ hotels = <<>>
    /\ unique \in Schemas
    /\ at = [w \in Workers |-> "idle"]
    /\ draft = [w \in Workers |-> Null]
    /\ found = [w \in Workers |-> 0]
    /\ misled = {}

-----------------------------------------------------------------------------
Job(w) == draft[w].seed

Agree(s, t, key) ==
    IF key = "external_id"
    THEN s.ext # Null /\ s.ext = t.ext
    ELSE s.city # Null /\ s.city = t.city /\ s.name = t.name

\* Rows that agree with seed s on a constraint's columns; null equals nothing.
Matches(s, key) == {i \in DOMAIN hotels : Agree(hotels[i].seed, s, key)}

\* Writing seed s to row i (a new one if 0) breaks no constraint.
Allowed(s, i) == \A key \in unique : Matches(s, key) \subseteq {i}

\* Faulty variant: a failed summary leaves the old one in place.
StoredKeepingSummary(row, i) ==
    IF i = 0 THEN Append(hotels, row)
    ELSE [hotels EXCEPT ![i] = IF row.summary # Null THEN row
                               ELSE [row EXCEPT !.summary = hotels[i].summary]]

\* All columns are written, null or not.
Stored(row, i) ==
    IF i = 0 THEN Append(hotels, row) ELSE [hotels EXCEPT ![i] = row]

\* w gives its job up: it is queued again, or failed for good.
GiveUp(w) ==
    /\ \E F \in {{}, leases[w]} : Q!Release(w, leases[w], {}, F)
    /\ at' = [at EXCEPT ![w] = "idle"]
    /\ draft' = [draft EXCEPT ![w] = Null]
    /\ found' = [found EXCEPT ![w] = 0]

\* Faulty variant: the error of a statement is not looked at.
WriteUnchecked(w, i) ==
    /\ i = 0 => Len(hotels) < MaxRows
    /\ \/ Allowed(Job(w), i) /\ hotels' = Stored(draft[w], i)
       \/ UNCHANGED hotels
    /\ at' = [at EXCEPT ![w] = "stored"]
    /\ found' = [found EXCEPT ![w] = 0]
    /\ UNCHANGED <<queue, draft, unique, misled>>

\* The statement of w stores its draft in row i: it returns, is executed and
\* its reply lost, or throws (error 23505 where a constraint would be broken).
Write(w, i) ==
    /\ i = 0 => Len(hotels) < MaxRows
    /\ \/ /\ Allowed(Job(w), i)
          /\ hotels' = Stored(draft[w], i)
          /\ at' = [at EXCEPT ![w] = "stored"]
          /\ found' = [found EXCEPT ![w] = 0]
          /\ UNCHANGED <<queue, draft>>
       \/ /\ Allowed(Job(w), i)
          /\ hotels' = Stored(draft[w], i)
          /\ GiveUp(w)
       \/ UNCHANGED hotels /\ GiveUp(w)
    /\ UNCHANGED <<unique, misled>>
-----------------------------------------------------------------------------
\* Faulty variant: an import queues completed hotels again.
ImportAgain ==
    /\ \E P \in SUBSET (Jobs \ (queued \cup Q!Leased \cup failed)) : queued' = queued \cup P
    /\ UNCHANGED <<leases, done, failed, hotels, unique, worker, misled>>

\* enqueueFromClientDatabase: of the records of a page, one for each key that
\* was never queued.
Import ==
    /\ \E P \in Pages :
          /\ \A j \in P : \A k \in P \cup queued \cup Q!Leased \cup done \cup failed :
                Key(j) = Key(k) => j = k
          /\ Q!Submit(P)
    /\ UNCHANGED <<hotels, unique, worker, misled>>

\* The jobs of a batch are enriched one at a time; the others wait.
Claim(w) ==
    /\ at[w] = "idle"
    /\ \E j \in queued : Q!Lease(w, {j})
    /\ at' = [at EXCEPT ![w] = "enriching"]
    /\ UNCHANGED <<hotels, unique, draft, found, misled>>

\* The search returned, facts are extracted, and a summary is written or not.
Enrich(w) ==
    /\ at[w] = "enriching"
    /\ \E j \in leases[w], items \in Evidence :
          \E summary \in Summaries(Normalize(j, items)) :
              draft' = [draft EXCEPT ![w] = Row(j, items, summary)]
    /\ at' = [at EXCEPT ![w] = "upserting"]
    /\ UNCHANGED <<queue, hotels, unique, found, misled>>

Target(s) == IF s.ext # Null THEN "external_id" ELSE "name_city"

\* INSERT ... ON CONFLICT, where the table has the constraint
Upsert(w) ==
    /\ at[w] = "upserting"
    /\ Target(Job(w)) \in unique
    /\ LET hit == Matches(Job(w), Target(Job(w)))
       IN  \E i \in IF hit = {} THEN {0} ELSE hit : Write(w, i)

AfterId(w) == IF Job(w).city # Null THEN "byName" ELSE "inserting"

\* Faulty variant: the fallback inserts without looking.
FallBackInserting(w) ==
    /\ at[w] = "upserting"
    /\ Target(Job(w)) \notin unique
    /\ at' = [at EXCEPT ![w] = "inserting"]
    /\ UNCHANGED <<queue, hotels, unique, draft, found, misled>>

\* Error 42P10: there is no such constraint; look for the row by hand.
FallBack(w) ==
    /\ at[w] = "upserting"
    /\ Target(Job(w)) \notin unique
    /\ at' = [at EXCEPT ![w] = IF Job(w).ext # Null THEN "byId" ELSE AfterId(w)]
    /\ UNCHANGED <<queue, hotels, unique, draft, found, misled>>

\* maybeSingle of a lookup: the row, or null.  An error, also that of several
\* rows, is ignored and taken for null.
Look(w, key, otherwise) ==
    LET hit == Matches(Job(w), key)
    IN  /\ \/ /\ \E i \in hit : hit = {i} /\ found' = [found EXCEPT ![w] = i]
              /\ at' = [at EXCEPT ![w] = "updating"]
              /\ UNCHANGED misled
           \/ /\ at' = [at EXCEPT ![w] = otherwise]
              /\ misled' = IF hit = {} THEN misled ELSE misled \cup {Job(w)}
              /\ UNCHANGED found
        /\ UNCHANGED <<queue, hotels, unique, draft>>

LookById(w) == at[w] = "byId" /\ Look(w, "external_id", AfterId(w))

LookByName(w) == at[w] = "byName" /\ Look(w, "name_city", "inserting")

Update(w) == at[w] = "updating" /\ Write(w, found[w])

Insert(w) == at[w] = "inserting" /\ Write(w, 0)

\* Faulty variant: the row is kept for the next job.
CompleteKeepingDraft(w) ==
    /\ at[w] = "stored"
    /\ Q!Release(w, leases[w], leases[w], {})
    /\ at' = [at EXCEPT ![w] = "idle"]
    /\ UNCHANGED <<hotels, unique, draft, found, misled>>

Complete(w) ==
    /\ at[w] = "stored"
    /\ Q!Release(w, leases[w], leases[w], {})
    /\ at' = [at EXCEPT ![w] = "idle"]
    /\ draft' = [draft EXCEPT ![w] = Null]
    /\ UNCHANGED <<hotels, unique, found, misled>>

\* The search throws, completeJob does, or the platform ends the invocation
\* between two statements.
Break(w) ==
    /\ at[w] # "idle"
    /\ GiveUp(w)
    /\ UNCHANGED <<hotels, unique, misled>>

\* A statement of 0005, refused while the table has duplicates.
Migrate ==
    /\ \E key \in Constraints \ unique :
          /\ \A i \in DOMAIN hotels : Matches(hotels[i].seed, key) \subseteq {i}
          /\ unique' = unique \cup {key}
    /\ UNCHANGED <<queue, hotels, worker, misled>>

Step(w) ==
    \/ Claim(w)
    \/ Enrich(w)
    \/ Upsert(w)
    \/ FallBack(w)
    \/ LookById(w)
    \/ LookByName(w)
    \/ Update(w)
    \/ Insert(w)
    \/ Complete(w)
    \/ Break(w)

Next == Import \/ Migrate \/ \E w \in Workers : Step(w)

Spec == Init /\ [][Next]_vars
-----------------------------------------------------------------------------
\* A hotel that upsertHotel can find again.
Identified(j) == j.ext # Null \/ j.city # Null

RowsOf(j) == {i \in DOMAIN hotels : hotels[i].seed = j}

SameName(s, t) == s.name = t.name /\ s.city = t.city

(***************************************************************************)
(* OneRowPerHotel: a hotel that has an external id or a city has at most   *)
(* one row, with the constraints, without them and while they are added,   *)
(* whatever retries and lost replies there were, unless one of its own     *)
(* lookups failed and was taken for "not found" (hotelRepository.ts:81,    *)
(* 86).  Without the constraints this rests on the queue's leases.         *)
(***************************************************************************)
OneRowPerHotel ==
    \A j \in Jobs : Identified(j) /\ j \notin misled => Cardinality(RowsOf(j)) <= 1

(***************************************************************************)
(* DoneHotelsAreStored: a job is completed only if the table has a row     *)
(* under the hotel's name and city, and no later enrichment of another     *)
(* hotel takes it away.                                                    *)
(***************************************************************************)
DoneHotelsAreStored ==
    \A j \in done : \E i \in DOMAIN hotels : SameName(hotels[i].seed, j)

(***************************************************************************)
(* DoneRowsStay: README.md:12, "summary, once, stored forever".  Once a    *)
(* hotel's job is completed its row is not written again, so that neither  *)
(* summary nor facts can be lost, except to another hotel of that name and *)
(* city.  (Until then, a repeated enrichment may well lose a summary.)     *)
(***************************************************************************)
DoneRowsStay ==
    [][\A j \in done : \A i \in RowsOf(j) :
          hotels'[i] # hotels[i] =>
              /\ hotels'[i].seed # j
              /\ SameName(hotels'[i].seed, j)]_vars

(***************************************************************************)
(* SummaryFitsFacts: a stored summary was written from the facts stored    *)
(* beside it, also after a second enrichment found other facts and wrote   *)
(* no summary.                                                             *)
(***************************************************************************)
SummaryFitsFacts ==
    \A i \in DOMAIN hotels :
        hotels[i].summary # Null => hotels[i].summary = FactSheet(hotels[i].facts)

Said(items, kind) ==
    {t.word : t \in {u \in UNION {ToSet(items[k].mentions) : k \in DOMAIN items} : u.kind = kind}}

\* The list has words, each of them once, and all of them unless it is full.
Lists(list, words, max) ==
    /\ IsInjective(list) /\ ToSet(list) \subseteq words
    /\ words \subseteq ToSet(list) \/ Len(list) = max

(***************************************************************************)
(* FactsAreEvidenced: rating and review count of a row come from one and   *)
(* the same result, and no rated result has more reviews; rooms and flags  *)
(* are known exactly when they were mentioned; facilities and the places   *)
(* nearby are what was mentioned, each once, the hotel itself excepted,    *)
(* and below its cap no list leaves anything out.                          *)
(***************************************************************************)
FactsAreEvidenced ==
    \A i \in DOMAIN hotels :
        LET f == hotels[i].facts
            items == hotels[i].items
        IN  /\ f.rating = Null <=> Rated(items) = {}
            /\ f.rating # Null =>
                  \E k \in Rated(items) :
                      /\ f.rating = Rating(items[k])
                      /\ f.reviews = ReviewCount(items[k])
                      /\ \A m \in Rated(items) : Reviews(items[m]) <= Reviews(items[k])
            /\ \A kind \in {"rooms", "family", "connected"} :
                  f[kind] = IF Said(items, kind) # {} THEN TRUE ELSE Null
            /\ Lists(f.facilities, Said(items, "facility") \cap ToSet(Patterns), MaxFacilities)
            /\ Lists(f.transit, Said(items, "transit"), MaxTransit)
            /\ Lists(f.landmarks, Said(items, "landmark") \ {hotels[i].seed.name}, MaxLandmarks)

(***************************************************************************)
(* RankedByEvidence: the static score lies between 0 and 1, whatever scale *)
(* a rating is on, and a hotel that is nowhere behind another one in what  *)
(* the score counts does not rank below it.  An unknown rating stands for  *)
(* 1.5 out of five, unknown reviews and lists for none.                    *)
(***************************************************************************)
Standing(f) == IF f.rating = Null THEN 15 ELSE f.rating

NowhereBehind(f, g) ==
    /\ Standing(g) <= Standing(f)
    /\ g.reviews # Null => f.reviews # Null /\ g.reviews <= f.reviews
    /\ KnownFacts(g) \ {"rating", "reviews"} \subseteq KnownFacts(f)
RankedByEvidence ==
    \A i, k \in DOMAIN hotels :
        /\ hotels[i].score \in 0..10000
        /\ NowhereBehind(hotels[i].facts, hotels[k].facts) =>
              hotels[k].score <= hotels[i].score

(***************************************************************************)
(* UpsertIdentity: 0001_init.sql:34, "upsert identity when external_id is  *)
(* missing" on unique (hotel_name, city).                                  *)
(***************************************************************************)
UpsertIdentity == \A j \in Jobs : Cardinality(RowsOf(j)) <= 1
=============================================================================
