----------------------------- MODULE Normalizer -----------------------------
(***************************************************************************)
(* What services/ingestion/normalizer.ts makes of search results, and the  *)
(* fact sheet services/ingestion/summaryGenerator.ts makes of that.        *)
(*                                                                         *)
(* A search result is a record [rating, reviews, mentions]: the structured *)
(* rating in tenths and the number of its reviews, each possibly Null, and *)
(* the terms its text mentions, in order, as records [kind, word].  Which  *)
(* texts mention what is a matter of the patterns and is not modelled; a   *)
(* word stands for all its spellings in upper and lower case.              *)
(***************************************************************************)
EXTENDS Integers, FiniteSets, Sequences, SequencesExt

CONSTANTS Patterns, \* the labels of FACILITY_PATTERNS, in their order
          Null

ASSUME NullAssumption == Null \notin Int /\ Patterns \in Seq(STRING)

MaxFacilities == 12
MaxTransit == 4
MaxLandmarks == 5

Kinds == {"facility", "transit", "landmark", "rooms", "family", "connected"}
Terms == [kind : Kinds, word : STRING]
SearchResults == [rating : Int \cup {Null}, reviews : Int \cup {Null}, mentions : Seq(Terms)]

Least(m, n) == IF m < n THEN m ELSE n
Greatest(m, n) == IF m < n THEN n ELSE m

(***************************************************************************)
(* A place <<k, m>> of the joined text is the m-th mention in the k-th     *)
(* result.                                                                 *)
(***************************************************************************)
Mention(items, p) == items[p[1]].mentions[p[2]]

Before(p, q) == p[1] < q[1] \/ (p[1] = q[1] /\ p[2] < q[2])

Places(items, kind) ==
    {p \in UNION {{k} \X DOMAIN items[k].mentions : k \in DOMAIN items} :
        Mention(items, p).kind = kind}

\* P without the places whose word an earlier place has.
Firsts(items, P) ==
    {p \in P : \A q \in P : Mention(items, q).word = Mention(items, p).word => ~Before(q, p)}

\* The place that has i - 1 others of P before it.
Nth(P, i) == CHOOSE p \in P : Cardinality({q \in P : Before(q, p)}) = i - 1

\* dedupe: the words at the places P in the order of the text, without
\* repetitions, as many as max allows.  No word of the model is shorter than
\* three letters.
Dedupe(items, P, max) ==
    LET kept == Firsts(items, P)
    IN  [i \in 1..Least(max, Cardinality(kept)) |-> Mention(items, Nth(kept, i)).word]

\* FACILITY_PATTERNS, as a text that mentions all the labels in their order.
AllLabels ==
    <<[rating |-> Null, reviews |-> Null,
       mentions |-> [n \in DOMAIN Patterns |-> [kind |-> "facility", word |-> Patterns[n]]]]>>

\* The labels of the patterns that some text matches.
Facilities(items) ==
    LET said == {Mention(items, p).word : p \in Places(items, "facility")}
    IN  Dedupe(AllLabels,
               {p \in Places(AllLabels, "facility") : Mention(AllLabels, p).word \in said},
               MaxFacilities)

\* true when evidenced, unknown otherwise
TriState(items, kind) == IF Places(items, kind) # {} THEN TRUE ELSE Null

Reviews(i) == IF i.reviews = Null THEN 0 ELSE i.reviews

Rated(items) == {k \in DOMAIN items : items[k].rating # Null}

\* Faulty variant: the first result that has a rating.
FirstRated(items) ==
    CHOOSE k \in Rated(items) : \A m \in Rated(items) : k <= m

\* The head of the stable sort by descending reviews.
BestRated(items) ==
    CHOOSE k \in Rated(items) :
        \A m \in Rated(items) \ {k} :
            \/ Reviews(items[m]) < Reviews(items[k])
            \/ Reviews(items[m]) = Reviews(items[k]) /\ k < m

\* clampNumber to 0..10
Rating(i) == Least(100, Greatest(0, i.rating))

ReviewCount(i) == IF i.reviews = Null THEN Null ELSE Greatest(0, i.reviews)

(***************************************************************************)
(* normalizeHotelData: the hotel's own name is no landmark of it.          *)
(***************************************************************************)
Near(seed, items) == {p \in Places(items, "landmark") : Mention(items, p).word # seed.name}

Normalize(seed, items) ==
    LET best == items[BestRated(items)]
        rated == Rated(items) # {}
    IN  [rating     |-> IF rated THEN Rating(best) ELSE Null,
         reviews    |-> IF rated THEN ReviewCount(best) ELSE Null,
         rooms      |-> TriState(items, "rooms"),
         family     |-> TriState(items, "family"),
         connected  |-> TriState(items, "connected"),
         facilities |-> Facilities(items),
         transit    |-> Dedupe(items, Places(items, "transit"), MaxTransit),
         landmarks  |-> Dedupe(items, Near(seed, items), MaxLandmarks)]

\* buildSearchKeywords; there are never as many as its cut at 40.
Keywords(seed, n) ==
    ToSet(n.facilities) \cup ToSet(n.transit) \cup ToSet(n.landmarks)
    \cup {w \in {"family", "family rooms"} : n.family = TRUE}
    \cup {w \in {"connected rooms"} : n.connected = TRUE}
    \cup ({seed.city} \ {Null})

\* The facts that are known, as the fact sheet and the score tell them.
KnownFacts(n) ==
    {f \in {"rating", "reviews", "rooms", "family", "connected"} : n[f] # Null}
    \cup {f \in {"facilities", "transit", "landmarks"} : n[f] # <<>>}

\* log10(n + 1), at most 5, rounded down to a whole number.
Magnitude(n) == Cardinality({m \in 1..5 : <<10, 100, 1000, 10000, 100000>>[m] <= n + 1})

ReviewScore(n) == IF n.reviews = Null THEN 0 ELSE Magnitude(n.reviews) * 600

Completeness(n) ==
    Cardinality(KnownFacts(n) \cap {"facilities", "transit", "landmarks", "rooms"})

\* Faulty variant: an unknown rating counts nothing.
ScoreUnrated(n) ==
    (IF n.rating = Null THEN 0 ELSE Least(n.rating, 50) * 100)
    + ReviewScore(n) + Completeness(n) * 500

(***************************************************************************)
(* computeRankingScore in ten-thousandths: 0.5 for the rating out of five, *)
(* 0.3 for the magnitude of the reviews, 0.2 for completeness.             *)
(***************************************************************************)
Score(n) ==
    (IF n.rating = Null THEN 1500 ELSE Least(n.rating, 50) * 100)
    + ReviewScore(n) + Completeness(n) * 500

\* buildFactSheet: the facts a summary may be written from.
FactSheet(n) == [f \in KnownFacts(n) |-> n[f]]
=============================================================================
