----------------------------- MODULE RateLimiter -----------------------------
(***************************************************************************)
(* rateLimit (middleware/http.ts): the sliding window of one warm instance.*)
(* hits[c] is the list of client c's timestamps, oldest first, each kept   *)
(* as its age; ages stop at Window, where a hit has left the window.  A    *)
(* client without a list is not in the code's map.                         *)
(***************************************************************************)
EXTENDS Integers, Sequences, FiniteSets

CONSTANTS Clients,      \* client addresses
          Window,       \* RATE_LIMIT_WINDOW_MS, in ticks
          MaxRequests,  \* RATE_LIMIT_MAX_REQUESTS
          MaxTracked    \* clients in the map that set off a cleanup: 5000

ASSUME LimiterAssumption ==
    /\ IsFiniteSet(Clients)
    /\ {Window, MaxRequests} \subseteq Nat \ {0}
    /\ MaxTracked \in Nat

(* The place of the oldest hit within the window. *)
First(ages) ==
    CHOOSE k \in 1..(Len(ages) + 1) :
        /\ \A i \in 1..(k - 1) : ages[i] >= Window
        /\ k <= Len(ages) => ages[k] < Window

(* timestamps.filter, of a list that is oldest first: what is left of it. *)
Recent(ages) == SubSeq(ages, First(ages), Len(ages))

Full(hits, c) == Len(Recent(hits[c])) >= MaxRequests

(* Seconds until the oldest hit leaves the window, at least one. *)
RetryAfter(hits, c) ==
    LET left == Window - Head(Recent(hits[c]))
    IN IF left < 1 THEN 1 ELSE left

(* Faulty variant: the cleanup deletes clients with any old hit. *)
CleanedEager(hits) ==
    [c \in DOMAIN hits |->
        IF \E i \in DOMAIN hits[c] : hits[c][i] >= Window THEN <<>> ELSE hits[c]]

(* The cleanup: clients all of whose hits have left the window. *)
Cleaned(hits) ==
    [c \in DOMAIN hits |-> IF Recent(hits[c]) = <<>> THEN <<>> ELSE hits[c]]

(* The map after a request of c is let through. *)
Noted(hits, c) ==
    LET added == [hits EXCEPT ![c] = Append(Recent(@), 0)]
        tracked == {d \in Clients : added[d] # <<>>}
    IN IF Cardinality(tracked) > MaxTracked THEN Cleaned(added) ELSE added

Older(ages) == [i \in DOMAIN ages |-> IF ages[i] < Window THEN ages[i] + 1 ELSE ages[i]]
==============================================================================
