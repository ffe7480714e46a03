---------------------------- MODULE MCChatSearch ----------------------------
(* Instances of ChatSearch for TLC. *)
EXTENDS ChatSearch, TLC

(* Recent is the code's filter (http.ts:91) on every list a client can have. *)
OldestFirst(ages) == \A i, j \in DOMAIN ages : i <= j => ages[i] >= ages[j]
ASSUME RecentIsFilter ==
    \A n \in 0..(MaxRequests + 1) : \A ages \in [1..n -> 0..Window] :
        OldestFirst(ages) => Recent(ages) = SelectSeq(ages, LAMBDA a : a < Window)

Symmetry == Permutations(Requests) \cup Permutations(Queries) \cup Permutations(Clients)
=============================================================================
