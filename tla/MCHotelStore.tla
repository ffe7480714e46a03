---------------------------- MODULE MCHotelStore ----------------------------
(***************************************************************************)
(* HotelStore for TLC: catalogues with hotels that share name and city,    *)
(* with and without external ids, and search results whose ratings are     *)
(* null, on different scales, and not in the order of their reviews.       *)
(***************************************************************************)
EXTENDS HotelStore, TLC

CONSTANTS Paris, Rome

\* One more than a hotel may have.
Facility == <<"Free WiFi", "Pool", "Spa", "Fitness center", "Parking", "Restaurant", "Bar",
              "Breakfast", "Airport shuttle", "Air conditioning", "Pet friendly",
              "Business center", "Room service">>

Ritz == [ext |-> "e1", name |-> "Ritz", city |-> Paris]
RitzAnew == [ext |-> Null, name |-> "Ritz", city |-> Paris]
Inn == [ext |-> Null, name |-> "Inn", city |-> Null]
Nameless == [ext |-> "e2", name |-> Null, city |-> Rome]

Namesakes == {Ritz, RitzAnew, Nameless}
Roadside == {Inn, Ritz}

Term(kind, word) == [kind |-> kind, word |-> word]
Blog == [rating |-> 10, reviews |-> Null, mentions |-> <<Term("landmark", "Louvre")>>]
Page == [rating |-> Null, reviews |-> 9999,
         mentions |-> <<Term("facility", "Pool"), Term("landmark", "Orsay"),
                        Term("landmark", "Ritz"), Term("landmark", "Orsay")>>]
Guide == [rating |-> 92, reviews |-> 99,
          mentions |-> [n \in DOMAIN Facility |-> Term("facility", Facility[n])]
                       \o <<Term("landmark", "Louvre"), Term("landmark", "Tuileries")>>]
Portal == [rating |-> 870, reviews |-> 999999,
           mentions |-> <<Term("family", "family"), Term("rooms", "142"),
                          Term("transit", "Tuileries metro"), Term("landmark", "Opera"),
                          Term("landmark", "Madeleine"), Term("landmark", "Olympia")>>]

\* Rated low, not rated, and rated well by many with more than fits; each is
\* nowhere behind the ones before it.
Results == {<<Blog>>, <<Page>>, <<Blog, Guide, Portal, Page>>}

Fresh == {Constraints}
AnyTable == {{}, Constraints}

\* No liveness is checked under it.
AnyWorker == Permutations(Workers)
=============================================================================
