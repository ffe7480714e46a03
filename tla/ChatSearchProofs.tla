-------------------------- MODULE ChatSearchProofs --------------------------
(***************************************************************************)
(* Theorems about the search cache, the requests and the rate limiter of   *)
(* ChatSearch, for any cache size, lifetimes, timeouts, limits and number  *)
(* of concurrent requests and clients.                                     *)
(***************************************************************************)
EXTENDS ChatSearch, RateLimiterProofs

-----------------------------------------------------------------------------
(***************************************************************************)
(* The invariant of the cache: no query twice, never too many, and while   *)
(* an entry is alive its age and the time it has left are together at most *)
(* what they can be when it is stored.                                     *)
(***************************************************************************)
Entries == [query : Queries, left : Expired..Ttl, age : 0..AgeCap]
Apart(c) == \A i, j \in DOMAIN c : c[i].query = c[j].query => i = j
Fresh(e) == e.left >= 0 => e.left + e.age <= Ttl + MaxDuration
AllFresh(c) == \A i \in DOMAIN c : Fresh(c[i])
Sound(c) == c \in Seq(Entries) /\ Len(c) <= MaxEntries /\ Apart(c) /\ AllFresh(c)

LEMMA Numbers ==
    /\ Ttl \in Nat \ {0} /\ MaxEntries \in Nat \ {0}
    /\ CallTimeout \in Nat \ {0} /\ MaxDuration \in Nat \ {0}
    /\ RoundTrip \in Nat /\ LongestWait \in Nat
    /\ CallTimeout <= LongestWait /\ RoundTrip <= LongestWait
    /\ AgeCap = MaxDuration + Ttl + 1 /\ Expired = -1
BY CacheAssumption, ChatAssumption DEF AgeCap, Expired, LongestWait

\* A place is left out of a sequence.
LEMMA Removal ==
    ASSUME NEW S, NEW c \in Seq(S), NEW n \in DOMAIN c,
           NEW d, d = SubSeq(c, 1, n - 1) \o SubSeq(c, n + 1, Len(c))
    PROVE  /\ d \in Seq(S) /\ Len(d) = Len(c) - 1
           /\ \A i \in DOMAIN d : d[i] = IF i < n THEN c[i] ELSE c[i + 1]
<1>1. Len(c) \in Nat /\ n \in 1..Len(c)
  BY SeqIs
<1> DEFINE a == SubSeq(c, 1, n - 1)
           b == SubSeq(c, n + 1, Len(c))
<1>2. /\ a \in Seq(S) /\ Len(a) = n - 1 /\ \A i \in 1..(n - 1) : a[i] = c[i]
  BY <1>1
<1>3. /\ b \in Seq(S) /\ Len(b) = Len(c) - n /\ \A i \in 1..(Len(c) - n) : b[i] = c[n + i]
  BY <1>1
<1> HIDE DEF a, b
<1>4. d = a \o b
  BY DEF a, b
<1>5. d \in Seq(S) /\ Len(d) = Len(c) - 1
  BY <1>1, <1>2, <1>3, <1>4
<1>6. \A i \in 1..(Len(a) + Len(b)) : d[i] = IF i <= Len(a) THEN a[i] ELSE b[i - Len(a)]
  <2>1. \A i \in 1..(Len(a) + Len(b)) : (a \o b)[i] = IF i <= Len(a) THEN a[i] ELSE b[i - Len(a)]
    BY <1>2, <1>3, ConcatProperties, Zenon
  <2> QED
    BY <1>4, <2>1
<1>7. ASSUME NEW i \in DOMAIN d PROVE d[i] = IF i < n THEN c[i] ELSE c[i + 1]
  <2>1. i \in 1..(Len(c) - 1) /\ i \in Int /\ n \in Int
    BY <1>1, <1>5
  <2>2. d[i] = IF i <= n - 1 THEN a[i] ELSE b[i - (n - 1)]
    <3>1. i \in 1..(Len(a) + Len(b))
      BY <1>1, <1>2, <1>3, <2>1
    <3> QED
      BY <1>2, <1>6, <3>1
  <2>3. CASE i < n
    <3>1. i <= n - 1 /\ i \in 1..(n - 1)
      BY <1>1, <2>1, <2>3
    <3> QED
      BY <1>2, <2>2, <2>3, <3>1
  <2>4. CASE ~(i < n)
    <3>1. ~(i <= n - 1)
      BY <2>1, <2>4
    <3>2. PICK k \in Int : k = i - (n - 1)
      BY <2>1
    <3>3. k \in 1..(Len(c) - n) /\ n + k = i + 1
      BY <1>1, <2>1, <2>4, <3>2
    <3>4. b[k] = c[i + 1]
      BY <1>3, <3>3
    <3> QED
      BY <2>2, <2>4, <3>1, <3>2, <3>4
  <2> QED
    BY <2>3, <2>4
<1> QED
  BY <1>5, <1>7

LEMMA PlaceIs ==
    ASSUME NEW c, Sound(c), NEW q, Holds(c, q)
    PROVE  /\ Place(c, q) \in DOMAIN c /\ c[Place(c, q)].query = q
           /\ \A i \in DOMAIN c : c[i].query = q => i = Place(c, q)
BY DEF Holds, Place, Sound, Apart

LEMMA WithoutSound ==
    ASSUME NEW c, Sound(c), NEW q
    PROVE  /\ Sound(Without(c, q)) /\ ~Holds(Without(c, q), q)
           /\ Holds(c, q) => Len(Without(c, q)) < MaxEntries
<1>1. CASE ~Holds(c, q)
  BY <1>1 DEF Without
<1>2. CASE Holds(c, q)
  <2> DEFINE n == Place(c, q)
             d == Without(c, q)
  <2>1. n \in DOMAIN c /\ \A i \in DOMAIN c : c[i].query = q => i = n
    BY <1>2, PlaceIs
  <2>2. d = SubSeq(c, 1, n - 1) \o SubSeq(c, n + 1, Len(c))
    BY <1>2 DEF Without
  <2>3. c \in Seq(Entries)
    BY DEF Sound
  <2> HIDE DEF n, d
  <2>4. /\ d \in Seq(Entries) /\ Len(d) = Len(c) - 1
        /\ \A i \in DOMAIN d : d[i] = IF i < n THEN c[i] ELSE c[i + 1]
    BY <2>1, <2>2, <2>3, Removal
  <2>5. Len(c) \in Nat /\ n \in 1..Len(c) /\ DOMAIN c = 1..Len(c) /\ DOMAIN d = 1..(Len(c) - 1)
    BY <2>1, <2>3, <2>4, SeqIs
  <2>6. \A i \in DOMAIN d :
            \E k \in DOMAIN c : /\ k = (IF i < n THEN i ELSE i + 1) /\ k # n
                                /\ d[i] = c[k]
    BY <2>4, <2>5
  <2>7. Apart(d)
    <3> SUFFICES ASSUME NEW i \in DOMAIN d, NEW j \in DOMAIN d, d[i].query = d[j].query
                 PROVE  i = j
      BY DEF Apart
    <3>1. (IF i < n THEN i ELSE i + 1) = (IF j < n THEN j ELSE j + 1)
      BY <2>6 DEF Sound, Apart
    <3> QED
      BY <2>5, <3>1
  <2>8. AllFresh(d) /\ ~Holds(d, q)
    BY <2>1, <2>6 DEF Sound, AllFresh, Holds
  <2>9. Len(d) < MaxEntries
    BY <2>4, <2>5, Numbers DEF Sound
  <2>10. Sound(d) /\ ~Holds(d, q) /\ Len(d) < MaxEntries
    BY <2>4, <2>5, <2>7, <2>8, <2>9, Numbers DEF Sound
  <2> QED
    BY <2>10 DEF d
<1> QED
  BY <1>1, <1>2

LEMMA AppendSound ==
    ASSUME NEW c, Sound(c), NEW e \in Entries, Fresh(e), ~Holds(c, e.query), Len(c) < MaxEntries
    PROVE  Sound(Append(c, e))
<1> DEFINE d == Append(c, e)
<1>1. c \in Seq(Entries) /\ Len(c) \in Nat /\ DOMAIN c = 1..Len(c)
  BY SeqIs DEF Sound
<1>2. d \in Seq(Entries) /\ Len(d) = Len(c) + 1 /\ DOMAIN d = 1..(Len(c) + 1)
  BY <1>1
<1>3. d[Len(c) + 1] = e /\ \A i \in DOMAIN c : d[i] = c[i]
  BY <1>1
<1> HIDE DEF d
<1>4. \A i \in DOMAIN d : i = Len(c) + 1 \/ (i \in DOMAIN c /\ d[i] = c[i])
  BY <1>1, <1>2, <1>3
<1>5. Apart(d)
  BY <1>3, <1>4 DEF Sound, Apart, Holds
<1>6. AllFresh(d)
  BY <1>3, <1>4 DEF Sound, AllFresh
<1>7. Sound(d)
  BY <1>1, <1>2, <1>5, <1>6, Numbers DEF Sound
<1> QED
  BY <1>7 DEF d

LEMMA GotSound ==
    ASSUME NEW c, Sound(c), NEW q
    PROVE  Sound(Got(c, q))
<1>1. CASE ~Live(c, q)
  BY <1>1, WithoutSound DEF Got
<1>2. CASE Live(c, q)
  <2>1. Holds(c, q)
    BY <1>2 DEF Live
  <2> DEFINE e == c[Place(c, q)]
  <2>2. e \in Entries /\ Fresh(e) /\ e.query = q
    BY <2>1, PlaceIs, SeqIs DEF Sound, AllFresh
  <2> HIDE DEF e
  <2>3. Sound(Append(Without(c, q), e))
    BY <2>1, <2>2, WithoutSound, AppendSound
  <2> QED
    BY <1>2, <2>3 DEF Got, e
<1> QED
  BY <1>1, <1>2

LEMMA EvictedSound ==
    ASSUME NEW c, Sound(c)
    PROVE  Sound(Evicted(c)) /\ Len(Evicted(c)) < MaxEntries
<1>1. c \in Seq(Entries) /\ Len(c) \in Nat /\ DOMAIN c = 1..Len(c)
  BY SeqIs DEF Sound
<1>2. CASE Len(c) < MaxEntries
  BY <1>1, <1>2, Numbers DEF Evicted
<1>3. CASE Len(c) >= MaxEntries
  <2> DEFINE d == Tail(c)
  <2>1. Len(c) >= 1
    BY <1>1, <1>3, Numbers
  <2>2. /\ d \in Seq(Entries) /\ Len(d) = Len(c) - 1 /\ DOMAIN d = 1..(Len(c) - 1)
        /\ \A i \in 1..(Len(c) - 1) : d[i] = c[i + 1]
    BY <1>1, <2>1
  <2> HIDE DEF d
  <2>3. \A i \in DOMAIN d : i + 1 \in DOMAIN c /\ d[i] = c[i + 1]
    BY <1>1, <2>1, <2>2
  <2>4. Apart(d)
    <3> SUFFICES ASSUME NEW i \in DOMAIN d, NEW j \in DOMAIN d, d[i].query = d[j].query
                 PROVE  i = j
      BY DEF Apart
    <3>1. i + 1 = j + 1
      BY <2>3 DEF Sound, Apart
    <3> QED
      BY <1>1, <2>2, <3>1
  <2>5. AllFresh(d)
    BY <2>3 DEF Sound, AllFresh
  <2>6. Len(d) < MaxEntries
    BY <1>1, <2>2, Numbers DEF Sound
  <2>7. Sound(d)
    BY <1>1, <2>2, <2>4, <2>5, <2>6, Numbers DEF Sound
  <2> QED
    BY <1>1, <1>3, <2>6, <2>7, Numbers DEF Evicted, d
<1> QED
  BY <1>1, <1>2, <1>3, Numbers

LEMMA StoredSound ==
    ASSUME NEW c, Sound(c), NEW q \in Queries, NEW age \in 0..MaxDuration
    PROVE  Sound(Stored(c, q, age))
<1> DEFINE room == Evicted(c)
           e == [query |-> q, left |-> Ttl, age |-> age]
           n == Place(room, q)
<1>1. Sound(room) /\ Len(room) < MaxEntries
  BY EvictedSound
<1>2. e \in Entries /\ Fresh(e) /\ e.query = q
  BY Numbers DEF Entries, Fresh
<1> HIDE DEF room, e
<1>3. Stored(c, q, age) = IF Holds(room, q) THEN [room EXCEPT ![n] = e] ELSE Append(room, e)
  BY DEF Stored, room, e
<1>4. CASE ~Holds(room, q)
  BY <1>1, <1>2, <1>3, <1>4, AppendSound
<1>5. CASE Holds(room, q)
  <2>1. n \in DOMAIN room /\ room[n].query = q
    BY <1>1, <1>5, PlaceIs
  <2> DEFINE d == [room EXCEPT ![n] = e]
  <2> HIDE DEF n
  <2>2. room \in Seq(Entries)
    BY <1>1 DEF Sound
  <2>3. d \in Seq(Entries) /\ Len(d) = Len(room) /\ DOMAIN d = DOMAIN room
    BY <1>2, <2>1, <2>2
  <2>4. \A i \in DOMAIN room : d[i] = IF i = n THEN e ELSE room[i]
    BY <2>1, <2>2
  <2> HIDE DEF d
  <2>5. Apart(d)
    BY <1>1, <1>2, <2>1, <2>3, <2>4 DEF Sound, Apart
  <2>6. AllFresh(d)
    BY <1>1, <1>2, <2>3, <2>4 DEF Sound, AllFresh
  <2>7. Sound(d)
    BY <1>1, <2>3, <2>5, <2>6 DEF Sound
  <2> QED
    BY <1>3, <1>5, <2>7 DEF d
<1> QED
  BY <1>4, <1>5

LEMMA IsList ==
    ASSUME NEW S, NEW k \in Nat, NEW f \in [1..k -> S]
    PROVE  f \in Seq(S) /\ Len(f) = k
<1>1. f \in Seq(S)
  BY SeqDef
<1> QED
  BY <1>1, LenProperties

\* A tick in the numbers of one entry.
LEMMA Ageing ==
    ASSUME NEW l \in Expired..Ttl, NEW a \in 0..AgeCap,
           l >= 0 => l + a <= Ttl + MaxDuration
    PROVE  LET left == IF l = Expired THEN l ELSE l - 1
               age == IF a = AgeCap THEN a ELSE a + 1
           IN  /\ left \in Expired..Ttl /\ age \in 0..AgeCap
               /\ left >= 0 => left + age <= Ttl + MaxDuration
<1>1. Ttl \in Nat /\ MaxDuration \in Nat /\ AgeCap = MaxDuration + Ttl + 1 /\ Expired = -1
  BY Numbers
<1> HIDE DEF AgeCap, Expired
<1> QED
  BY <1>1

\* A tick ages every entry.
LEMMA AgedSound ==
    ASSUME NEW c, Sound(c),
           NEW d, d = [i \in DOMAIN c |->
                         [c[i] EXCEPT !.left = IF @ = Expired THEN @ ELSE @ - 1,
                                      !.age = IF @ = AgeCap THEN @ ELSE @ + 1]]
    PROVE  Sound(d)
<1>1. c \in Seq(Entries) /\ Len(c) \in Nat /\ DOMAIN c = 1..Len(c)
  BY SeqIs DEF Sound
<1>2. ASSUME NEW i \in DOMAIN c
      PROVE  d[i] \in Entries /\ d[i].query = c[i].query /\ Fresh(d[i])
  <2> DEFINE left == IF c[i].left = Expired THEN c[i].left ELSE c[i].left - 1
             age == IF c[i].age = AgeCap THEN c[i].age ELSE c[i].age + 1
  <2>1. c[i] \in Entries /\ Fresh(c[i])
    BY <1>1, SeqIs DEF Sound, AllFresh
  <2>2. d[i] = [query |-> c[i].query, left |-> left, age |-> age]
    BY <2>1 DEF Entries
  <2>3. c[i].left \in Expired..Ttl /\ c[i].age \in 0..AgeCap /\ c[i].query \in Queries
    BY <2>1 DEF Entries
  <2>4. c[i].left >= 0 => c[i].left + c[i].age <= Ttl + MaxDuration
    BY <2>1 DEF Fresh
  <2>5. /\ left \in Expired..Ttl /\ age \in 0..AgeCap
        /\ left >= 0 => left + age <= Ttl + MaxDuration
    BY <2>3, <2>4, Ageing
  <2> HIDE DEF left, age
  <2>6. d[i] \in Entries
    BY <2>2, <2>3, <2>5 DEF Entries
  <2> QED
    BY <2>2, <2>5, <2>6 DEF Fresh
<1>3. DOMAIN d = 1..Len(c) /\ d = [i \in 1..Len(c) |-> d[i]]
  <2>1. DOMAIN d = DOMAIN c /\ d = [i \in DOMAIN d |-> d[i]]
    OBVIOUS
  <2> QED
    BY <1>1, <2>1
<1>4. d \in Seq(Entries) /\ Len(d) = Len(c)
  <2>1. \A i \in 1..Len(c) : d[i] \in Entries
    BY <1>1, <1>2
  <2>2. d \in [1..Len(c) -> Entries]
    BY <1>3, <2>1, Zenon
  <2> QED
    BY <1>1, <2>2, IsList, Zenon
<1>5. \A i \in DOMAIN d : i \in DOMAIN c /\ d[i].query = c[i].query /\ Fresh(d[i])
  BY <1>1, <1>2, <1>3
<1>6. Apart(d)
  <2> SUFFICES ASSUME NEW i \in DOMAIN d, NEW j \in DOMAIN d, d[i].query = d[j].query
               PROVE  i = j
    BY DEF Apart
  <2>1. c[i].query = c[j].query /\ i \in DOMAIN c /\ j \in DOMAIN c
    BY <1>5
  <2> QED
    BY <2>1 DEF Sound, Apart
<1>7. AllFresh(d)
  BY <1>5 DEF AllFresh
<1> QED
  BY <1>4, <1>6, <1>7 DEF Sound

-----------------------------------------------------------------------------
(***************************************************************************)
(* The invariant of the requests: one that is busy has not answered, and   *)
(* what it reads is not older than it is.                                  *)
(***************************************************************************)
Request == [phase : Calling \cup {"idle", "database", "done"},
            client : Clients \cup {"none"}, query : Queries \cup {"none"},
            attempt : 0..2, waited : 0..LongestWait, spent : 0..MaxDuration,
            age : 0..AgeCap, reply : Replies]
Asking(q) ==
    q.phase \in Calling => q.query \in Queries /\ q.reply = "none" /\ q.age = 0
Searching(q) ==
    q.phase = "database" =>
        q.query \in Queries /\ q.reply = "none" /\ q.age <= q.spent
Answered(q) ==
    /\ q.reply # "none" => q.phase = "done"
    /\ q.reply = "results" => q.age <= Ttl + MaxDuration
Proper(q) == q \in Request /\ Asking(q) /\ Searching(q) /\ Answered(q)
ReqInv == req \in [Requests -> Request] /\ \A r \in Requests : Proper(req[r])
SearchInv == Sound(cache) /\ ReqInv

LEMMA OneRequest ==
    ASSUME ReqInv, NEW r \in Requests, NEW q, Proper(q), req' = [req EXCEPT ![r] = q]
    PROVE  ReqInv'
BY DEF ReqInv, Proper

LEMMA SentProper ==
    ASSUME NEW kind \in Replies \ {"results"}
    PROVE  /\ Proper(Unused) /\ Proper(Sent(kind))
           /\ \A c \in Clients : Proper([Sent(kind) EXCEPT !.client = c])
           /\ \A n \in 0..2 : Proper([Sent(kind) EXCEPT !.attempt = n])
           /\ \A a \in 0..(Ttl + MaxDuration) : Proper([Sent("results") EXCEPT !.age = a])
<1>1. Unused \in Request
  BY Numbers DEF Unused, Request, Replies
<1>2. Proper(Unused)
  BY <1>1 DEF Proper, Unused, Asking, Searching, Answered, Calling
<1>3. ASSUME NEW k \in Replies
      PROVE  Sent(k).phase = "done" /\ Sent(k).attempt = 0 /\ Sent(k).age = 0 /\ Sent(k).reply = k
  BY DEF Sent, Unused
<1>4. ASSUME NEW k \in Replies PROVE Sent(k) \in Request
  BY <1>1 DEF Sent, Request
<1>5. Proper(Sent(kind))
  BY <1>3, <1>4 DEF Proper, Asking, Searching, Answered, Calling
<1>6. ASSUME NEW c \in Clients PROVE Proper([Sent(kind) EXCEPT !.client = c])
  BY <1>3, <1>4 DEF Proper, Request, Asking, Searching, Answered, Calling
<1>7. ASSUME NEW n \in 0..2 PROVE Proper([Sent(kind) EXCEPT !.attempt = n])
  BY <1>3, <1>4 DEF Proper, Request, Asking, Searching, Answered, Calling
<1>8. ASSUME NEW a \in 0..(Ttl + MaxDuration) PROVE Proper([Sent("results") EXCEPT !.age = a])
  <2>1. "results" \in Replies /\ a \in 0..AgeCap /\ a <= Ttl + MaxDuration
    BY Numbers DEF Replies
  <2> QED
    BY <1>3, <1>4, <2>1 DEF Proper, Request, Asking, Searching, Answered, Calling
<1> QED
  BY <1>2, <1>5, <1>6, <1>7, <1>8

LEMMA SearchInit == Init => SearchInv
<1> SUFFICES ASSUME Init PROVE SearchInv
  OBVIOUS
<1>1. "none" \in Replies \ {"results"}
  BY DEF Replies
<1>2. Proper(Unused)
  BY <1>1, SentProper
<1>3. ReqInv
  BY <1>2 DEF Init, ReqInv, Proper
<1>4. cache = <<>> /\ cache \in Seq(Entries) /\ Len(cache) = 0 /\ DOMAIN cache = {}
  BY EmptySeq DEF Init
<1>5. Sound(cache)
  BY <1>4, Numbers DEF Sound, Apart, AllFresh
<1> QED
  BY <1>3, <1>5 DEF SearchInv

LEMMA ArriveKeeps ==
    ASSUME SearchInv, NEW r \in Requests, NEW c \in Clients,
           Refuse(r, c) \/ Malformed(r, c)
               \/ (\E q \in Queries : CacheHit(r, c, q) \/ CacheMiss(r, c, q))
    PROVE  SearchInv'
<1>1. ReqInv /\ Sound(cache)
  BY DEF SearchInv
<1>2. {"limited", "invalid", "none"} \subseteq Replies \ {"results"}
  BY DEF Replies
<1>3. CASE Refuse(r, c)
  <2>1. ReqInv'
    BY <1>1, <1>2, <1>3, SentProper, OneRequest DEF Refuse
  <2> QED
    BY <1>1, <1>3, <2>1 DEF SearchInv, Refuse, memory
<1>4. CASE Malformed(r, c)
  <2>1. ReqInv'
    BY <1>1, <1>2, <1>4, SentProper, OneRequest DEF Malformed
  <2> QED
    BY <1>1, <1>4, <2>1 DEF SearchInv, Malformed
<1>5. ASSUME NEW q \in Queries, CacheHit(r, c, q) PROVE SearchInv'
  <2>1. Live(cache, q) /\ cache' = Got(cache, q)
        /\ req' = [req EXCEPT ![r] = [Sent("results") EXCEPT !.age = cache[Place(cache, q)].age]]
    BY <1>5 DEF CacheHit
  <2> DEFINE e == cache[Place(cache, q)]
  <2>2. e \in Entries /\ Fresh(e) /\ e.left >= 0
    BY <1>1, <2>1, PlaceIs, SeqIs DEF Live, Sound, AllFresh
  <2>3. e.age \in 0..(Ttl + MaxDuration)
    BY <2>2, Numbers DEF Entries, Fresh
  <2>4. Proper([Sent("results") EXCEPT !.age = e.age])
    BY <1>2, <2>3, SentProper
  <2>5. ReqInv'
    BY <1>1, <2>1, <2>4, OneRequest
  <2>6. Sound(cache')
    BY <1>1, <2>1, GotSound
  <2> QED
    BY <2>5, <2>6 DEF SearchInv
<1>6. ASSUME NEW q \in Queries, CacheMiss(r, c, q) PROVE SearchInv'
  <2> DEFINE new == [Unused EXCEPT !.phase = "asking", !.query = q, !.attempt = 1]
  <2>1. cache' = Got(cache, q) /\ req' = [req EXCEPT ![r] = new]
    BY <1>6 DEF CacheMiss
  <2>2. new.phase = "asking" /\ new.query = q /\ new.age = 0 /\ new.reply = "none"
    BY DEF Unused
  <2>3. new \in Request
    <3>1. Unused \in Request
      BY <1>2, SentProper DEF Proper
    <3>2. "asking" \in Calling /\ 1 \in 0..2
      BY DEF Calling
    <3> QED
      BY <3>1, <3>2 DEF Request
  <2>4. Proper(new)
    BY <2>2, <2>3 DEF Proper, Asking, Searching, Answered
  <2>5. ReqInv'
    BY <1>1, <2>1, <2>4, OneRequest
  <2>6. Sound(cache')
    BY <1>1, <2>1, GotSound
  <2> QED
    BY <2>5, <2>6 DEF SearchInv
<1> QED
  BY <1>3, <1>4, <1>5, <1>6

\* From one wait of a provider call to another, or to the database.
LEMMA GoOnKeeps ==
    ASSUME SearchInv, NEW r \in Requests, req[r].phase \in Calling, UNCHANGED cache,
           NEW phase \in Calling \cup {"database"}, NEW n \in 0..2,
           req' = [req EXCEPT ![r].phase = phase, ![r].attempt = n, ![r].waited = 0]
    PROVE  SearchInv'
<1> DEFINE new == [req[r] EXCEPT !.phase = phase, !.attempt = n, !.waited = 0]
<1>1. ReqInv /\ Sound(cache) /\ req[r] \in Request /\ Asking(req[r])
  BY DEF SearchInv, ReqInv, Proper
<1>2. new \in Request
  <2>1. 0 \in 0..LongestWait
    BY Numbers
  <2> QED
    BY <1>1, <2>1 DEF Request
<1>3. /\ new.phase = phase /\ new.query = req[r].query /\ new.reply = req[r].reply
      /\ new.age = req[r].age /\ new.spent = req[r].spent
  BY <1>1 DEF Request
<1>4. /\ req[r].query \in Queries /\ req[r].reply = "none" /\ req[r].age = 0
      /\ req[r].spent \in Nat
  BY <1>1, Numbers DEF Asking, Request
<1>5. Proper(new)
  <2>1. new.age <= new.spent
    BY <1>3, <1>4
  <2>2. new.reply = "none" /\ new.query \in Queries /\ new.age = 0
    BY <1>3, <1>4
  <2> HIDE DEF new
  <2> QED
    BY <1>2, <2>1, <2>2 DEF Proper, Asking, Searching, Answered
<1>6. req' = [req EXCEPT ![r] = new]
  OBVIOUS
<1>7. ReqInv'
  <2> HIDE DEF new
  <2> QED
    BY <1>1, <1>5, <1>6, OneRequest
<1> QED
  BY <1>1, <1>7 DEF SearchInv

LEMMA SearchWithKeeps ==
    ASSUME SearchInv, NEW r \in Requests, NEW signal \in BOOLEAN, req[r].phase \in Calling,
           SearchWith(r, signal), UNCHANGED cache
    PROVE  SearchInv'
<1>1. CASE signal
  <2>1. req' = [req EXCEPT ![r].phase = "database", ![r].attempt = 0, ![r].waited = 0]
    BY <1>1 DEF SearchWith
  <2>2. "database" \in Calling \cup {"database"} /\ 0 \in 0..2
    OBVIOUS
  <2> QED
    BY <2>1, <2>2, GoOnKeeps
<1>2. CASE ~signal
  <2>1. "guidance" \in Replies \ {"results"}
    BY DEF Replies
  <2>2. req' = [req EXCEPT ![r] = Sent("guidance")] /\ Proper(Sent("guidance"))
    BY <1>2, <2>1, SentProper DEF SearchWith
  <2>3. ReqInv'
    BY <2>2, OneRequest DEF SearchInv
  <2> QED
    BY <2>3 DEF SearchInv
<1> QED
  BY <1>1, <1>2

LEMMA CallKeeps ==
    ASSUME SearchInv, NEW r \in Requests,
           GatePasses(r) \/ CallEnds(r) \/ Understood(r) \/ AttemptFails(r) \/ CallRefused(r)
    PROVE  SearchInv'
<1>1. req[r].phase \in Calling /\ UNCHANGED cache
  BY DEF GatePasses, CallEnds, Understood, AttemptFails, CallRefused, Under, Calling, memory
<1>2. req[r].attempt \in 0..2 /\ req[r] \in Request /\ req \in [Requests -> Request]
  BY DEF SearchInv, ReqInv, Proper, Request
<1>3. CASE \E signal \in BOOLEAN : SearchWith(r, signal)
  BY <1>1, <1>3, SearchWithKeeps
<1>4. ASSUME NEW phase \in Calling, NEW n \in 0..2,
             req' = [req EXCEPT ![r].phase = phase, ![r].attempt = n, ![r].waited = 0]
      PROVE  SearchInv'
  BY <1>1, <1>4, GoOnKeeps
<1>5. ASSUME NEW phase \in Calling,
             req' = [req EXCEPT ![r].phase = phase, ![r].waited = 0]
      PROVE  SearchInv'
  <2>1. [req[r] EXCEPT !.phase = phase, !.waited = 0]
            = [req[r] EXCEPT !.phase = phase, !.attempt = req[r].attempt, !.waited = 0]
    BY <1>2 DEF Request
  <2>2. req' = [req EXCEPT ![r].phase = phase, ![r].attempt = req[r].attempt, ![r].waited = 0]
    BY <1>2, <1>5, <2>1
  <2> QED
    BY <1>2, <1>4, <2>2
<1>6. {"asking", "model", "recording", "refused"} \subseteq Calling /\ 2 \in 0..2
  BY DEF Calling
<1>7. CASE GatePasses(r) \/ CallEnds(r)
  BY <1>5, <1>6, <1>7 DEF GatePasses, CallEnds
<1>8. CASE req' = [req EXCEPT ![r].phase = "asking", ![r].attempt = 2, ![r].waited = 0]
  BY <1>4, <1>6, <1>8
<1> QED
  BY <1>3, <1>7, <1>8 DEF Understood, AttemptFails, CallRefused, Fallback

LEMMA DatabaseKeeps ==
    ASSUME SearchInv, NEW r \in Requests, SearchAnswers(r) \/ SearchFails(r)
    PROVE  SearchInv'
<1>1. /\ ReqInv /\ Sound(cache) /\ Proper(req[r]) /\ req[r].phase = "database"
      /\ req[r] \in Request
  BY DEF SearchInv, ReqInv, Under, SearchAnswers, SearchFails, Proper
<1>2. CASE SearchAnswers(r)
  <2>1. /\ req[r].query \in Queries /\ req[r].age <= req[r].spent
        /\ req[r].age \in 0..AgeCap /\ req[r].spent \in 0..MaxDuration
    BY <1>1 DEF Proper, Searching, Request
  <2>2. req[r].age \in 0..MaxDuration /\ req[r].age \in 0..(Ttl + MaxDuration)
    BY <2>1, Numbers
  <2>3. /\ cache' = Stored(cache, req[r].query, req[r].age)
        /\ req' = [req EXCEPT ![r] = [Sent("results") EXCEPT !.age = req[r].age]]
    BY <1>2 DEF SearchAnswers
  <2>4. Sound(cache')
    BY <1>1, <2>1, <2>2, <2>3, StoredSound
  <2>5. Proper([Sent("results") EXCEPT !.age = req[r].age])
    <3>1. "none" \in Replies \ {"results"}
      BY DEF Replies
    <3> QED
      BY <2>2, <3>1, SentProper
  <2>6. ReqInv'
    BY <1>1, <2>3, <2>5, OneRequest
  <2> QED
    BY <2>4, <2>6 DEF SearchInv
<1>3. CASE SearchFails(r)
  <2>1. "error" \in Replies \ {"results"}
    BY DEF Replies
  <2>2. ReqInv'
    BY <1>1, <1>3, <2>1, SentProper, OneRequest DEF SearchFails
  <2> QED
    BY <1>1, <1>3, <2>2 DEF SearchInv, SearchFails, memory
<1> QED
  BY <1>2, <1>3

LEMMA EndKeeps ==
    ASSUME SearchInv, NEW r \in Requests, Leave(r) \/ EndRequest(r)
    PROVE  SearchInv'
<1>1. /\ ReqInv /\ Sound(cache) /\ Proper(req[r]) /\ req[r] \in Request /\ UNCHANGED cache
  BY DEF SearchInv, ReqInv, Leave, EndRequest, Proper, memory
<1>2. {"ended", "none"} \subseteq Replies /\ "ended" # "results" /\ "none" \in Replies \ {"results"}
  BY DEF Replies
<1>3. CASE Leave(r)
  BY <1>1, <1>2, <1>3, SentProper, OneRequest DEF Leave, SearchInv
<1>4. CASE EndRequest(r)
  <2>1. req[r].attempt \in 0..2
    BY <1>1 DEF Request
  <2>2. "ended" \in Replies \ {"results"}
    BY <1>2
  <2>3. Proper([Sent("ended") EXCEPT !.attempt = req[r].attempt])
    BY <2>1, <2>2, SentProper
  <2>4. req' = [req EXCEPT ![r] = [Sent("ended") EXCEPT !.attempt = req[r].attempt]]
    BY <1>4 DEF EndRequest
  <2>5. ReqInv'
    BY <1>1, <2>3, <2>4, OneRequest
  <2> QED
    BY <1>1, <2>5 DEF SearchInv
<1> QED
  BY <1>3, <1>4

LEMMA RecycleKeeps ==
    ASSUME SearchInv, Recycle
    PROVE  SearchInv'
<1>1. "lost" \in Replies \ {"results"}
  BY DEF Replies
<1>2. Proper(Sent("lost"))
  BY <1>1, SentProper
<1>3. req' = [r \in Requests |-> IF Busy(r) THEN Sent("lost") ELSE req[r]] /\ cache' = <<>>
  BY DEF Recycle
<1>4. \A r \in Requests : Proper(req'[r])
  BY <1>2, <1>3 DEF SearchInv, ReqInv
<1>5. ReqInv'
  BY <1>3, <1>4 DEF ReqInv, Proper
<1>6. cache' \in Seq(Entries) /\ Len(cache') = 0 /\ DOMAIN cache' = {}
  BY <1>3, EmptySeq
<1>7. Sound(cache')
  BY <1>6, Numbers DEF Sound, Apart, AllFresh
<1> QED
  BY <1>5, <1>7 DEF SearchInv

LEMMA TickKeeps ==
    ASSUME SearchInv, Tick
    PROVE  SearchInv'
<1>1. ReqInv /\ Sound(cache)
  BY DEF SearchInv
<1>2. Sound(cache')
  BY <1>1, AgedSound DEF Tick
<1>3. ASSUME NEW r \in Requests PROVE Proper(req'[r])
  <2>1. Proper(req[r]) /\ req[r] \in Request
    BY <1>1 DEF ReqInv, Proper
  <2>2. /\ req[r].spent \in 0..MaxDuration /\ req[r].waited \in 0..LongestWait
        /\ req[r].age \in 0..AgeCap
    BY <2>1 DEF Request
  <2>3. CASE req[r].phase \in Calling
    <3>1. req'[r] = [req[r] EXCEPT !.spent = @ + 1, !.waited = @ + 1]
      BY <2>3 DEF Tick
    <3>2. /\ req[r].spent < MaxDuration
          /\ req[r].waited < CallTimeout \/ req[r].waited < RoundTrip
      BY <2>3 DEF Tick, InTime, Busy, Under
    <3>3. req[r].spent + 1 \in 0..MaxDuration /\ req[r].waited + 1 \in 0..LongestWait
      BY <2>2, <3>2, Numbers
    <3>4. req'[r] \in Request
      BY <2>1, <3>1, <3>3 DEF Request
    <3>5. /\ req'[r].phase = req[r].phase /\ req'[r].query = req[r].query
          /\ req'[r].reply = req[r].reply /\ req'[r].age = req[r].age
      BY <2>1, <3>1 DEF Request
    <3>6. Asking(req[r])
      BY <2>1 DEF Proper
    <3>7. Asking(req'[r]) /\ req'[r].reply = "none" /\ req'[r].phase # "database"
      BY <2>3, <3>5, <3>6 DEF Asking, Calling
    <3> QED
      BY <3>4, <3>7 DEF Proper, Searching, Answered
  <2>4. CASE req[r].phase \notin Calling /\ Under("database", r)
    <3>1. req'[r] = [req[r] EXCEPT !.spent = @ + 1, !.age = @ + 1]
      BY <2>4 DEF Tick
    <3>2. Searching(req[r]) /\ req[r].spent < MaxDuration
      BY <2>1, <2>4 DEF Tick, InTime, Busy, Under, Proper
    <3>3. req[r].query \in Queries /\ req[r].reply = "none" /\ req[r].age <= req[r].spent
      BY <2>4, <3>2 DEF Searching, Under
    <3>4. /\ req[r].spent + 1 \in 0..MaxDuration /\ req[r].age + 1 \in 0..AgeCap
          /\ req[r].age + 1 <= req[r].spent + 1
      BY <2>2, <3>2, <3>3, Numbers
    <3>5. req'[r] \in Request
      BY <2>1, <3>1, <3>4 DEF Request
    <3>6. /\ req'[r].phase = "database" /\ req'[r].query = req[r].query
          /\ req'[r].reply = req[r].reply /\ req'[r].age = req[r].age + 1
          /\ req'[r].spent = req[r].spent + 1
      BY <2>1, <2>4, <3>1 DEF Request, Under
    <3> QED
      BY <3>3, <3>4, <3>5, <3>6 DEF Proper, Asking, Searching, Answered, Calling
  <2>5. CASE req[r].phase \notin Calling /\ ~Under("database", r)
    BY <2>1, <2>5 DEF Tick
  <2> QED
    BY <2>3, <2>4, <2>5
<1>4. ReqInv'
  <2>1. DOMAIN req' = Requests /\ req' = [r \in Requests |-> req'[r]]
    BY DEF Tick
  <2> QED
    BY <1>3, <2>1 DEF ReqInv, Proper
<1> QED
  BY <1>2, <1>4 DEF SearchInv

LEMMA SearchNext == SearchInv /\ [Next]_vars => SearchInv'
<1> SUFFICES ASSUME SearchInv, [Next]_vars PROVE SearchInv'
  OBVIOUS
<1>1. ASSUME NEW r \in Requests, NEW c \in Clients,
             Refuse(r, c) \/ Malformed(r, c)
                 \/ (\E q \in Queries : CacheHit(r, c, q) \/ CacheMiss(r, c, q))
      PROVE  SearchInv'
  BY <1>1, ArriveKeeps
<1>2. ASSUME NEW r \in Requests,
             GatePasses(r) \/ CallEnds(r) \/ Understood(r) \/ AttemptFails(r) \/ CallRefused(r)
      PROVE  SearchInv'
  BY <1>2, CallKeeps
<1>3. ASSUME NEW r \in Requests, SearchAnswers(r) \/ SearchFails(r)
      PROVE  SearchInv'
  BY <1>3, DatabaseKeeps
<1>4. ASSUME NEW r \in Requests, Leave(r) \/ EndRequest(r)
      PROVE  SearchInv'
  BY <1>4, EndKeeps
<1>5. CASE Recycle
  BY <1>5, RecycleKeeps
<1>6. CASE Tick
  BY <1>6, TickKeeps
<1>7. CASE UNCHANGED vars
  BY <1>7 DEF vars, memory, SearchInv, ReqInv
<1> QED
  BY <1>1, <1>2, <1>3, <1>4, <1>5, <1>6, <1>7 DEF Next

LEMMA SearchAlways == Spec => []SearchInv
BY SearchInit, SearchNext, PTL DEF Spec

-----------------------------------------------------------------------------
(* The cache never holds more than its limit, nor a query twice, whatever
   requests store their answers in whatever order (searchCache.ts:44). *)
THEOREM CacheLimited == Spec => []CacheKeepsItsLimit
<1>1. SearchInv => CacheKeepsItsLimit
  BY DEF SearchInv, Sound, Apart, CacheKeepsItsLimit
<1> QED
  BY <1>1, SearchAlways, PTL

(* No reply shows data older than a cache lifetime and a request, although
   hits move entries and slow requests overwrite the answers of faster ones
   (searchCache.ts:30, searchService.ts:116). *)
THEOREM NothingStale == Spec => []AnswersAreFresh
<1>1. SearchInv => AnswersAreFresh
  BY DEF SearchInv, ReqInv, Proper, Answered, AnswersAreFresh
<1> QED
  BY <1>1, SearchAlways, PTL

-----------------------------------------------------------------------------
(***************************************************************************)
(* The invariant of the limiter.  The hits of a client that the filter     *)
(* leaves are exactly the requests let through in the last window, which   *)
(* are as many as allowed at most; while they are that many, the oldest of *)
(* them leaves the window before a promise to the client falls due.        *)
(***************************************************************************)
Kept(c) ==
    Len(admitted[c]) = MaxRequests =>
        promise[c] = NoPromise \/ Window - admitted[c][1] <= promise[c]
LimiterInv ==
    /\ hits \in [Clients -> Ages] /\ admitted \in [Clients -> Ages]
    /\ promise \in [Clients -> NoPromise..Window]
    /\ \A c \in Clients : /\ OldestFirst(hits[c]) /\ admitted[c] = Recent(hits[c])
                          /\ Len(admitted[c]) <= MaxRequests /\ Kept(c)

\* What the code sees of a client is its allowance.
LEMMA AllowanceIs ==
    ASSUME LimiterInv, NEW c \in Clients
    PROVE  /\ admitted[c] \in Ages /\ Len(admitted[c]) \in 0..MaxRequests
           /\ OldestFirst(admitted[c]) /\ \A i \in DOMAIN admitted[c] : admitted[c][i] < Window
           /\ Full(hits, c) <=> Len(admitted[c]) = MaxRequests
           /\ Len(admitted[c]) = MaxRequests =>
                /\ admitted[c][1] \in 0..(Window - 1)
                /\ RetryAfter(hits, c) = Window - admitted[c][1]
<1>1. /\ hits[c] \in Ages /\ OldestFirst(hits[c]) /\ admitted[c] = Recent(hits[c])
      /\ admitted[c] \in Ages /\ Len(admitted[c]) <= MaxRequests
  BY DEF LimiterInv
<1>2. /\ Len(admitted[c]) \in Nat /\ DOMAIN admitted[c] = 1..Len(admitted[c])
      /\ \A i \in DOMAIN admitted[c] : admitted[c][i] \in 0..Window
      /\ MaxRequests \in Nat \ {0} /\ Window \in Nat
  BY <1>1, AgesAre, Limits
<1>3. OldestFirst(admitted[c]) /\ \A i \in DOMAIN admitted[c] : admitted[c][i] < Window
  BY <1>1, RecentKept
<1>4. Full(hits, c) <=> Len(admitted[c]) = MaxRequests
  BY <1>1, <1>2 DEF Full
<1>5. ASSUME Len(admitted[c]) = MaxRequests
      PROVE  /\ admitted[c][1] \in 0..(Window - 1)
             /\ RetryAfter(hits, c) = Window - admitted[c][1]
  <2>1. 1 \in DOMAIN admitted[c]
    BY <1>2, <1>5
  <2>2. admitted[c][1] \in 0..Window /\ admitted[c][1] < Window
    BY <1>2, <1>3, <2>1
  <2>3. admitted[c][1] \in 0..(Window - 1) /\ ~(Window - admitted[c][1] < 1)
    BY <1>2, <2>2
  <2>4. Head(Recent(hits[c])) = admitted[c][1]
    BY <1>1 DEF Ages
  <2> QED
    BY <2>3, <2>4 DEF RetryAfter
<1> QED
  BY <1>1, <1>2, <1>3, <1>4, <1>5

\* A request is answered "limited" only by rateLimit.
LEMMA OnlyRefused ==
    ASSUME SearchInv, [Next]_vars, NEW r \in Requests, Under("idle", r),
           req'[r].reply = "limited"
    PROVE  \E c \in Clients : Refuse(r, c) /\ req'[r].client = c
<1>1. req \in [Requests -> Request] /\ req[r].phase = "idle" /\ req[r].reply = "none"
  BY DEF SearchInv, ReqInv, Proper, Answered, Under
<1>2. req'[r] # req[r]
  BY <1>1
<1>3. \A k \in Replies : Sent(k).reply = k
  BY DEF Sent, Unused
<1>4. \E c \in Clients : \/ Refuse(r, c) \/ Malformed(r, c)
                          \/ \E q \in Queries : CacheHit(r, c, q) \/ CacheMiss(r, c, q)
  <2>1. ~Recycle /\ ~Tick /\ ~UNCHANGED vars
    BY <1>1, <1>2 DEF Recycle, Tick, vars, Busy, Under, Calling
  <2>2. ASSUME NEW s \in Requests, NEW new, req' = [req EXCEPT ![s] = new] PROVE s = r
    BY <1>1, <1>2, <2>2
  <2>3. ASSUME NEW s \in Requests, Under("idle", s), \E new : req' = [req EXCEPT ![s] = new]
        PROVE  s = r
    BY <2>2, <2>3
  <2>4. ASSUME NEW s \in Requests, ~Under("idle", s),
               \/ GatePasses(s) \/ CallEnds(s) \/ Understood(s) \/ AttemptFails(s)
               \/ CallRefused(s) \/ SearchAnswers(s) \/ SearchFails(s)
               \/ Leave(s) \/ EndRequest(s)
        PROVE  FALSE
    <3>1. s # r
      BY <2>4
    <3>2. req'[r] = req[r]
      BY <1>1, <2>4, <3>1
        DEF GatePasses, CallEnds, Understood, AttemptFails, CallRefused, SearchAnswers,
            SearchFails, Leave, EndRequest, SearchWith, Fallback
    <3> QED
      BY <1>2, <3>2
  <2>5. ASSUME NEW s \in Requests,
               \/ GatePasses(s) \/ CallEnds(s) \/ Understood(s) \/ AttemptFails(s)
               \/ CallRefused(s) \/ SearchAnswers(s) \/ SearchFails(s)
               \/ Leave(s) \/ EndRequest(s)
        PROVE  ~Under("idle", s)
    BY <2>5 DEF GatePasses, CallEnds, Understood, AttemptFails, CallRefused,
                SearchAnswers, SearchFails, Leave, EndRequest, Busy, Under, Calling
  <2>6. PICK s \in Requests, c \in Clients :
            \/ Refuse(s, c) \/ Malformed(s, c)
            \/ \E q \in Queries : CacheHit(s, c, q) \/ CacheMiss(s, c, q)
    BY <2>1, <2>4, <2>5 DEF Next
  <2>7. s = r
    BY <2>6, <2>2 DEF Refuse, Malformed, CacheHit, CacheMiss
  <2> QED
    BY <2>6, <2>7
<1>5. PICK c \in Clients : \/ Refuse(r, c) \/ Malformed(r, c)
                           \/ \E q \in Queries : CacheHit(r, c, q) \/ CacheMiss(r, c, q)
  BY <1>4
<1>6. "invalid" \in Replies /\ "results" \in Replies /\ "limited" \in Replies
  BY DEF Replies
<1>7. CASE Refuse(r, c)
  <2>1. req'[r] = [Sent("limited") EXCEPT !.client = c]
    BY <1>1, <1>7 DEF Refuse
  <2>2. req'[r].client = c
    BY <2>1 DEF Sent, Unused
  <2> QED
    BY <1>7, <2>2
<1>8. CASE Malformed(r, c)
  BY <1>1, <1>3, <1>6, <1>8 DEF Malformed
<1>9. ASSUME NEW q \in Queries, CacheHit(r, c, q) PROVE FALSE
  <2>1. req'[r] = [Sent("results") EXCEPT !.age = cache[Place(cache, q)].age]
    BY <1>1, <1>9 DEF CacheHit
  <2>2. req'[r].reply = "results"
    BY <2>1 DEF Sent, Unused
  <2> QED
    BY <2>2
<1>10. ASSUME NEW q \in Queries, CacheMiss(r, c, q) PROVE FALSE
  <2>1. req'[r].reply = "none"
    BY <1>1, <1>10 DEF CacheMiss, Unused
  <2> QED
    BY <2>1
<1> QED
  BY <1>5, <1>7, <1>8, <1>9, <1>10

LEMMA LimiterInit ==
    ASSUME hits = [c \in Clients |-> <<>>], admitted = [c \in Clients |-> <<>>],
           promise = [c \in Clients |-> NoPromise]
    PROVE  LimiterInv
<1>1. <<>> \in Ages /\ OldestFirst(<<>>) /\ Recent(<<>>) = <<>> /\ Len(<<>>) = 0
  BY RecentEmpty, EmptySeq
<1>2. MaxRequests \in Nat \ {0} /\ Window \in Nat /\ NoPromise \in NoPromise..Window
  BY Limits DEF NoPromise
<1>3. 0 <= MaxRequests /\ 0 # MaxRequests
  BY <1>2
<1> QED
  BY <1>1, <1>2, <1>3 DEF LimiterInv, Kept

\* The same of the instance that replaces another.
LEMMA LimiterFresh ==
    ASSUME hits' = [c \in Clients |-> <<>>], admitted' = [c \in Clients |-> <<>>],
           promise' = [c \in Clients |-> NoPromise]
    PROVE  LimiterInv'
<1>1. <<>> \in Ages /\ OldestFirst(<<>>) /\ Recent(<<>>) = <<>> /\ Len(<<>>) = 0
  BY RecentEmpty, EmptySeq
<1>2. MaxRequests \in Nat \ {0} /\ Window \in Nat /\ NoPromise \in NoPromise..Window
  BY Limits DEF NoPromise
<1>3. 0 <= MaxRequests /\ 0 # MaxRequests
  BY <1>2
<1> QED
  BY <1>1, <1>2, <1>3 DEF LimiterInv, Kept

LEMMA RefuseLimits ==
    ASSUME LimiterInv, NEW r \in Requests, NEW c \in Clients, Refuse(r, c)
    PROVE  LimiterInv'
<1>1. Full(hits, c) /\ hits' = hits /\ admitted' = admitted
      /\ promise' = [promise EXCEPT ![c] = RetryAfter(hits, c)]
  BY DEF Refuse, memory
<1>2. admitted[c][1] \in 0..(Window - 1) /\ RetryAfter(hits, c) = Window - admitted[c][1]
  BY <1>1, AllowanceIs
<1>3. PICK left \in 1..Window : left = Window - admitted[c][1]
  BY <1>2, Limits
<1>4. left \in NoPromise..Window
  BY Limits DEF NoPromise
<1>5. promise' = [promise EXCEPT ![c] = left]
  BY <1>1, <1>2, <1>3
<1>6. promise' \in [Clients -> NoPromise..Window]
  BY <1>4, <1>5 DEF LimiterInv
<1>7. ASSUME NEW d \in Clients PROVE Kept(d)'
  <2>1. CASE d = c
    <3>1. promise'[d] = left /\ admitted'[d] = admitted[c]
      BY <1>1, <1>5, <2>1 DEF LimiterInv
    <3>2. Window - admitted'[d][1] <= promise'[d]
      BY <1>3, <3>1, Limits
    <3> QED
      BY <3>2 DEF Kept
  <2>2. CASE d # c
    <3>1. promise'[d] = promise[d] /\ Kept(d)
      BY <1>5, <2>2 DEF LimiterInv
    <3> QED
      BY <1>1, <3>1 DEF Kept
  <2> QED
    BY <2>1, <2>2
<1> QED
  BY <1>1, <1>6, <1>7 DEF LimiterInv

LEMMA LetThroughLimits ==
    ASSUME LimiterInv, NEW r \in Requests, NEW c \in Clients, LetThrough(r, c)
    PROVE  LimiterInv'
<1>1. /\ ~Full(hits, c) /\ hits' = Noted(hits, c)
      /\ admitted' = [admitted EXCEPT ![c] = Append(@, 0)]
      /\ promise' = [promise EXCEPT ![c] = NoPromise]
  BY DEF LetThrough
<1>2. /\ hits \in [Clients -> Ages] /\ admitted \in [Clients -> Ages]
      /\ promise \in [Clients -> NoPromise..Window]
      /\ \A d \in Clients : OldestFirst(hits[d]) /\ admitted[d] = Recent(hits[d])
  BY DEF LimiterInv
<1>3. /\ hits' \in [Clients -> Ages]
      /\ \A d \in Clients :
            /\ OldestFirst(hits'[d])
            /\ Recent(hits'[d]) = IF d = c THEN Append(Recent(hits[c]), 0) ELSE Recent(hits[d])
  BY <1>1, <1>2, NotedIs
<1>4. Append(admitted[c], 0) \in Ages /\ Len(Append(admitted[c], 0)) = Len(admitted[c]) + 1
  BY AllowanceIs, AdmittedIs
<1>5. Len(Append(admitted[c], 0)) <= MaxRequests
  <2>1. Len(admitted[c]) \in 0..MaxRequests /\ Len(admitted[c]) # MaxRequests
    BY <1>1, AllowanceIs
  <2> QED
    BY <1>4, <2>1, Limits
<1>6. admitted' \in [Clients -> Ages]
  BY <1>1, <1>2, <1>4
<1>7. promise' \in [Clients -> NoPromise..Window]
  <2>1. NoPromise \in NoPromise..Window
    BY Limits DEF NoPromise
  <2> QED
    BY <1>1, <1>2, <2>1
<1>8. ASSUME NEW d \in Clients
      PROVE  /\ admitted'[d] = Recent(hits'[d]) /\ Len(admitted'[d]) <= MaxRequests
             /\ Kept(d)'
  <2>1. CASE d = c
    <3>1. admitted'[d] = Append(admitted[c], 0) /\ promise'[d] = NoPromise
      BY <1>1, <1>2, <2>1
    <3> QED
      BY <1>2, <1>3, <1>5, <2>1, <3>1 DEF Kept
  <2>2. CASE d # c
    <3>1. admitted'[d] = admitted[d] /\ promise'[d] = promise[d]
      BY <1>1, <1>2, <2>2
    <3>2. Len(admitted[d]) <= MaxRequests /\ Kept(d)
      BY DEF LimiterInv
    <3> QED
      BY <1>2, <1>3, <2>2, <3>1, <3>2 DEF Kept
  <2> QED
    BY <2>1, <2>2
<1> QED
  BY <1>3, <1>6, <1>7, <1>8 DEF LimiterInv

\* The hits that leave the window are those of the history; the oldest that
\* stays in a full allowance was the oldest before.
LEMMA TickLimits ==
    ASSUME LimiterInv, Tick
    PROVE  LimiterInv'
<1>1. /\ hits' = [c \in Clients |-> Older(hits[c])]
      /\ admitted' = [c \in Clients |-> Recent(Older(admitted[c]))]
      /\ promise' = [c \in Clients |-> IF promise[c] > 0 THEN promise[c] - 1 ELSE promise[c]]
  BY DEF Tick
<1>2. MaxRequests \in Nat \ {0} /\ Window \in Nat \ {0} /\ NoPromise = -1
  BY Limits DEF NoPromise
<1>3. ASSUME NEW c \in Clients
      PROVE  /\ hits'[c] \in Ages /\ OldestFirst(hits'[c])
             /\ admitted'[c] \in Ages /\ admitted'[c] = Recent(hits'[c])
             /\ promise'[c] \in NoPromise..Window
             /\ Len(admitted'[c]) <= MaxRequests /\ Kept(c)'
  <2> DEFINE a == admitted[c]
             old == Older(a)
  <2>1. /\ hits[c] \in Ages /\ OldestFirst(hits[c]) /\ a = Recent(hits[c])
        /\ promise[c] \in NoPromise..Window /\ Kept(c)
    BY DEF LimiterInv
  <2>2. /\ a \in Ages /\ Len(a) \in 0..MaxRequests /\ OldestFirst(a)
        /\ Len(a) = MaxRequests => a[1] \in 0..(Window - 1)
        /\ DOMAIN a = 1..Len(a) /\ \A i \in DOMAIN a : a[i] < Window
    BY AllowanceIs, AgesAre
  <2>3. Older(hits[c]) \in Ages /\ OldestFirst(Older(hits[c]))
    BY <2>1, OlderIs
  <2>4. /\ old \in Ages /\ OldestFirst(old) /\ Len(old) = Len(a) /\ DOMAIN old = DOMAIN a
        /\ \A i \in DOMAIN a : old[i] = IF a[i] < Window THEN a[i] + 1 ELSE a[i]
    BY <2>2, OlderIs
  <2>5. hits'[c] = Older(hits[c]) /\ admitted'[c] = Recent(old)
        /\ promise'[c] = IF promise[c] > 0 THEN promise[c] - 1 ELSE promise[c]
    BY <1>1
  <2>6. admitted'[c] = Recent(hits'[c])
    BY <2>1, <2>5, RecentOlder
  <2>7. promise'[c] \in NoPromise..Window
    <3>1. PICK p \in Int : p = promise[c] /\ -1 <= p /\ p <= Window
      BY <1>2, <2>1
    <3>2. (IF p > 0 THEN p - 1 ELSE p) \in -1..Window
      BY <1>2, <3>1
    <3> QED
      BY <1>2, <2>5, <3>1, <3>2
  <2> HIDE DEF a, old
  <2>8. PICK k \in 1..(Len(old) + 1) : Cut(old, k)
    BY <2>4, HasCut
  <2>9. /\ Recent(old) \in Ages /\ Len(Recent(old)) = Len(old) - k + 1
        /\ \A i \in 1..(Len(old) - k + 1) : Recent(old)[i] = old[k + i - 1]
    <3>1. k \in 1..(Len(old) + 1) /\ Cut(old, k) /\ old \in Ages
      BY <2>4, <2>8
    <3> QED
      BY <3>1, RecentIs
  <2>10. Len(Recent(old)) <= MaxRequests
    <3> DEFINE n == Len(old)
    <3>1. n = Len(a) /\ Len(a) \in 0..MaxRequests /\ k \in 1..(n + 1)
      BY <2>2, <2>4, <2>8
    <3> HIDE DEF n
    <3>2. n \in Nat /\ n <= MaxRequests
      BY <1>2, <3>1
    <3>3. n - k + 1 <= MaxRequests
      BY <1>2, <3>1, <3>2
    <3> QED
      BY <2>9, <3>3 DEF n
  <2>11. Kept(c)'
    <3> SUFFICES ASSUME Len(Recent(old)) = MaxRequests
                 PROVE  promise'[c] = NoPromise \/ Window - Recent(old)[1] <= promise'[c]
      BY <2>5 DEF Kept
    <3>1. k = 1 /\ Len(a) = MaxRequests
      BY <1>2, <2>2, <2>4, <2>8, <2>9
    <3>2. 1 \in DOMAIN a /\ a[1] \in 0..(Window - 1) /\ a[1] < Window
      BY <1>2, <2>2, <3>1
    <3>3. Recent(old)[1] = old[1] /\ old[1] = a[1] + 1
      BY <1>2, <2>2, <2>4, <2>9, <3>1, <3>2
    <3>4. promise[c] = NoPromise \/ Window - a[1] <= promise[c]
      BY <2>1, <3>1 DEF Kept, a
    <3>5. CASE promise[c] = NoPromise
      BY <1>2, <2>5, <3>5
    <3>6. CASE Window - a[1] <= promise[c]
      <4>1. PICK p \in Int : p = promise[c]
        BY <1>2, <2>1
      <4>2. p > 0 /\ Window - (a[1] + 1) <= p - 1
        BY <1>2, <3>2, <3>6, <4>1
      <4> QED
        BY <2>5, <3>3, <4>1, <4>2
    <3> QED
      BY <3>4, <3>5, <3>6
  <2> QED
    BY <2>3, <2>5, <2>6, <2>7, <2>9, <2>10, <2>11
<1> QED
  BY <1>1, <1>3 DEF LimiterInv

LEMMA LimiterNext == LimiterInv /\ [Next]_vars => LimiterInv'
<1> SUFFICES ASSUME LimiterInv, [Next]_vars PROVE LimiterInv'
  OBVIOUS
<1>1. ASSUME UNCHANGED <<hits, history>> PROVE LimiterInv'
  BY <1>1 DEF history, LimiterInv, Kept
<1>2. ASSUME NEW r \in Requests, NEW c \in Clients, Refuse(r, c) PROVE LimiterInv'
  BY <1>2, RefuseLimits
<1>3. ASSUME NEW r \in Requests, NEW c \in Clients,
             Malformed(r, c) \/ (\E q \in Queries : CacheHit(r, c, q) \/ CacheMiss(r, c, q))
      PROVE  LimiterInv'
  <2>1. LetThrough(r, c)
    BY <1>3 DEF Malformed, CacheHit, CacheMiss
  <2> QED
    BY <2>1, LetThroughLimits
<1>4. ASSUME NEW r \in Requests,
             \/ GatePasses(r) \/ CallEnds(r) \/ Understood(r) \/ AttemptFails(r)
             \/ CallRefused(r) \/ SearchAnswers(r)
             \/ SearchFails(r) \/ Leave(r) \/ EndRequest(r)
      PROVE  LimiterInv'
  <2>1. UNCHANGED <<hits, history>>
    BY <1>4 DEF GatePasses, CallEnds, Understood, AttemptFails, CallRefused,
                SearchAnswers, SearchFails, Leave, EndRequest, memory
  <2> QED
    BY <1>1, <2>1
<1>5. CASE Recycle
  <2>1. /\ hits' = [c \in Clients |-> <<>>] /\ admitted' = [c \in Clients |-> <<>>]
        /\ promise' = [c \in Clients |-> NoPromise]
    BY <1>5 DEF Recycle
  <2> QED
    BY <2>1, LimiterFresh
<1>6. CASE Tick
  BY <1>6, TickLimits
<1>7. CASE UNCHANGED vars
  BY <1>1, <1>7 DEF vars, memory
<1> QED
  BY <1>2, <1>3, <1>4, <1>5, <1>6, <1>7 DEF Next

LEMMA LimiterAlways == Spec => []LimiterInv
<1>1. Init => LimiterInv
  BY LimiterInit DEF Init
<1> QED
  BY <1>1, LimiterNext, PTL DEF Spec

-----------------------------------------------------------------------------
(* The state of the chat service keeps its shape, for all requests, clients
   and queries: the entries of the cache, the lists of the limiter and the
   times of the requests stay within their ranges (api/chat.ts:30). *)
THEOREM TypeCorrect == Spec => []TypeOK
<1>1. SearchInv /\ LimiterInv => TypeOK
  BY DEF SearchInv, ReqInv, Sound, Entries, Request, LimiterInv, Ages, TypeOK
<1> QED
  BY <1>1, SearchAlways, LimiterAlways, PTL

(* A client has exactly its allowance in every window, for any window, limit
   and size of the map that sets off its cleanup; and a client that was
   refused is let through when it comes back after Retry-After (http.ts:80,
   sendError 48). *)
THEOREM LimiterExact == Spec => LimiterIsExact
<1> DEFINE Exact ==
        /\ \A c \in Clients : Len(admitted'[c]) <= MaxRequests
        /\ \A r \in Requests : Under("idle", r) /\ req'[r].reply = "limited"
                               => /\ Len(admitted[req'[r].client]) = MaxRequests
                                  /\ promise[req'[r].client] # 0
<1>1. ASSUME SearchInv, LimiterInv, LimiterInv', [Next]_vars PROVE Exact
  <2>1. \A c \in Clients : Len(admitted'[c]) <= MaxRequests
    BY <1>1 DEF LimiterInv
  <2>2. ASSUME NEW r \in Requests, Under("idle", r), req'[r].reply = "limited"
        PROVE  /\ Len(admitted[req'[r].client]) = MaxRequests
               /\ promise[req'[r].client] # 0
    <3>1. \E c \in Clients : Refuse(r, c) /\ req'[r].client = c
      BY <1>1, <2>2, OnlyRefused
    <3>2. PICK c \in Clients : Refuse(r, c) /\ req'[r].client = c
      BY <3>1
    <3>3. Len(admitted[c]) = MaxRequests /\ admitted[c][1] \in 0..(Window - 1)
      BY <1>1, <3>2, AllowanceIs DEF Refuse
    <3>4. promise[c] = NoPromise \/ Window - admitted[c][1] <= promise[c]
      BY <1>1, <3>3 DEF LimiterInv, Kept
    <3>5. promise[c] # 0
      BY <3>3, <3>4, Limits DEF NoPromise
    <3> QED
      BY <3>2, <3>3, <3>5
  <2> QED
    BY <2>1, <2>2
<1>2. SearchInv /\ LimiterInv /\ LimiterInv' /\ [Next]_vars => [Exact]_vars
  BY <1>1
<1> QED
  BY <1>2, SearchAlways, LimiterAlways, PTL DEF Spec, LimiterIsExact
=============================================================================
