-------------------------- MODULE RateLimiterProofs --------------------------
(***************************************************************************)
(* Lemmas about the operators of RateLimiter, for any window and limit:    *)
(* in a list that is oldest first, what is left of it after the filter,    *)
(* after time has passed and after the cleanup of the map.                 *)
(***************************************************************************)
EXTENDS RateLimiter, SequenceTheorems, WellFoundedInduction, TLAPS

Ages == Seq(0..Window)
OldestFirst(s) == \A i, j \in DOMAIN s : i <= j => s[i] >= s[j]

\* The hits before place k have left the window, the others have not.
Cut(s, k) ==
    /\ k \in 1..(Len(s) + 1)
    /\ \A i \in DOMAIN s : s[i] < Window <=> i >= k

LEMMA Limits == Window \in Nat \ {0} /\ MaxRequests \in Nat \ {0} /\ MaxTracked \in Nat
BY LimiterAssumption

LEMMA SeqIs ==
    ASSUME NEW S, NEW seq \in Seq(S)
    PROVE  /\ Len(seq) \in Nat /\ DOMAIN seq = 1..Len(seq)
           /\ \A i \in DOMAIN seq : i \in Nat /\ seq[i] \in S
OBVIOUS

LEMMA AgesAre ==
    ASSUME NEW s \in Ages
    PROVE  /\ Len(s) \in Nat /\ DOMAIN s = 1..Len(s)
           /\ \A i \in DOMAIN s : i \in Nat /\ s[i] \in 0..Window
BY SeqIs DEF Ages

LEMMA AgesList ==
    ASSUME NEW k \in Nat, NEW f \in [1..k -> 0..Window]
    PROVE  f \in Ages /\ Len(f) = k
<1>1. f \in Seq(0..Window)
  BY SeqDef
<1> QED
  BY <1>1, LenProperties DEF Ages

\* A set of natural numbers has a least element.
LEMMA LeastElement ==
    ASSUME NEW T, T \subseteq Nat, T # {}
    PROVE  \E x \in T : \A y \in T : x <= y
<1>1. \E x \in T : \A y \in T : ~(<<y, x>> \in OpToRel(<, Nat))
  BY NatLessThanWellFounded, WFMin, Zenon
<1>2. PICK x \in T : \A y \in T : ~(<<y, x>> \in OpToRel(<, Nat))
  BY <1>1
<1>3. ASSUME NEW y \in T PROVE x <= y
  <2>1. ~(y < x)
    BY <1>2 DEF OpToRel
  <2> QED
    BY <2>1
<1> QED
  BY <1>3

\* A list that is oldest first has a cut.
LEMMA HasCut ==
    ASSUME NEW s \in Ages, OldestFirst(s)
    PROVE  \E k \in 1..(Len(s) + 1) : Cut(s, k)
<1>1. /\ Len(s) \in Nat /\ DOMAIN s = 1..Len(s) /\ Window \in Nat
      /\ \A i \in DOMAIN s : i \in Nat /\ s[i] \in 0..Window
  BY AgesAre, Limits
<1> DEFINE T == {i \in 1..(Len(s) + 1) : i <= Len(s) => s[i] < Window}
<1>2. T \subseteq Nat /\ Len(s) + 1 \in T
  BY <1>1
<1>3. PICK k \in T : \A i \in T : k <= i
  BY <1>2, LeastElement
<1>4. ASSUME NEW i \in DOMAIN s PROVE s[i] < Window <=> i >= k
  <2>1. i \in 1..Len(s) /\ k \in 1..(Len(s) + 1) /\ s[i] \in 0..Window
    BY <1>1
  <2>2. s[i] < Window => i >= k
    <3>1. s[i] < Window => i \in T
      BY <1>1, <2>1
    <3> QED
      BY <1>3, <2>1, <3>1
  <2>3. i >= k => s[i] < Window
    <3>1. HAVE i >= k
    <3>2. k \in DOMAIN s /\ s[k] < Window /\ s[k] \in 0..Window
      BY <1>1, <2>1, <3>1
    <3>3. s[k] >= s[i]
      BY <2>1, <3>1, <3>2 DEF OldestFirst
    <3> QED
      BY <1>1, <2>1, <3>2, <3>3
  <2> QED
    BY <2>2, <2>3
<1> QED
  BY <1>4 DEF Cut

\* First is that cut.
LEMMA FirstIsCut ==
    ASSUME NEW s \in Ages, NEW k, Cut(s, k)
    PROVE  First(s) = k
<1>1. /\ Len(s) \in Nat /\ DOMAIN s = 1..Len(s) /\ Window \in Nat
      /\ \A i \in DOMAIN s : i \in Nat /\ s[i] \in 0..Window
  BY AgesAre, Limits
<1> DEFINE Is(n) == /\ \A i \in 1..(n - 1) : s[i] >= Window
                    /\ n <= Len(s) => s[n] < Window
<1>2. k \in 1..(Len(s) + 1) /\ \A i \in DOMAIN s : s[i] < Window <=> i >= k
  BY DEF Cut
<1>3. Is(k)
  <2>1. ASSUME NEW i \in 1..(k - 1) PROVE s[i] >= Window
    <3>1. i \in DOMAIN s /\ ~(i >= k)
      BY <1>1, <1>2
    <3> QED
      BY <1>1, <1>2, <3>1
  <2>2. k <= Len(s) => s[k] < Window
    BY <1>1, <1>2
  <2> QED
    BY <2>1, <2>2
<1>4. ASSUME NEW n \in 1..(Len(s) + 1), Is(n) PROVE n = k
  <2>1. ~(n < k)
    <3> SUFFICES ASSUME n < k PROVE FALSE
      OBVIOUS
    <3>1. n \in DOMAIN s /\ n <= Len(s) /\ ~(n >= k)
      BY <1>1, <1>2
    <3> QED
      BY <1>2, <1>4, <3>1
  <2>2. ~(n > k)
    <3> SUFFICES ASSUME n > k PROVE FALSE
      OBVIOUS
    <3>1. k \in DOMAIN s /\ k \in 1..(n - 1) /\ k >= k
      BY <1>1, <1>2
    <3>2. s[k] < Window /\ s[k] >= Window /\ s[k] \in 0..Window
      BY <1>1, <1>2, <1>4, <3>1
    <3> QED
      BY <1>1, <3>2
  <2> QED
    BY <1>1, <1>2, <2>1, <2>2
<1>5. First(s) = CHOOSE n \in 1..(Len(s) + 1) : Is(n)
  BY DEF First
<1> HIDE DEF Is
<1> QED
  BY <1>2, <1>3, <1>4, <1>5

\* What the filter leaves: the hits from the cut on.
LEMMA RecentIs ==
    ASSUME NEW s \in Ages, NEW k, Cut(s, k)
    PROVE  /\ Recent(s) \in Ages /\ Len(Recent(s)) = Len(s) - k + 1
           /\ \A i \in 1..(Len(s) - k + 1) : Recent(s)[i] = s[k + i - 1]
<1>1. /\ Len(s) \in Nat /\ DOMAIN s = 1..Len(s) /\ k \in 1..(Len(s) + 1)
      /\ \A i \in DOMAIN s : i \in Nat /\ s[i] \in 0..Window
  BY AgesAre DEF Cut
<1>2. Recent(s) = SubSeq(s, k, Len(s))
  BY FirstIsCut DEF Recent
<1>3. \A i \in k..Len(s) : s[i] \in 0..Window
  BY <1>1
<1>4. /\ SubSeq(s, k, Len(s)) \in Seq(0..Window)
      /\ Len(SubSeq(s, k, Len(s))) = IF k <= Len(s) THEN Len(s) - k + 1 ELSE 0
      /\ \A i \in 1..(Len(s) - k + 1) : SubSeq(s, k, Len(s))[i] = s[k + i - 1]
  BY <1>1, <1>3, SubSeqProperties
<1> QED
  BY <1>1, <1>2, <1>4 DEF Ages

\* They are within the window, and still oldest first.
LEMMA RecentKept ==
    ASSUME NEW s \in Ages, OldestFirst(s)
    PROVE  /\ Recent(s) \in Ages /\ OldestFirst(Recent(s))
           /\ \A i \in DOMAIN Recent(s) : Recent(s)[i] < Window
<1>1. PICK k \in 1..(Len(s) + 1) : Cut(s, k)
  BY HasCut
<1>2. /\ Len(s) \in Nat /\ DOMAIN s = 1..Len(s)
      /\ \A i \in DOMAIN s : i \in Nat /\ s[i] \in 0..Window
  BY AgesAre
<1>3. /\ Recent(s) \in Ages /\ Len(Recent(s)) = Len(s) - k + 1
      /\ \A i \in 1..(Len(s) - k + 1) : Recent(s)[i] = s[k + i - 1]
  BY <1>1, RecentIs
<1>4. DOMAIN Recent(s) = 1..(Len(s) - k + 1)
  BY <1>3, AgesAre
<1>5. ASSUME NEW i \in DOMAIN Recent(s)
      PROVE  k + i - 1 \in DOMAIN s /\ k + i - 1 >= k /\ Recent(s)[i] = s[k + i - 1]
  BY <1>2, <1>3, <1>4
<1>6. ASSUME NEW i \in DOMAIN Recent(s) PROVE Recent(s)[i] < Window
  BY <1>1, <1>5 DEF Cut
<1>7. ASSUME NEW i \in DOMAIN Recent(s), NEW j \in DOMAIN Recent(s), i <= j
      PROVE  Recent(s)[i] >= Recent(s)[j]
  <2>1. k + i - 1 <= k + j - 1
    BY <1>2, <1>4, <1>7
  <2> QED
    BY <1>5, <2>1 DEF OldestFirst
<1> QED
  BY <1>3, <1>6, <1>7 DEF OldestFirst

\* A list that has no old hits is left as it is.
LEMMA RecentAll ==
    ASSUME NEW s \in Ages, \A i \in DOMAIN s : s[i] < Window
    PROVE  Recent(s) = s
<1>1. Len(s) \in Nat /\ DOMAIN s = 1..Len(s)
  BY AgesAre
<1>2. Cut(s, 1)
  BY <1>1 DEF Cut
<1>3. First(s) = 1
  BY <1>2, FirstIsCut
<1> QED
  BY <1>3, SubSeqFull DEF Recent, Ages

LEMMA RecentEmpty == <<>> \in Ages /\ OldestFirst(<<>>) /\ Recent(<<>>) = <<>>
<1>1. <<>> \in Ages /\ DOMAIN <<>> = {}
  BY EmptySeq DEF Ages
<1> QED
  BY <1>1, RecentAll DEF OldestFirst

\* Lists with the same elements are the same.
LEMMA SameList ==
    ASSUME NEW s \in Ages, NEW t \in Ages, Len(s) = Len(t),
           \A i \in 1..Len(s) : s[i] = t[i]
    PROVE  s = t
BY SeqEqual DEF Ages

\* Time passes for a list.
LEMMA OlderIs ==
    ASSUME NEW s \in Ages
    PROVE  /\ Older(s) \in Ages /\ Len(Older(s)) = Len(s) /\ DOMAIN Older(s) = DOMAIN s
           /\ \A i \in DOMAIN s : Older(s)[i] = IF s[i] < Window THEN s[i] + 1 ELSE s[i]
           /\ OldestFirst(s) => OldestFirst(Older(s))
<1>1. /\ Len(s) \in Nat /\ DOMAIN s = 1..Len(s) /\ Window \in Nat
      /\ \A i \in DOMAIN s : i \in Nat /\ s[i] \in 0..Window
  BY AgesAre, Limits
<1>2. Older(s) = [i \in 1..Len(s) |-> IF s[i] < Window THEN s[i] + 1 ELSE s[i]]
  BY <1>1 DEF Older
<1>3. \A i \in 1..Len(s) : (IF s[i] < Window THEN s[i] + 1 ELSE s[i]) \in 0..Window
  BY <1>1
<1>4. Older(s) \in [1..Len(s) -> 0..Window]
  BY <1>2, <1>3
<1>5. Older(s) \in Ages /\ Len(Older(s)) = Len(s)
  BY <1>1, <1>4, AgesList
<1>6. \A i \in DOMAIN s : Older(s)[i] = IF s[i] < Window THEN s[i] + 1 ELSE s[i]
  BY <1>1, <1>2
<1>7. ASSUME OldestFirst(s), NEW i \in DOMAIN s, NEW j \in DOMAIN s, i <= j
      PROVE  Older(s)[i] >= Older(s)[j]
  <2>1. s[i] \in 0..Window /\ s[j] \in 0..Window /\ s[i] >= s[j]
    BY <1>1, <1>7 DEF OldestFirst
  <2> QED
    BY <1>1, <1>6, <2>1
<1>8. DOMAIN Older(s) = DOMAIN s
  BY <1>1, <1>2
<1> QED
  BY <1>5, <1>6, <1>7, <1>8 DEF OldestFirst

\* It does not matter whether old hits were filtered out before.
LEMMA RecentOlder ==
    ASSUME NEW s \in Ages, OldestFirst(s)
    PROVE  Recent(Older(Recent(s))) = Recent(Older(s))
<1> DEFINE t == Recent(s)
           os == Older(s)
           ot == Older(t)
<1>1. /\ Len(s) \in Nat /\ DOMAIN s = 1..Len(s) /\ Window \in Nat
      /\ \A i \in DOMAIN s : i \in Nat /\ s[i] \in 0..Window
  BY AgesAre, Limits
<1>2. PICK k \in 1..(Len(s) + 1) : Cut(s, k)
  BY HasCut
<1>3. /\ t \in Ages /\ OldestFirst(t) /\ Len(t) = Len(s) - k + 1
      /\ \A i \in 1..(Len(s) - k + 1) : t[i] = s[k + i - 1]
  BY <1>2, RecentIs, RecentKept
<1>4. /\ os \in Ages /\ Len(os) = Len(s) /\ DOMAIN os = DOMAIN s
      /\ \A i \in DOMAIN s : os[i] = IF s[i] < Window THEN s[i] + 1 ELSE s[i]
  BY OlderIs
<1>5. /\ ot \in Ages /\ Len(ot) = Len(t) /\ DOMAIN ot = DOMAIN t /\ OldestFirst(ot)
      /\ \A i \in DOMAIN t : ot[i] = IF t[i] < Window THEN t[i] + 1 ELSE t[i]
  BY <1>3, OlderIs
<1>6. PICK m \in 1..(Len(ot) + 1) : Cut(ot, m)
  BY <1>5, HasCut
<1> HIDE DEF t, os, ot
<1>7. DOMAIN t = 1..(Len(s) - k + 1) /\ k \in Nat /\ m \in Nat /\ m \in 1..(Len(s) - k + 2)
  BY <1>1, <1>3, <1>5, <1>6, AgesAre
<1>8. ASSUME NEW i \in 1..(Len(s) - k + 1)
      PROVE  k + i - 1 \in DOMAIN s /\ ot[i] = os[k + i - 1]
  <2>1. k + i - 1 \in DOMAIN s /\ i \in DOMAIN t
    BY <1>1, <1>7
  <2> QED
    BY <1>3, <1>4, <1>5, <2>1
<1>9. PICK n \in Nat : n = k + m - 1
  BY <1>7
<1>10. Cut(os, n)
  <2>1. n \in 1..(Len(os) + 1)
    BY <1>1, <1>4, <1>7, <1>9
  <2>2. ASSUME NEW i \in DOMAIN os PROVE os[i] < Window <=> i >= n
    <3>1. i \in 1..Len(s) /\ i \in Nat /\ os[i] \in 0..Window /\ s[i] \in 0..Window
      BY <1>1, <1>4, AgesAre
    <3>2. CASE i < k
      <4>1. ~(s[i] < Window)
        BY <1>2, <1>7, <3>1, <3>2, <1>1 DEF Cut
      <4> QED
        BY <1>1, <1>4, <1>7, <1>9, <3>1, <3>2, <4>1
    <3>3. CASE i >= k
      <4>1. PICK j \in Nat : j = i - k + 1
        BY <1>7, <3>1, <3>3
      <4>2. j \in 1..(Len(s) - k + 1) /\ k + j - 1 = i
        BY <1>1, <1>7, <3>1, <3>3, <4>1
      <4>3. ot[j] = os[i] /\ j \in DOMAIN ot
        BY <1>5, <1>7, <1>8, <4>2
      <4>4. ot[j] < Window <=> j >= m
        BY <1>6, <4>3 DEF Cut
      <4>5. j >= m <=> i >= n
        BY <1>7, <1>9, <3>1, <4>1
      <4> QED
        BY <4>3, <4>4, <4>5
    <3> QED
      BY <1>7, <3>1, <3>2, <3>3
  <2> QED
    BY <2>1, <2>2 DEF Cut
<1>11. /\ Recent(os) \in Ages /\ Len(Recent(os)) = Len(os) - n + 1
       /\ \A i \in 1..(Len(os) - n + 1) : Recent(os)[i] = os[n + i - 1]
  BY <1>4, <1>10, RecentIs
<1>12. /\ Recent(ot) \in Ages /\ Len(Recent(ot)) = Len(ot) - m + 1
       /\ \A i \in 1..(Len(ot) - m + 1) : Recent(ot)[i] = ot[m + i - 1]
  <2>1. m \in 1..(Len(ot) + 1) /\ Cut(ot, m) /\ ot \in Ages
    BY <1>5, <1>6
  <2> QED
    BY <2>1, RecentIs
<1>13. Len(Recent(ot)) = Len(Recent(os)) /\ Len(Recent(ot)) = Len(s) - n + 1
  BY <1>1, <1>3, <1>4, <1>5, <1>7, <1>9, <1>11, <1>12
<1>14. ASSUME NEW i \in 1..Len(Recent(ot)) PROVE Recent(ot)[i] = Recent(os)[i]
  <2>1. PICK j \in Nat : j = m + i - 1
    BY <1>7, <1>13
  <2>2. j \in 1..(Len(s) - k + 1) /\ k + j - 1 = n + i - 1
    BY <1>1, <1>7, <1>9, <1>13, <2>1
  <2>3. Recent(ot)[i] = ot[j] /\ Recent(os)[i] = os[n + i - 1]
    BY <1>4, <1>11, <1>12, <1>13, <2>1
  <2> QED
    BY <1>8, <2>2, <2>3
<1>15. Recent(ot) = Recent(os)
  BY <1>11, <1>12, <1>13, <1>14, SameList
<1> QED
  BY <1>15 DEF t, os, ot

\* A request that is let through is the newest hit of its client.
LEMMA AdmittedIs ==
    ASSUME NEW s \in Ages, \A i \in DOMAIN s : s[i] < Window, OldestFirst(s)
    PROVE  /\ Append(s, 0) \in Ages /\ Len(Append(s, 0)) = Len(s) + 1
           /\ OldestFirst(Append(s, 0)) /\ Recent(Append(s, 0)) = Append(s, 0)
<1> DEFINE t == Append(s, 0)
<1>1. /\ Len(s) \in Nat /\ DOMAIN s = 1..Len(s) /\ Window \in Nat \ {0} /\ 0 \in 0..Window
      /\ \A i \in DOMAIN s : i \in Nat /\ s[i] \in 0..Window
  BY AgesAre, Limits
<1>2. /\ t \in Ages /\ Len(t) = Len(s) + 1 /\ t[Len(s) + 1] = 0
      /\ \A i \in 1..Len(s) : t[i] = s[i]
  BY <1>1, AppendProperties DEF Ages
<1> HIDE DEF t
<1>3. DOMAIN t = 1..(Len(s) + 1)
  BY <1>2, AgesAre
<1>4. ASSUME NEW i \in DOMAIN t PROVE i \in 1..Len(s) \/ i = Len(s) + 1
  BY <1>1, <1>3
<1>5. \A i \in DOMAIN t : t[i] < Window
  BY <1>1, <1>2, <1>4
<1>6. ASSUME NEW i \in DOMAIN t, NEW j \in DOMAIN t, i <= j PROVE t[i] >= t[j]
  <2>1. CASE j = Len(s) + 1
    <3>1. t[j] = 0 /\ t[i] \in Nat
      BY <1>2, <2>1, AgesAre
    <3> QED
      BY <3>1
  <2>2. CASE j \in 1..Len(s)
    <3>1. i \in 1..Len(s)
      BY <1>1, <1>3, <1>6, <2>2
    <3> QED
      BY <1>1, <1>2, <1>6, <2>2, <3>1 DEF OldestFirst
  <2> QED
    BY <1>4, <2>1, <2>2
<1>7. OldestFirst(t) /\ Recent(t) = t
  BY <1>2, <1>5, <1>6, RecentAll DEF OldestFirst
<1> QED
  BY <1>2, <1>7 DEF t

\* The map after a request of c, cleaned or not, counts that request and
\* no hit of another client more or less.
LEMMA NotedIs ==
    ASSUME NEW hits \in [Clients -> Ages], \A d \in Clients : OldestFirst(hits[d]),
           NEW c \in Clients
    PROVE  /\ Noted(hits, c) \in [Clients -> Ages]
           /\ \A d \in Clients :
                /\ OldestFirst(Noted(hits, c)[d])
                /\ Recent(Noted(hits, c)[d]) =
                     IF d = c THEN Append(Recent(hits[c]), 0) ELSE Recent(hits[d])
<1> DEFINE new == Append(Recent(hits[c]), 0)
           added == [hits EXCEPT ![c] = new]
<1>1. new \in Ages /\ OldestFirst(new) /\ Recent(new) = new
  BY RecentKept, AdmittedIs
<1> HIDE DEF new
<1>2. added \in [Clients -> Ages]
  BY <1>1
<1>3. ASSUME NEW d \in Clients
      PROVE  /\ OldestFirst(added[d])
             /\ Recent(added[d]) = IF d = c THEN new ELSE Recent(hits[d])
  BY <1>1
<1> HIDE DEF added
<1>4. DOMAIN added = Clients
  BY <1>2
<1>5. Cleaned(added) = [d \in Clients |-> IF Recent(added[d]) = <<>> THEN <<>> ELSE added[d]]
  BY <1>4 DEF Cleaned
<1>6. Cleaned(added) \in [Clients -> Ages]
  BY <1>2, <1>5, RecentEmpty
<1>7. ASSUME NEW d \in Clients
      PROVE  OldestFirst(Cleaned(added)[d]) /\ Recent(Cleaned(added)[d]) = Recent(added[d])
  <2>1. Cleaned(added)[d] = IF Recent(added[d]) = <<>> THEN <<>> ELSE added[d]
    BY <1>5
  <2> QED
    BY <1>3, <2>1, RecentEmpty
<1>8. Noted(hits, c) = added \/ Noted(hits, c) = Cleaned(added)
  BY DEF Noted, added, new
<1>9. CASE Noted(hits, c) = added
  BY <1>2, <1>3, <1>9 DEF new
<1>10. CASE Noted(hits, c) = Cleaned(added)
  BY <1>3, <1>6, <1>7, <1>10 DEF new
<1> QED
  BY <1>8, <1>9, <1>10
=============================================================================
