-------------------------- MODULE ChatClientProofs --------------------------
(***************************************************************************)
(* Theorems about ChatClient, for any number of tabs, chats and questions. *)
(***************************************************************************)
EXTENDS ChatClient, FiniteSetTheorems, SequenceTheorems, TLAPS

-----------------------------------------------------------------------------
(***************************************************************************)
(* The inductive invariant: two tabs with the same open chat are on        *)
(* record; a mirror begins as its chat does; a question awaits its answer  *)
(* in one tab, and not when it has one; it has one in one chat only; the   *)
(* chats and the mirrors of open ones hold replies that arrived in that    *)
(* chat, each once; and those of a chat that was never shared are stored.  *)
(***************************************************************************)
Rec == [id : Chats, title : Questions, messages : Seq(Messages)]
TitleOf(c) == storage[Index(c)].title
Entry(chats, c) == chats[CHOOSE i \in DOMAIN chats : chats[i].id = c]
Begins(messages, n) == messages # <<>> /\ messages[1] = Asked(n)

Noted ==
    \A t, u \in Tabs : t # u /\ open[t] = open[u] => open[t] \in shared \cup {NoChat}
Headed == \A t \in Tabs : open[t] # NoChat => Begins(mirror[t], TitleOf(open[t]))
Awaited ==
    \A t \in Tabs : \A n \in pending[t] :
        /\ n <= asked
        /\ \A a \in answered : a.question # n
        /\ \A u \in Tabs : n \in pending[u] => t = u
AnsweredOnce ==
    \A a \in answered : a.question <= asked /\ \A b \in answered : a.question = b.question => a = b

Arrived(messages, c, replies) ==
    \A n \in Questions : \A i \in DOMAIN messages :
        messages[i] = Reply(n) =>
            /\ [question |-> n, chat |-> c] \in replies
            /\ \A j \in DOMAIN messages : messages[j] = Reply(n) => i = j
StoredArrived == \A c \in Stored : Arrived(MessagesOf(c), c, answered)
MirrorsArrived == \A t \in Tabs : open[t] # NoChat => Arrived(mirror[t], open[t], answered)
Kept ==
    \A a \in answered :
        a.chat \in shared
        \/ \E i \in DOMAIN MessagesOf(a.chat) : MessagesOf(a.chat)[i] = Reply(a.question)

Mirrors == Noted /\ Headed /\ MirrorIsStored
Replies == Awaited /\ AnsweredOnce /\ StoredArrived /\ MirrorsArrived /\ Kept
ClientInv == TypeOK /\ Mirrors /\ Replies

-----------------------------------------------------------------------------
\* Chats of a list are told by their ids.
LEMMA PlaceOf ==
    ASSUME NEW chats, NEW i \in DOMAIN chats,
           \A j \in DOMAIN chats : chats[j].id = chats[i].id => i = j
    PROVE  (CHOOSE k \in DOMAIN chats : chats[k].id = chats[i].id) = i
OBVIOUS

LEMMA Elements ==
    ASSUME NEW S, NEW seq \in Seq(S)
    PROVE  /\ Len(seq) \in Nat /\ DOMAIN seq = 1..Len(seq)
           /\ \A i \in DOMAIN seq : i \in Nat /\ seq[i] \in S
OBVIOUS

LEMMA StorageElements ==
    ASSUME TypeOK
    PROVE  /\ storage \in Seq(Rec) /\ Len(storage) \in Nat /\ DOMAIN storage = 1..Len(storage)
           /\ \A i \in DOMAIN storage : i \in Nat /\ storage[i] \in Rec
<1>1. storage \in Seq(Rec)
  BY DEF TypeOK, Rec
<1> HIDE DEF Rec
<1> QED
  BY <1>1, Elements

LEMMA IsList ==
    ASSUME NEW S, NEW k \in Nat, NEW f, f = [i \in 1..k |-> f[i]], \A i \in 1..k : f[i] \in S
    PROVE  f \in Seq(S)
OBVIOUS

LEMMA Lookup ==
    ASSUME TypeOK, NEW c \in Stored
    PROVE  /\ Index(c) \in DOMAIN storage /\ storage[Index(c)].id = c
           /\ MessagesOf(c) \in Seq(Messages) /\ TitleOf(c) \in Questions
           /\ Begins(MessagesOf(c), TitleOf(c)) /\ c \in Chats
<1>1. PICK i \in DOMAIN storage : storage[i].id = c
  BY DEF Stored
<1>2. Index(c) = i
  BY <1>1, PlaceOf DEF Index, TypeOK
<1>3. storage[i] \in Rec
  BY StorageElements
<1> QED
  BY <1>1, <1>2, <1>3 DEF TypeOK, Rec, MessagesOf, TitleOf, Begins

LEMMA AskedType ==
    ASSUME NEW n \in Questions
    PROVE  /\ Asked(n) \in Messages /\ Reply(n) \in Messages
           /\ \A m \in Questions : Asked(n) # Reply(m) /\ (Reply(n) = Reply(m) => n = m)
BY DEF Asked, Reply, Messages

(***************************************************************************)
(* What a stored chat is after it was written, and what the others are.    *)
(***************************************************************************)
Written(c, messages, n) ==
    /\ Stored' = Stored \cup {c}
    /\ storage' \in Seq(Rec)
    /\ \A i, j \in DOMAIN storage' : storage'[i].id = storage'[j].id => i = j
    /\ \A i \in DOMAIN storage' : Begins(storage'[i].messages, storage'[i].title)
    /\ MessagesOf(c)' = messages /\ TitleOf(c)' = n
    /\ \A d \in Stored \ {c} : MessagesOf(d)' = MessagesOf(d) /\ TitleOf(d)' = TitleOf(d)

LEMMA Rewrite ==
    ASSUME TypeOK, NEW c \in Stored, NEW messages \in Seq(Messages),
           Begins(messages, TitleOf(c)), storage' = Updated(storage, c, messages)
    PROVE  Written(c, messages, TitleOf(c))
<1>1. /\ DOMAIN storage' = DOMAIN storage /\ storage \in Seq(Rec)
      /\ \A i \in DOMAIN storage :
            storage'[i] = IF storage[i].id = c THEN [storage[i] EXCEPT !.messages = messages]
                          ELSE storage[i]
  BY DEF Updated, TypeOK, Rec
<1>2. \A i \in DOMAIN storage :
          /\ storage'[i] \in Rec /\ storage'[i].id = storage[i].id
          /\ storage'[i].title = storage[i].title
          /\ storage'[i].messages = IF storage[i].id = c THEN messages ELSE storage[i].messages
  <2> SUFFICES ASSUME NEW i \in DOMAIN storage
               PROVE  /\ storage'[i] \in Rec /\ storage'[i].id = storage[i].id
                      /\ storage'[i].title = storage[i].title
                      /\ storage'[i].messages = IF storage[i].id = c THEN messages
                                                ELSE storage[i].messages
    OBVIOUS
  <2>1. storage[i] \in Rec
    BY StorageElements
  <2>2. CASE storage[i].id = c
    BY <1>1, <2>1, <2>2 DEF Rec
  <2>3. CASE storage[i].id # c
    BY <1>1, <2>1, <2>3
  <2> QED
    BY <2>2, <2>3
<1>3. storage' \in Seq(Rec)
  <2>1. storage' = [i \in 1..Len(storage) |-> storage'[i]]
    BY StorageElements DEF Updated
  <2>2. \A i \in 1..Len(storage) : storage'[i] \in Rec
    BY <1>2, StorageElements
  <2> QED
    BY <2>1, <2>2, StorageElements, IsList
<1>4. \A i, j \in DOMAIN storage' : storage'[i].id = storage'[j].id => i = j
  BY <1>1, <1>2 DEF TypeOK
<1>5. \A d \in Stored : Index(d)' = Index(d)
  <2> SUFFICES ASSUME NEW d \in Stored PROVE Index(d)' = Index(d)
    OBVIOUS
  <2>1. Index(d) \in DOMAIN storage' /\ storage'[Index(d)].id = d
    BY <1>1, <1>2, Lookup
  <2> QED
    BY <1>4, <2>1, PlaceOf DEF Index
<1>6. Stored' = Stored
  BY <1>1, <1>2 DEF Stored
<1>7. \A d \in Stored : /\ MessagesOf(d)' = IF d = c THEN messages ELSE MessagesOf(d)
                        /\ TitleOf(d)' = TitleOf(d)
  BY <1>2, <1>5, Lookup DEF MessagesOf, TitleOf
<1>8. \A i \in DOMAIN storage : storage[i].id = c => i = Index(c)
  BY Lookup DEF TypeOK
<1>9. \A i \in DOMAIN storage' : Begins(storage'[i].messages, storage'[i].title)
  BY <1>1, <1>2, <1>8 DEF TypeOK, Begins, TitleOf
<1> QED
  BY <1>3, <1>4, <1>6, <1>7, <1>9 DEF Written

LEMMA AddChat ==
    ASSUME TypeOK, NEW c \in Chats, c \notin Stored, NEW n \in Questions,
           NEW messages \in Seq(Messages), Begins(messages, n),
           storage' = Updated(<<[id |-> c, title |-> n, messages |-> <<>>]>> \o storage, c, messages)
    PROVE  Written(c, messages, n)
<1> DEFINE first == [id |-> c, title |-> n, messages |-> <<>>]
           new == [id |-> c, title |-> n, messages |-> messages]
           chats == <<first>> \o storage
<1>1. first \in Rec /\ new \in Rec /\ first.id = c /\ new.id = c /\ new.title = n
      /\ new.messages = messages /\ [first EXCEPT !.messages = messages] = new
  BY DEF Rec
<1>2. /\ DOMAIN chats = 1..(Len(storage) + 1)
      /\ chats[1] = first /\ \A i \in DOMAIN storage : chats[i + 1] = storage[i]
  BY StorageElements
<1>3. \A i \in DOMAIN storage : storage[i].id # c
  BY DEF Stored
<1>4. storage' = [i \in 1..(Len(storage) + 1) |->
                    IF chats[i].id = c THEN [chats[i] EXCEPT !.messages = messages] ELSE chats[i]]
  <2> HIDE DEF first
  <2>1. storage' = Updated(chats, c, messages)
    BY DEF first
  <2> HIDE DEF chats
  <2> QED
    BY <1>2, <2>1 DEF Updated
<1> HIDE DEF chats, first, new
<1>5. /\ DOMAIN storage' = 1..(Len(storage) + 1)
      /\ 1 \in DOMAIN storage' /\ storage'[1] = new
      /\ \A i \in DOMAIN storage : i + 1 \in DOMAIN storage' /\ storage'[i + 1] = storage[i]
  <2>1. 1 \in 1..(Len(storage) + 1) /\ \A i \in DOMAIN storage : i + 1 \in 1..(Len(storage) + 1)
    BY StorageElements
  <2>2. storage'[1] = new
    BY <1>1, <1>2, <1>4, <2>1
  <2> QED
    BY <1>2, <1>3, <1>4, <2>1, <2>2
<1>6. \A i \in DOMAIN storage' :
          \/ i = 1
          \/ i - 1 \in DOMAIN storage /\ storage'[i] = storage[i - 1]
  <2> SUFFICES ASSUME NEW i \in DOMAIN storage', i # 1
               PROVE  i - 1 \in DOMAIN storage /\ storage'[i] = storage[i - 1]
    OBVIOUS
  <2>1. i - 1 \in DOMAIN storage /\ i = (i - 1) + 1
    BY <1>5, StorageElements
  <2> QED
    BY <1>5, <2>1
<1>7. storage' \in Seq(Rec)
  <2>1. storage' = [i \in 1..(Len(storage) + 1) |-> storage'[i]]
    BY <1>4, <1>5
  <2>2. \A i \in 1..(Len(storage) + 1) : storage'[i] \in Rec
    BY <1>1, <1>5, <1>6, StorageElements
  <2>3. Len(storage) + 1 \in Nat
    BY StorageElements
  <2> QED
    BY <2>1, <2>2, <2>3, IsList
<1>8. \A i, j \in DOMAIN storage' : storage'[i].id = storage'[j].id => i = j
  <2> SUFFICES ASSUME NEW i \in DOMAIN storage', NEW j \in DOMAIN storage',
                      storage'[i].id = storage'[j].id
               PROVE  i = j
    OBVIOUS
  <2>1. i \in Int /\ j \in Int
    BY <1>5, StorageElements
  <2>2. CASE i = 1 \/ j = 1
    BY <1>1, <1>3, <1>5, <1>6, <2>2
  <2>3. CASE i # 1 /\ j # 1
    <3>1. storage[i - 1].id = storage[j - 1].id /\ {i - 1, j - 1} \subseteq DOMAIN storage
      BY <1>6, <2>3
    <3>2. i - 1 = j - 1
      BY <3>1 DEF TypeOK
    <3> QED
      BY <2>1, <3>2
  <2> QED
    BY <2>2, <2>3
<1>9. Stored' = Stored \cup {c}
  <2>1. \A d \in Stored : d \in Stored'
    <3> SUFFICES ASSUME NEW i \in DOMAIN storage PROVE storage[i].id \in Stored'
      BY DEF Stored
    <3>1. i + 1 \in DOMAIN storage' /\ storage'[i + 1] = storage[i]
      BY <1>1, <1>5
    <3> QED
      BY <3>1 DEF Stored
  <2>2. c \in Stored'
    <3>1. 1 \in DOMAIN storage' /\ storage'[1].id = c
      BY <1>1, <1>5
    <3> QED
      BY <3>1 DEF Stored
  <2>3. \A i \in DOMAIN storage' : storage'[i].id \in Stored \cup {c}
    BY <1>1, <1>5, <1>6 DEF Stored
  <2> QED
    BY <2>1, <2>2, <2>3 DEF Stored
<1>10. Index(c)' = 1
  <2>1. 1 \in DOMAIN storage' /\ storage'[1].id = c
    BY <1>1, <1>5
  <2> QED
    BY <1>8, <2>1, PlaceOf DEF Index
<1>11. \A d \in Stored : Index(d)' = Index(d) + 1
  <2> SUFFICES ASSUME NEW d \in Stored PROVE Index(d)' = Index(d) + 1
    OBVIOUS
  <2>1. Index(d) + 1 \in DOMAIN storage' /\ storage'[Index(d) + 1].id = d
    BY <1>1, <1>5, Lookup
  <2> QED
    BY <1>8, <2>1, PlaceOf DEF Index
<1>12. MessagesOf(c)' = messages /\ TitleOf(c)' = n
  BY <1>1, <1>5, <1>10 DEF MessagesOf, TitleOf
<1>13. \A d \in Stored \ {c} : MessagesOf(d)' = MessagesOf(d) /\ TitleOf(d)' = TitleOf(d)
  BY <1>5, <1>11, Lookup DEF MessagesOf, TitleOf
<1>14. \A i \in DOMAIN storage' : Begins(storage'[i].messages, storage'[i].title)
  <2> SUFFICES ASSUME NEW i \in DOMAIN storage'
               PROVE  Begins(storage'[i].messages, storage'[i].title)
    OBVIOUS
  <2>1. CASE i = 1
    BY <1>1, <1>5, <2>1
  <2>2. CASE i - 1 \in DOMAIN storage /\ storage'[i] = storage[i - 1]
    BY <2>2 DEF TypeOK, Begins
  <2> QED
    BY <1>6, <2>1, <2>2
<1> QED
  BY <1>7, <1>8, <1>9, <1>12, <1>13, <1>14 DEF Written

-----------------------------------------------------------------------------
\* A tab wrote messages to its open chat, or to a new one.
Adds(t, c, messages, n) ==
    /\ open' = [open EXCEPT ![t] = c]
    /\ mirror' = [mirror EXCEPT ![t] = messages]
    /\ open[t] = c \/ (open[t] = NoChat /\ c \notin Stored)
    /\ Written(c, messages, n) /\ Begins(messages, n)
    /\ c \in Stored => n = TitleOf(c)

LEMMA AddsTabs ==
    ASSUME ClientInv, NEW t \in Tabs, NEW c \in Chats, NEW messages \in Seq(Messages),
           NEW n \in Questions, Adds(t, c, messages, n)
    PROVE  /\ \A u \in Tabs : open'[u] = (IF u = t THEN c ELSE open[u])
                             /\ mirror'[u] = (IF u = t THEN messages ELSE mirror[u])
           /\ \A u \in Tabs \ {t} : open[u] = c => c \in shared
           /\ \A d \in Chats : \A u, v \in Tabs : u # v /\ open'[u] = d /\ open'[v] = d => d \in shared
           /\ c # NoChat /\ \A u \in Tabs : open[u] \in Stored \cup {NoChat}
<1>1. open \in [Tabs -> Stored \cup {NoChat}] /\ mirror \in [Tabs -> Seq(Messages)]
  BY DEF ClientInv, TypeOK
<1>2. c # NoChat /\ \A u \in Tabs : open[u] \in Stored \cup {NoChat}
  BY <1>1, ClientAssumption DEF NoChat
<1>3. \A u \in Tabs : open'[u] = (IF u = t THEN c ELSE open[u])
                     /\ mirror'[u] = (IF u = t THEN messages ELSE mirror[u])
  BY <1>1 DEF Adds
<1>4. \A u \in Tabs \ {t} : open[u] = c => c \in shared
  BY <1>2 DEF Adds, ClientInv, Mirrors, Noted
<1>5. \A d \in Chats : \A u, v \in Tabs : u # v /\ open'[u] = d /\ open'[v] = d => d \in shared
  BY <1>3, <1>4, ClientAssumption DEF ClientInv, Mirrors, Noted, NoChat
<1> QED
  BY <1>2, <1>3, <1>4, <1>5

LEMMA AddsKeep ==
    ASSUME ClientInv, NEW t \in Tabs, NEW c \in Chats, NEW messages \in Seq(Messages),
           NEW n \in Questions, Adds(t, c, messages, n), shared' = shared,
           answered \subseteq answered', Arrived(messages, c, answered')
    PROVE  /\ Mirrors' /\ StoredArrived' /\ MirrorsArrived'
           /\ open' \in [Tabs -> Stored' \cup {NoChat}] /\ mirror' \in [Tabs -> Seq(Messages)]
           /\ Stored \subseteq Stored'
<1>1. /\ \A u \in Tabs : open'[u] = (IF u = t THEN c ELSE open[u])
                       /\ mirror'[u] = (IF u = t THEN messages ELSE mirror[u])
      /\ \A u \in Tabs \ {t} : open[u] = c => c \in shared
      /\ c # NoChat /\ \A u \in Tabs : open[u] \in Stored \cup {NoChat}
  BY AddsTabs
<1>2. \A d \in Stored : Arrived(MessagesOf(d), d, answered')
  BY DEF ClientInv, Replies, StoredArrived, Arrived
<1>3. \A u \in Tabs : open[u] # NoChat => Arrived(mirror[u], open[u], answered')
  BY DEF ClientInv, Replies, MirrorsArrived, Arrived
<1>4. /\ Stored' = Stored \cup {c} /\ MessagesOf(c)' = messages /\ TitleOf(c)' = n
      /\ \A d \in Stored \ {c} : MessagesOf(d)' = MessagesOf(d) /\ TitleOf(d)' = TitleOf(d)
      /\ Begins(messages, n) /\ (c \in Stored => n = TitleOf(c))
  BY DEF Adds, Written
<1>5. \A d \in Chats : /\ TitleOf(d)' = Entry(storage', d).title
                       /\ MessagesOf(d)' = Entry(storage', d).messages
  BY DEF TitleOf, MessagesOf, Index, Entry
<1>6. \A u \in Tabs : /\ TitleOf(open[u])' = Entry(storage', open'[u]).title
                      /\ MessagesOf(open[u])' = Entry(storage', open'[u]).messages
  BY DEF TitleOf, MessagesOf, Index, Entry
<1>7. \A d \in Stored : d \in Chats
  BY Lookup DEF ClientInv
<1>8. Noted'
  BY <1>1 DEF ClientInv, Mirrors, Noted
<1>9. Headed'
  <2> SUFFICES ASSUME NEW u \in Tabs, open'[u] # NoChat PROVE Begins(mirror[u], TitleOf(open[u]))'
    BY DEF Headed
  <2>1. CASE u = t
    BY <1>1, <1>4, <1>5, <1>6, <2>1 DEF Begins
  <2>2. CASE u # t
    <3>1. Begins(mirror[u], TitleOf(open[u])) /\ open[u] \in Stored
      BY <1>1, <2>2 DEF ClientInv, Mirrors, Headed
    <3> QED
      BY <1>1, <1>4, <1>5, <1>6, <1>7, <2>2, <3>1 DEF Begins
  <2> QED
    BY <2>1, <2>2
<1>10. MirrorIsStored'
  <2> SUFFICES ASSUME NEW u \in Tabs, open'[u] \notin shared \cup {NoChat}
               PROVE  (mirror[u] = MessagesOf(open[u]))'
    BY DEF MirrorIsStored
  <2>1. CASE u = t
    BY <1>1, <1>4, <1>5, <1>6, <2>1
  <2>2. CASE u # t
    <3>1. mirror[u] = MessagesOf(open[u]) /\ open[u] \in Stored \ {c}
      BY <1>1, <2>2 DEF ClientInv, Mirrors, MirrorIsStored
    <3> QED
      BY <1>1, <1>4, <1>5, <1>6, <1>7, <2>2, <3>1
  <2> QED
    BY <2>1, <2>2
<1>11. StoredArrived'
  <2> SUFFICES ASSUME NEW d \in Stored' PROVE Arrived(MessagesOf(d)', d, answered')
    BY DEF StoredArrived
  <2>1. CASE d = c
    BY <1>4, <2>1 DEF MessagesOf, Index
  <2>2. CASE d # c
    BY <1>2, <1>4, <2>2
  <2> QED
    BY <2>1, <2>2
<1>12. MirrorsArrived'
  BY <1>1, <1>3 DEF MirrorsArrived
<1>13. open' \in [Tabs -> Stored' \cup {NoChat}] /\ mirror' \in [Tabs -> Seq(Messages)]
  BY <1>4 DEF Adds, ClientInv, TypeOK
<1> QED
  BY <1>4, <1>8, <1>9, <1>10, <1>11, <1>12, <1>13 DEF Mirrors

-----------------------------------------------------------------------------
\* The type of the chats, as Written leaves it.
LEMMA StorageType ==
    ASSUME NEW c, NEW messages, NEW n, Written(c, messages, n)
    PROVE  /\ storage' \in Seq([id : Chats, title : Questions, messages : Seq(Messages)])
           /\ \A i, j \in DOMAIN storage' : storage'[i].id = storage'[j].id => i = j
           /\ \A i \in DOMAIN storage' :
                 storage'[i].messages # <<>> /\ storage'[i].messages[1] = Asked(storage'[i].title)
BY DEF Written, Rec, Begins

LEMMA AppendArrived ==
    ASSUME NEW base \in Seq(Messages), NEW x \in Messages, NEW c, NEW R, NEW S,
           R \subseteq S, Arrived(base, c, R),
           \A n \in Questions : x = Reply(n) =>
               [question |-> n, chat |-> c] \in S /\ \A i \in DOMAIN base : base[i] # Reply(n)
    PROVE  Arrived(Append(base, x), c, S)
<1> DEFINE m == Append(base, x)
<1>1. /\ DOMAIN m = DOMAIN base \cup {Len(base) + 1} /\ Len(base) + 1 \notin DOMAIN base
      /\ m[Len(base) + 1] = x /\ \A i \in DOMAIN base : m[i] = base[i]
  <2>1. Len(base) \in Nat /\ DOMAIN base = 1..Len(base)
    OBVIOUS
  <2>2. DOMAIN m = 1..(Len(base) + 1)
    OBVIOUS
  <2>3. m[Len(base) + 1] = x /\ \A i \in DOMAIN base : m[i] = base[i]
    OBVIOUS
  <2> HIDE DEF m
  <2> QED
    BY <2>1, <2>2, <2>3
<1> HIDE DEF m
<1>2. Arrived(m, c, S)
  BY <1>1 DEF Arrived
<1> QED
  BY <1>2 DEF m

LEMMA AppendBegins ==
    ASSUME NEW base \in Seq(Messages), NEW x \in Messages, NEW n,
           Begins(base, n) \/ (base = <<>> /\ x = Asked(n))
    PROVE  Begins(Append(base, x), n) /\ Append(base, x) \in Seq(Messages)
<1>1. CASE base = <<>>
  BY <1>1 DEF Begins
<1>2. CASE base # <<>>
  <2>1. Len(base) \in Nat \ {0}
    BY <1>2
  <2> QED
    BY <1>2, <2>1 DEF Begins
<1> QED
  BY <1>1, <1>2

\* sendMessage writes the chat that is open, or a new one.
LEMMA SendAdds ==
    ASSUME ClientInv, NEW t \in Tabs, Send(t)
    PROVE  /\ asked + 1 \in Questions /\ shared' = shared
           /\ MirrorBefore(t) \in Seq(Messages)
           /\ \E c \in Chats, n \in Questions :
                 /\ Adds(t, c, Append(MirrorBefore(t), Asked(asked + 1)), n)
                 /\ open[t] = c \/ (open[t] = NoChat /\ c \notin Stored)
<1> DEFINE m == Append(MirrorBefore(t), Asked(asked + 1))
<1>1. asked + 1 \in Questions
  BY ClientAssumption DEF Send, ClientInv, TypeOK, Questions
<1>2. PICK c \in Chats :
          /\ IF open[t] = NoChat THEN c \notin Stored ELSE c = open[t]
          /\ open' = [open EXCEPT ![t] = c]
          /\ mirror' = [mirror EXCEPT ![t] = m]
          /\ storage' = Updated(ChatsWith(t, c, asked + 1), c, m)
          /\ NoteShared
  BY DEF Send
<1>3. MirrorBefore(t) \in Seq(Messages) /\ Asked(asked + 1) \in Messages
  <2>1. mirror[t] \in Seq(Messages)
    BY DEF ClientInv, TypeOK
  <2> QED
    BY <1>1, <2>1, AskedType, EmptySeq DEF MirrorBefore
<1>4. \E n \in Questions : Adds(t, c, m, n)
  <2>1. CASE open[t] = NoChat
    <3>1. Begins(m, asked + 1) /\ m \in Seq(Messages)
      BY <1>3, <2>1, AppendBegins DEF MirrorBefore
    <3>2. storage' = Updated(<<[id |-> c, title |-> asked + 1, messages |-> <<>>]>> \o storage, c, m)
      BY <1>2, <2>1 DEF ChatsWith
    <3> HIDE DEF m
    <3>3. Written(c, m, asked + 1)
      BY <1>1, <1>2, <2>1, <3>1, <3>2, AddChat DEF ClientInv
    <3> QED
      BY <1>1, <1>2, <2>1, <3>1, <3>3 DEF Adds
  <2>2. CASE open[t] # NoChat
    <3>1. c \in Stored /\ open[t] = c
      BY <1>2, <2>2 DEF ClientInv, TypeOK
    <3>2. PICK n \in Questions : n = TitleOf(c)
      BY <3>1, Lookup DEF ClientInv
    <3>3. Begins(mirror[t], n) /\ MirrorBefore(t) = mirror[t]
      BY <2>2, <3>1, <3>2 DEF ClientInv, Mirrors, Headed, MirrorBefore
    <3>4. Begins(m, n) /\ m \in Seq(Messages)
      BY <1>3, <3>3, AppendBegins
    <3>5. storage' = Updated(storage, c, m)
      BY <1>2, <2>2 DEF ChatsWith
    <3> HIDE DEF m
    <3>6. Written(c, m, n)
      BY <3>1, <3>2, <3>4, <3>5, Rewrite DEF ClientInv
    <3>7. Adds(t, c, m, n)
      BY <1>2, <3>1, <3>2, <3>4, <3>6 DEF Adds
    <3> QED
      BY <3>7
  <2> QED
    BY <2>1, <2>2
<1>5. shared' = shared
  <2>1. PICK n \in Questions : Adds(t, c, m, n)
    BY <1>4
  <2>2. m \in Seq(Messages)
    BY <1>3
  <2> HIDE DEF m
  <2>3. \A d \in Chats : \A u, v \in Tabs : u # v /\ open'[u] = d /\ open'[v] = d => d \in shared
    BY <2>1, <2>2, AddsTabs
  <2> QED
    BY <1>2, <2>3 DEF NoteShared
<1>6. \E d \in Chats, n \in Questions :
          /\ Adds(t, d, m, n)
          /\ open[t] = d \/ (open[t] = NoChat /\ d \notin Stored)
  BY <1>4 DEF Adds
<1> QED
  BY <1>1, <1>3, <1>5, <1>6

\* A reply that finds a chat open is added to it.
LEMMA AnswerAdds ==
    ASSUME ClientInv, NEW t \in Tabs, NEW n \in Questions, Answer(t, n),
           NEW c, c = open[t], c # NoChat
    PROVE  /\ c \in Stored /\ c \in Chats /\ mirror[t] \in Seq(Messages) /\ Reply(n) \in Messages
           /\ \E title \in Questions : Adds(t, c, Append(mirror[t], Reply(n)), title)
<1> DEFINE m == Append(mirror[t], Reply(n))
<1>1. c \in Stored /\ mirror[t] \in Seq(Messages) /\ Reply(n) \in Messages
  BY AskedType DEF ClientInv, TypeOK
<1>2. c \in Chats
  BY <1>1, Lookup DEF ClientInv
<1>3. PICK title \in Questions : title = TitleOf(c)
  BY <1>1, Lookup DEF ClientInv
<1>4. Begins(m, title) /\ m \in Seq(Messages)
  <2>1. Begins(mirror[t], title)
    BY <1>3 DEF ClientInv, Mirrors, Headed
  <2> QED
    BY <1>1, <2>1, AppendBegins
<1>5. mirror' = [mirror EXCEPT ![t] = m] /\ storage' = Updated(storage, c, m)
  <2>1. mirror \in [Tabs -> Seq(Messages)]
    BY DEF ClientInv, TypeOK
  <2>2. mirror' = [mirror EXCEPT ![t] = m] /\ storage' = Updated(storage, c, mirror'[t])
    BY DEF Answer
  <2> HIDE DEF m
  <2> QED
    BY <2>1, <2>2
<1>6. open' = [open EXCEPT ![t] = c]
  BY DEF Answer, ClientInv, TypeOK
<1> HIDE DEF m
<1>7. Written(c, m, title)
  BY <1>1, <1>3, <1>4, <1>5, Rewrite DEF ClientInv
<1>8. Adds(t, c, m, title)
  BY <1>3, <1>4, <1>5, <1>6, <1>7 DEF Adds
<1> QED
  BY <1>1, <1>2, <1>8 DEF m

-----------------------------------------------------------------------------
\* The reply to question q is stored in chat d.
Holds(d, q) == \E i \in DOMAIN MessagesOf(d) : MessagesOf(d)[i] = Reply(q)

LEMMA AppendKeeps ==
    ASSUME NEW base \in Seq(Messages), NEW x \in Messages
    PROVE  /\ \A i \in DOMAIN base : i \in DOMAIN Append(base, x) /\ Append(base, x)[i] = base[i]
           /\ Len(base) + 1 \in DOMAIN Append(base, x) /\ Append(base, x)[Len(base) + 1] = x
           /\ Len(base) <= Len(Append(base, x)) /\ SubSeq(Append(base, x), 1, Len(base)) = base
OBVIOUS

\* What a chat that nobody shares loses by a write: nothing.
LEMMA AddsKeepMessages ==
    ASSUME ClientInv, NEW t \in Tabs, NEW c \in Chats, NEW x \in Messages, NEW n \in Questions,
           MirrorBefore(t) \in Seq(Messages),
           Adds(t, c, Append(MirrorBefore(t), x), n), NEW d \in Stored, d \notin shared
    PROVE  /\ d \in Stored'
           /\ MessagesOf(d)' = MessagesOf(d)
              \/ (MessagesOf(d) = MirrorBefore(t) /\ MessagesOf(d)' = Append(MirrorBefore(t), x))
<1> DEFINE m == Append(MirrorBefore(t), x)
<1> HIDE DEF m
<1>1. Adds(t, c, m, n)
  BY DEF m
<1>2. Written(c, m, n) /\ (open[t] = c \/ (open[t] = NoChat /\ c \notin Stored))
  BY <1>1 DEF Adds
<1>3. /\ Stored' = Stored \cup {c} /\ MessagesOf(c)' = m
      /\ \A e \in Stored \ {c} : MessagesOf(e)' = MessagesOf(e)
  BY <1>2 DEF Written
<1>4. ASSUME d = c PROVE MessagesOf(d) = MirrorBefore(t) /\ MessagesOf(d)' = m
  <2>1. open[t] = d /\ d # NoChat
    BY <1>2, <1>4, ClientAssumption DEF NoChat
  <2>2. mirror[t] = MessagesOf(d)
    BY <2>1 DEF ClientInv, Mirrors, MirrorIsStored
  <2> QED
    BY <1>3, <1>4, <2>1, <2>2 DEF MirrorBefore, MessagesOf, Index
<1> QED
  BY <1>3, <1>4 DEF m

LEMMA AddsKeepReplies ==
    ASSUME ClientInv, NEW t \in Tabs, NEW c \in Chats, NEW x \in Messages, NEW n \in Questions,
           MirrorBefore(t) \in Seq(Messages),
           Adds(t, c, Append(MirrorBefore(t), x), n)
    PROVE  \A a \in answered : a.chat \in shared \/ Holds(a.chat, a.question)'
<1> SUFFICES ASSUME NEW a \in answered, a.chat \notin shared
             PROVE  Holds(a.chat, a.question)'
  OBVIOUS
<1> DEFINE d == a.chat
           q == a.question
<1>1. d \in Stored /\ Holds(d, q)
  BY DEF ClientInv, TypeOK, Replies, Kept, Holds
<1> HIDE DEF d, q
<1>2. d \notin shared
  BY DEF d
<1>3. PICK i \in DOMAIN MessagesOf(d) : MessagesOf(d)[i] = Reply(q)
  BY <1>1 DEF Holds
<1>4. i \in DOMAIN MessagesOf(d)' /\ MessagesOf(d)'[i] = Reply(q)
  BY <1>1, <1>2, <1>3, AddsKeepMessages, AppendKeeps
<1> QED
  BY <1>4 DEF Holds, d, q, Reply

LEMMA SendKeeps ==
    ASSUME ClientInv, NEW t \in Tabs, Send(t)
    PROVE  ClientInv'
<1> DEFINE k == asked + 1
           m == Append(MirrorBefore(t), Asked(k))
<1>1. /\ k \in Questions /\ shared' = shared /\ MirrorBefore(t) \in Seq(Messages)
      /\ asked \in 0..MaxQuestions /\ MaxQuestions \in Nat
  BY SendAdds, ClientAssumption DEF ClientInv, TypeOK
<1>2. PICK c \in Chats, n \in Questions :
          /\ Adds(t, c, m, n)
          /\ open[t] = c \/ (open[t] = NoChat /\ c \notin Stored)
  BY SendAdds
<1>3. answered' = answered /\ asked' = k /\ pending' = [pending EXCEPT ![t] = @ \cup {k}]
  BY DEF Send
<1>4. m \in Seq(Messages) /\ Asked(k) \in Messages
  BY <1>1, AskedType
<1>5. Arrived(m, c, answered')
  <2>1. Arrived(MirrorBefore(t), c, answered)
    <3>1. CASE open[t] = NoChat
      BY <3>1, EmptySeq DEF MirrorBefore, Arrived
    <3>2. CASE open[t] # NoChat
      BY <1>2, <3>2 DEF MirrorBefore, ClientInv, Replies, MirrorsArrived
    <3> QED
      BY <3>1, <3>2
  <2> QED
    BY <1>1, <1>3, <1>4, <2>1, AppendArrived, AskedType
<1> HIDE DEF m
<1>6. /\ Mirrors' /\ StoredArrived' /\ MirrorsArrived'
      /\ open' \in [Tabs -> Stored' \cup {NoChat}] /\ mirror' \in [Tabs -> Seq(Messages)]
      /\ Stored \subseteq Stored'
  BY <1>1, <1>2, <1>3, <1>4, <1>5, AddsKeep
<1>7. TypeOK'
  <2>1. /\ pending \in [Tabs -> SUBSET Questions] /\ shared \subseteq Stored
        /\ answered \subseteq [question : Questions, chat : Stored]
    BY DEF ClientInv, TypeOK
  <2>2. pending' \in [Tabs -> SUBSET Questions]
    BY <1>1, <1>3, <2>1
  <2>3. answered' \subseteq [question : Questions, chat : Stored']
    BY <1>3, <1>6, <2>1
  <2>4. asked' \in 0..MaxQuestions
    BY <1>1, <1>3 DEF Questions
  <2>5. Written(c, m, n)
    BY <1>2 DEF Adds
  <2> QED
    BY <1>1, <1>6, <2>1, <2>2, <2>3, <2>4, <2>5, StorageType DEF TypeOK
<1>8. Awaited'
  <2>1. \A u \in Tabs : pending'[u] = IF u = t THEN pending[u] \cup {k} ELSE pending[u]
    BY <1>3 DEF ClientInv, TypeOK
  <2>2. \A u \in Tabs : \A q \in pending[u] : q \in Int /\ q <= asked
    BY DEF ClientInv, TypeOK, Questions, Replies, Awaited
  <2>3. \A a \in answered : a.question \in Int /\ a.question <= asked
    BY DEF ClientInv, TypeOK, Questions, Replies, AnsweredOnce
  <2> QED
    BY <1>1, <1>3, <2>1, <2>2, <2>3 DEF ClientInv, Replies, Awaited
<1>9. AnsweredOnce'
  <2>1. \A a \in answered : a.question \in Int /\ a.question <= asked
    BY DEF ClientInv, TypeOK, Questions, Replies, AnsweredOnce
  <2> QED
    BY <1>1, <1>3, <2>1 DEF ClientInv, Replies, AnsweredOnce
<1>10. Kept'
  <2>1. \A a \in answered : a.chat \in shared \/ Holds(a.chat, a.question)'
    BY <1>1, <1>2, <1>4, AddsKeepReplies DEF m
  <2> QED
    BY <1>1, <1>3, <2>1 DEF Kept, Holds
<1> QED
  BY <1>6, <1>7, <1>8, <1>9, <1>10 DEF ClientInv, Replies

\* What is said of chats while storage is as it was.
LEMMA Still ==
    ASSUME storage' = storage
    PROVE  /\ Stored' = Stored
           /\ \A d : MessagesOf(d)' = MessagesOf(d) /\ TitleOf(d)' = TitleOf(d)
           /\ \A d : MessagesOf(d) = Entry(storage, d).messages /\ TitleOf(d) = Entry(storage, d).title
           /\ \A u \in Tabs : /\ MessagesOf(open[u])' = Entry(storage, open'[u]).messages
                              /\ TitleOf(open[u])' = Entry(storage, open'[u]).title
BY DEF Stored, MessagesOf, TitleOf, Index, Entry

\* A reply that finds no chat open is lost, and the chats are as they were.
LEMMA AnswerLoses ==
    ASSUME ClientInv, NEW t \in Tabs, NEW n \in Questions, Answer(t, n), open[t] = NoChat
    PROVE  UNCHANGED <<storage, open, answered, asked, shared>>
<1>1. \A i \in DOMAIN storage : storage[i].id # NoChat
  BY StorageElements, ClientAssumption DEF ClientInv, Rec, NoChat
<1>2. storage' = Updated(storage, NoChat, mirror'[t])
  BY DEF Answer
<1>3. storage' = [i \in DOMAIN storage |-> storage[i]]
  BY <1>1, <1>2 DEF Updated
<1>4. storage = [i \in DOMAIN storage |-> storage[i]]
  BY StorageElements DEF ClientInv
<1> QED
  BY <1>3, <1>4 DEF Answer

\* The answer to n is the first and only one.
LEMMA AnswerCounts ==
    ASSUME ClientInv, NEW t \in Tabs, NEW n \in Questions, Answer(t, n)
    PROVE  /\ pending' \in [Tabs -> SUBSET Questions] /\ Awaited' /\ AnsweredOnce'
           /\ asked' = asked /\ shared' = shared
           /\ answered' = IF open[t] = NoChat THEN answered
                          ELSE answered \cup {[question |-> n, chat |-> open[t]]}
<1>1. /\ n \in pending[t] /\ asked' = asked /\ shared' = shared
      /\ pending' = [pending EXCEPT ![t] = @ \ {n}]
      /\ answered' = IF open[t] = NoChat THEN answered
                     ELSE answered \cup {[question |-> n, chat |-> open[t]]}
  BY DEF Answer
<1>2. pending \in [Tabs -> SUBSET Questions]
  BY DEF ClientInv, TypeOK
<1>3. \A u \in Tabs : pending'[u] = IF u = t THEN pending[u] \ {n} ELSE pending[u]
  BY <1>1, <1>2
<1>4. n <= asked /\ \A a \in answered : a.question # n
  BY <1>1 DEF ClientInv, Replies, Awaited
<1>5. Awaited'
  BY <1>1, <1>3 DEF ClientInv, Replies, Awaited
<1>6. AnsweredOnce'
  BY <1>1, <1>4 DEF ClientInv, Replies, AnsweredOnce
<1> QED
  BY <1>1, <1>2, <1>5, <1>6

LEMMA AnswerKeeps ==
    ASSUME ClientInv, NEW t \in Tabs, NEW n \in Questions, Answer(t, n)
    PROVE  ClientInv'
<1>1. CASE open[t] = NoChat
  <2>1. UNCHANGED <<storage, open, answered, asked, shared>>
    BY <1>1, AnswerLoses
  <2>2. /\ mirror \in [Tabs -> Seq(Messages)] /\ Reply(n) \in Messages
        /\ mirror' = [mirror EXCEPT ![t] = Append(@, Reply(n))]
    BY AskedType DEF ClientInv, TypeOK, Answer
  <2>3. mirror' \in [Tabs -> Seq(Messages)] /\ \A u \in Tabs \ {t} : mirror'[u] = mirror[u]
    BY <2>2
  <2>4. TypeOK'
    BY <2>1, <2>3, AnswerCounts DEF ClientInv, TypeOK, Stored
  <2>5. Mirrors'
    BY <1>1, <2>1, <2>3, Still DEF ClientInv, Mirrors, Noted, Headed, MirrorIsStored, Begins
  <2>6. StoredArrived' /\ MirrorsArrived' /\ Kept'
    BY <1>1, <2>1, <2>3, Still DEF ClientInv, Replies, StoredArrived, MirrorsArrived, Kept
  <2> QED
    BY <2>4, <2>5, <2>6, AnswerCounts DEF ClientInv, Replies
<1>2. CASE open[t] # NoChat
  <2> DEFINE m == Append(mirror[t], Reply(n))
  <2>1. PICK c : c = open[t] /\ c # NoChat
    BY <1>2
  <2>2. PICK title \in Questions : Adds(t, c, m, title)
    BY <2>1, AnswerAdds
  <2>3. c \in Stored /\ c \in Chats /\ mirror[t] \in Seq(Messages) /\ Reply(n) \in Messages
    BY <2>1, AnswerAdds
  <2>4. /\ answered' = answered \cup {[question |-> n, chat |-> c]}
        /\ shared' = shared /\ asked' = asked
    BY <1>2, <2>1, AnswerCounts
  <2>5. m \in Seq(Messages)
    BY <2>3
  <2>6. Arrived(m, c, answered')
    <3>1. Arrived(mirror[t], c, answered)
      BY <2>1 DEF ClientInv, Replies, MirrorsArrived
    <3>2. \A i \in DOMAIN mirror[t] : mirror[t][i] # Reply(n)
      <4>1. n \in pending[t] /\ \A a \in answered : a.question # n
        BY DEF ClientInv, Replies, Awaited, Answer
      <4>2. [question |-> n, chat |-> c].question = n
        OBVIOUS
      <4> QED
        BY <3>1, <4>1, <4>2 DEF Arrived
    <3>3. \A q \in Questions : Reply(n) = Reply(q) => q = n
      BY AskedType
    <3> QED
      BY <2>3, <2>4, <3>1, <3>2, <3>3, AppendArrived
  <2>7. MirrorBefore(t) = mirror[t]
    BY <1>2 DEF MirrorBefore
  <2>8. \A a \in answered : a.chat \in shared \/ Holds(a.chat, a.question)'
    BY <2>2, <2>3, <2>7, AddsKeepReplies
  <2>9. Holds(c, n)'
    <3>1. MessagesOf(c)' = m
      BY <2>2 DEF Adds, Written
    <3> QED
      BY <2>3, <3>1, AppendKeeps DEF Holds, Reply
  <2> HIDE DEF m
  <2>10. /\ Mirrors' /\ StoredArrived' /\ MirrorsArrived'
         /\ open' \in [Tabs -> Stored' \cup {NoChat}] /\ mirror' \in [Tabs -> Seq(Messages)]
         /\ Stored \subseteq Stored'
    BY <2>2, <2>3, <2>4, <2>5, <2>6, AddsKeep
  <2>11. TypeOK'
    <3>1. /\ asked \in 0..MaxQuestions /\ shared \subseteq Stored
          /\ answered \subseteq [question : Questions, chat : Stored]
      BY DEF ClientInv, TypeOK
    <3>2. answered' \subseteq [question : Questions, chat : Stored']
      BY <2>3, <2>4, <2>10, <3>1
    <3>3. Written(c, m, title)
      BY <2>2 DEF Adds
    <3> QED
      BY <2>4, <2>10, <3>1, <3>2, <3>3, AnswerCounts, StorageType DEF TypeOK
  <2>12. Kept'
    BY <2>4, <2>8, <2>9 DEF Kept, Holds
  <2> QED
    BY <2>10, <2>11, <2>12, AnswerCounts DEF ClientInv, Replies
<1> QED
  BY <1>1, <1>2

LEMMA LoadKeeps ==
    ASSUME ClientInv, NEW t \in Tabs, NEW c \in Chats, LoadChat(t, c)
    PROVE  ClientInv'
<1>1. /\ c \in Stored /\ UNCHANGED <<storage, pending, asked, answered>>
      /\ open' = [open EXCEPT ![t] = c] /\ mirror' = [mirror EXCEPT ![t] = MessagesOf(c)]
      /\ NoteShared
  BY DEF LoadChat, Loaded
<1>2. /\ open \in [Tabs -> Stored \cup {NoChat}] /\ mirror \in [Tabs -> Seq(Messages)]
      /\ MessagesOf(c) \in Seq(Messages) /\ Begins(MessagesOf(c), TitleOf(c)) /\ c # NoChat
  BY <1>1, Lookup, ClientAssumption DEF ClientInv, TypeOK, NoChat
<1>3. /\ open' \in [Tabs -> Stored \cup {NoChat}] /\ mirror' \in [Tabs -> Seq(Messages)]
      /\ \A u \in Tabs : open'[u] = (IF u = t THEN c ELSE open[u])
                         /\ mirror'[u] = (IF u = t THEN MessagesOf(c) ELSE mirror[u])
  BY <1>1, <1>2
<1>4. shared \subseteq shared' /\ shared' \subseteq Stored
  <2>1. ASSUME NEW d \in Chats, NEW u \in Tabs, open'[u] = d PROVE d \in Stored
    BY <1>3, <2>1, ClientAssumption DEF NoChat
  <2> QED
    BY <1>1, <2>1 DEF NoteShared, ClientInv, TypeOK
<1>5. \A d \in Stored : d \in Chats
  BY Lookup DEF ClientInv
<1>6. Noted'
  BY <1>1, <1>3, <1>5 DEF Noted, NoteShared
<1>7. Headed'
  BY <1>1, <1>2, <1>3, Still DEF Headed, ClientInv, Mirrors, Begins
<1>8. MirrorIsStored'
  BY <1>1, <1>3, <1>4, Still DEF MirrorIsStored, ClientInv, Mirrors
<1>9. MirrorsArrived' /\ StoredArrived'
  BY <1>1, <1>3, Still DEF MirrorsArrived, StoredArrived, ClientInv, Replies
<1>10. Kept' /\ Awaited' /\ AnsweredOnce'
  BY <1>1, <1>4, Still DEF Kept, Awaited, AnsweredOnce, ClientInv, Replies
<1>11. TypeOK'
  BY <1>1, <1>3, <1>4 DEF ClientInv, TypeOK, Stored
<1> QED
  BY <1>6, <1>7, <1>8, <1>9, <1>10, <1>11 DEF ClientInv, Mirrors, Replies

\* New chat, and a reload, which also gives its requests up.
LEMMA CloseKeeps ==
    ASSUME ClientInv, NEW t \in Tabs, NewChat(t) \/ Reload(t)
    PROVE  ClientInv'
<1>1. /\ UNCHANGED <<storage, asked, answered, shared>>
      /\ open' = [open EXCEPT ![t] = NoChat] /\ mirror' = [mirror EXCEPT ![t] = <<>>]
      /\ pending' = pending \/ pending' = [pending EXCEPT ![t] = {}]
  BY DEF NewChat, Reload
<1>2. /\ open \in [Tabs -> Stored \cup {NoChat}] /\ mirror \in [Tabs -> Seq(Messages)]
      /\ pending \in [Tabs -> SUBSET Questions]
  BY DEF ClientInv, TypeOK
<1>3. /\ open' \in [Tabs -> Stored \cup {NoChat}] /\ mirror' \in [Tabs -> Seq(Messages)]
      /\ pending' \in [Tabs -> SUBSET Questions]
      /\ \A u \in Tabs : pending'[u] \subseteq pending[u]
                         /\ open'[u] = (IF u = t THEN NoChat ELSE open[u])
                         /\ (u # t => mirror'[u] = mirror[u])
  BY <1>1, <1>2, EmptySeq
<1>4. TypeOK'
  BY <1>1, <1>3 DEF ClientInv, TypeOK, Stored
<1>5. Mirrors'
  BY <1>1, <1>3, Still DEF ClientInv, Mirrors, Noted, Headed, MirrorIsStored, Begins
<1>6. Replies'
  <2>1. Awaited' /\ AnsweredOnce'
    BY <1>1, <1>3 DEF ClientInv, Replies, Awaited, AnsweredOnce
  <2>2. StoredArrived' /\ MirrorsArrived' /\ Kept'
    BY <1>1, <1>3, Still DEF ClientInv, Replies, StoredArrived, MirrorsArrived, Kept
  <2> QED
    BY <2>1, <2>2 DEF Replies
<1> QED
  BY <1>4, <1>5, <1>6 DEF ClientInv

LEMMA ClientInit == Init => ClientInv
<1> SUFFICES ASSUME Init PROVE ClientInv
  OBVIOUS
<1>1. storage \in Seq([id : Chats, title : Questions, messages : Seq(Messages)])
      /\ DOMAIN storage = {} /\ Stored = {} /\ <<>> \in Seq(Messages)
  BY EmptySeq DEF Init, Stored
<1>2. TypeOK
  BY <1>1, ClientAssumption DEF Init, TypeOK
<1>3. Mirrors
  BY DEF Init, Mirrors, Noted, Headed, MirrorIsStored
<1>4. Replies
  BY <1>1 DEF Init, Replies, Awaited, AnsweredOnce, StoredArrived, MirrorsArrived, Kept
<1> QED
  BY <1>2, <1>3, <1>4 DEF ClientInv

LEMMA ClientNext == ClientInv /\ [Next]_vars => ClientInv'
<1> SUFFICES ASSUME ClientInv, [Next]_vars PROVE ClientInv'
  OBVIOUS
<1>1. ASSUME NEW t \in Tabs, Send(t) PROVE ClientInv'
  BY <1>1, SendKeeps
<1>2. ASSUME NEW t \in Tabs, NEW n \in Questions, Answer(t, n) PROVE ClientInv'
  BY <1>2, AnswerKeeps
<1>3. ASSUME NEW t \in Tabs, NEW c \in Chats, LoadChat(t, c) PROVE ClientInv'
  BY <1>3, LoadKeeps
<1>4. ASSUME NEW t \in Tabs, NewChat(t) \/ Reload(t) PROVE ClientInv'
  BY <1>4, CloseKeeps
<1>5. CASE UNCHANGED vars
  <2>1. UNCHANGED <<storage, open, mirror, pending, asked, answered, shared>>
    BY <1>5 DEF vars, tab
  <2>2. TypeOK'
    BY <2>1 DEF ClientInv, TypeOK, Stored
  <2>3. Mirrors'
    BY <2>1, Still DEF ClientInv, Mirrors, Noted, Headed, MirrorIsStored, Begins
  <2>4. Replies'
    BY <2>1, Still
    DEF ClientInv, Replies, Awaited, AnsweredOnce, StoredArrived, MirrorsArrived, Kept
  <2> QED
    BY <2>2, <2>3, <2>4 DEF ClientInv
<1> QED
  BY <1>1, <1>2, <1>3, <1>4, <1>5 DEF Next

LEMMA ClientAlways == Spec => []ClientInv
BY ClientInit, ClientNext, PTL DEF Spec

(***************************************************************************)
(* Every reachable state of storage and tabs is well typed, each chat is   *)
(* there once, and it begins with the question it is titled by.            *)
(***************************************************************************)
THEOREM TypeCorrect == Spec => []TypeOK
<1>1. ClientInv => TypeOK
  BY DEF ClientInv
<1> QED
  BY <1>1, ClientAlways, PTL

(***************************************************************************)
(* A tab's mirror is what is stored of its chat, unless the chat was open  *)
(* in two tabs at once.                                                    *)
(***************************************************************************)
THEOREM MirrorsAreStored == Spec => []MirrorIsStored
<1>1. ClientInv => MirrorIsStored
  BY DEF ClientInv, Mirrors
<1> QED
  BY <1>1, ClientAlways, PTL

(***************************************************************************)
(* A reply that arrives while a chat is open is kept in that chat, once    *)
(* and nowhere else, unless the chat was open in two tabs at once.         *)
(***************************************************************************)
THEOREM RepliesKeptOnce == Spec => []RepliesAreKept
<1>1. ClientInv => RepliesAreKept
  <2> SUFFICES ASSUME ClientInv, NEW a \in answered, a.chat \notin shared
               PROVE  \E i \in DOMAIN MessagesOf(a.chat) : Places(a.question) = {<<a.chat, i>>}
    BY DEF RepliesAreKept
  <2>1. PICK c \in Stored, n \in Questions : c = a.chat /\ n = a.question
    BY DEF ClientInv, TypeOK
  <2>2. PICK i \in DOMAIN MessagesOf(c) : MessagesOf(c)[i] = Reply(n)
    BY <2>1 DEF ClientInv, Replies, Kept
  <2>3. \A d \in Stored : \A j \in DOMAIN MessagesOf(d) :
            MessagesOf(d)[j] = Reply(n) => [question |-> n, chat |-> d] \in answered
    BY DEF ClientInv, Replies, StoredArrived, Arrived
  <2>4. \A d \in Stored : \A j \in DOMAIN MessagesOf(d) :
            MessagesOf(d)[j] = Reply(n) => d = c
    <3> SUFFICES ASSUME NEW d \in Stored, NEW j \in DOMAIN MessagesOf(d),
                        MessagesOf(d)[j] = Reply(n)
                 PROVE  d = c
      OBVIOUS
    <3> DEFINE b == [question |-> n, chat |-> d]
    <3>1. b \in answered /\ b.question = a.question
      BY <2>1, <2>3
    <3>2. a = b
      BY <3>1 DEF ClientInv, Replies, AnsweredOnce
    <3> QED
      BY <2>1, <3>2
  <2>5. \A j \in DOMAIN MessagesOf(c) : MessagesOf(c)[j] = Reply(n) => i = j
    BY <2>2 DEF ClientInv, Replies, StoredArrived, Arrived
  <2>6. Places(n) = {<<c, i>>}
    BY <2>2, <2>4, <2>5 DEF Places
  <2> QED
    BY <2>1, <2>2, <2>6
<1> QED
  BY <1>1, ClientAlways, PTL

LEMMA ChatsGrow ==
    ASSUME ClientInv, [Next]_vars, NEW c \in Stored
    PROVE  /\ c \in Stored'
           /\ c \notin shared' =>
                 /\ Len(MessagesOf(c)) <= Len(MessagesOf(c)')
                 /\ MessagesOf(c) = SubSeq(MessagesOf(c)', 1, Len(MessagesOf(c)))
<1>1. MessagesOf(c) \in Seq(Messages)
  BY Lookup DEF ClientInv
<1>2. CASE storage' = storage
  <2>1. MessagesOf(c)' = MessagesOf(c) /\ c \in Stored'
    BY <1>2, Still
  <2>2. \A m \in Seq(Messages) : Len(m) <= Len(m) /\ m = SubSeq(m, 1, Len(m))
    OBVIOUS
  <2> QED
    BY <1>1, <2>1, <2>2
<1>3. ASSUME NEW t \in Tabs, NEW d \in Chats, NEW x \in Messages, NEW n \in Questions,
             MirrorBefore(t) \in Seq(Messages), Adds(t, d, Append(MirrorBefore(t), x), n),
             shared' = shared
      PROVE  /\ c \in Stored'
             /\ c \notin shared' =>
                   /\ Len(MessagesOf(c)) <= Len(MessagesOf(c)')
                   /\ MessagesOf(c) = SubSeq(MessagesOf(c)', 1, Len(MessagesOf(c)))
  <2>1. c \in Stored'
    BY <1>3 DEF Adds, Written
  <2>2. c \notin shared =>
           \/ MessagesOf(c)' = MessagesOf(c)
           \/ (MessagesOf(c) = MirrorBefore(t) /\ MessagesOf(c)' = Append(MirrorBefore(t), x))
    BY <1>3, AddsKeepMessages
  <2>3. \A m \in Seq(Messages) : Len(m) <= Len(m) /\ m = SubSeq(m, 1, Len(m))
    OBVIOUS
  <2>4. /\ Len(MirrorBefore(t)) <= Len(Append(MirrorBefore(t), x))
        /\ SubSeq(Append(MirrorBefore(t), x), 1, Len(MirrorBefore(t))) = MirrorBefore(t)
    BY <1>3, AppendKeeps
  <2> QED
    BY <1>1, <1>3, <2>1, <2>2, <2>3, <2>4
<1>4. ASSUME NEW t \in Tabs, Send(t)
      PROVE  \E d \in Chats, x \in Messages, n \in Questions :
                /\ MirrorBefore(t) \in Seq(Messages)
                /\ Adds(t, d, Append(MirrorBefore(t), x), n) /\ shared' = shared
  BY <1>4, SendAdds, AskedType
<1>5. ASSUME NEW t \in Tabs, NEW q \in Questions, Answer(t, q), open[t] # NoChat
      PROVE  \E d \in Chats, x \in Messages, n \in Questions :
                /\ MirrorBefore(t) \in Seq(Messages)
                /\ Adds(t, d, Append(MirrorBefore(t), x), n) /\ shared' = shared
  <2>1. PICK d : d = open[t] /\ d # NoChat
    BY <1>5
  <2>2. MirrorBefore(t) = mirror[t] /\ shared' = shared
    BY <1>5 DEF MirrorBefore, Answer
  <2> QED
    BY <1>5, <2>1, <2>2, AnswerAdds
<1>6. ASSUME NEW t \in Tabs, NEW q \in Questions, Answer(t, q), open[t] = NoChat
      PROVE  storage' = storage
  BY <1>6, AnswerLoses
<1>7. ASSUME NEW t \in Tabs, NewChat(t) \/ Reload(t) \/ \E d \in Chats : LoadChat(t, d)
      PROVE  storage' = storage
  BY <1>7 DEF NewChat, Reload, LoadChat
<1>8. CASE UNCHANGED vars
  BY <1>2, <1>8 DEF vars
<1> QED
  BY <1>2, <1>3, <1>4, <1>5, <1>6, <1>7, <1>8 DEF Next

(***************************************************************************)
(* No chat disappears, and one that was never open in two tabs at once     *)
(* only grows.                                                             *)
(***************************************************************************)
THEOREM ChatsForgetNothing == Spec => NothingIsForgotten
<1>1. ClientInv /\ [Next]_vars =>
        [\A c \in Stored :
            /\ c \in Stored'
            /\ c \notin shared' =>
                  /\ Len(MessagesOf(c)) <= Len(MessagesOf(c)')
                  /\ MessagesOf(c) = SubSeq(MessagesOf(c)', 1, Len(MessagesOf(c)))]_vars
  BY ChatsGrow
<1> QED
  BY <1>1, ClientAlways, PTL DEF Spec, NothingIsForgotten
=============================================================================
