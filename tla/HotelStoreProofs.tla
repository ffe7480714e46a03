-------------------------- MODULE HotelStoreProofs --------------------------
(***************************************************************************)
(* Theorems about HotelStore, for any catalogue, any search results, any   *)
(* workers and any constraints the table starts with.                      *)
(***************************************************************************)
EXTENDS HotelStore, SequenceTheorems, FiniteSetTheorems, WellFoundedInduction, TLAPS

-----------------------------------------------------------------------------
(***************************************************************************)
(* The inductive invariant: a worker that is not idle holds one job, which *)
(* is nobody else's and not settled, and its draft is of that job; jobs    *)
(* ever queued have different keys, and the rows are theirs; a lookup that *)
(* went well tells which row the job has until its worker writes, since    *)
(* nobody else writes rows for the job.                                    *)
(***************************************************************************)
Settled == done \cup failed
Known(j) == j \in queued \/ j \in Settled \/ \E w \in Workers : j \in leases[w]

Idle == \A w \in Workers : at[w] = "idle" => leases[w] = {}
Busy == \A w \in Workers : at[w] # "idle" => \E j \in Jobs : leases[w] = {j}
Mine == \A v, w \in Workers : \A j \in leases[v] : j \in leases[w] => v = w
Open == \A w \in Workers : \A j \in leases[w] : j \notin queued \cup Settled
Waits == queued \cap Settled = {}
Drafted == \A w \in Workers : draft[w] # Null => leases[w] = {Job(w)}
Leased == Idle /\ Busy /\ Mine /\ Open /\ Waits /\ Drafted

Keys == \A j, k \in Jobs : Known(j) /\ Known(k) /\ Key(j) = Key(k) => j = k
Seeds == \A i \in DOMAIN hotels : Known(hotels[i].seed)

Sure(j) == Identified(j) /\ j \notin misled
Unique == \A j \in Jobs : Sure(j) => \A i, k \in RowsOf(j) : i = k

ToId(w) == at[w] = "byId" => Job(w).ext # Null
ToName(w) ==
    at[w] = "byName" =>
        /\ Job(w).city # Null
        /\ Job(w).ext # Null /\ Job(w) \notin misled => RowsOf(Job(w)) = {}
ToInsert(w) == at[w] = "inserting" /\ Sure(Job(w)) => RowsOf(Job(w)) = {}
ToUpdate(w) ==
    at[w] = "updating" =>
        /\ found[w] \in DOMAIN hotels
        /\ SameName(hotels[found[w]].seed, Job(w))
        /\ Sure(Job(w)) => RowsOf(Job(w)) \subseteq {found[w]}
ToComplete(w) ==
    at[w] = "stored" => \E i \in DOMAIN hotels : SameName(hotels[i].seed, Job(w))
Course(w) == ToId(w) /\ ToName(w) /\ ToInsert(w) /\ ToUpdate(w) /\ ToComplete(w)
Courses == \A w \in Workers : Course(w)

StoreInv == TypeOK /\ Leased /\ Keys /\ Seeds /\ Unique /\ Courses /\ DoneHotelsAreStored

LEMMA StoreInit == Init => StoreInv
<1> SUFFICES ASSUME Init PROVE StoreInv
  OBVIOUS
<1>1. hotels \in Seq(Rows) /\ Len(hotels) = 0 /\ DOMAIN hotels = {}
  BY EmptySeq DEF Init
<1>2. TypeOK
  BY <1>1, StoreAssumption DEF Init, TypeOK, Q!Init, Stations
<1>3. Leased
  BY DEF Init, Q!Init, Leased, Idle, Busy, Mine, Open, Waits, Drafted, Settled
<1>4. Keys
  BY DEF Init, Q!Init, Keys, Known, Settled
<1>5. Seeds /\ Unique
  BY <1>1 DEF Seeds, Unique, RowsOf
<1>6. Courses
  BY DEF Init, Courses, Course, ToId, ToName, ToInsert, ToUpdate, ToComplete
<1>7. DoneHotelsAreStored
  BY DEF Init, Q!Init, DoneHotelsAreStored
<1> QED
  BY <1>2, <1>3, <1>4, <1>5, <1>6, <1>7 DEF StoreInv

-----------------------------------------------------------------------------
\* What w writes is of its job, which nobody else has.
LEMMA JobOf ==
    ASSUME StoreInv, NEW w \in Workers, draft[w] # Null
    PROVE  /\ draft[w] \in Rows /\ Job(w) \in Jobs
           /\ leases[w] = {Job(w)} /\ Known(Job(w)) /\ Job(w) \notin done
           /\ \A v \in Workers \ {w} : draft[v] # Null => Job(v) # Job(w)
<1>1. draft[w] \in Rows
  BY DEF StoreInv, TypeOK
<1>2. Job(w) \in Jobs
  BY <1>1 DEF Job, Rows
<1>3. leases[w] = {Job(w)}
  BY DEF StoreInv, Leased, Drafted
<1>4. \A v \in Workers \ {w} : draft[v] # Null => Job(v) # Job(w)
  BY <1>3 DEF StoreInv, Leased, Drafted, Mine
<1> QED
  BY <1>1, <1>2, <1>3, <1>4 DEF StoreInv, Leased, Open, Settled, Known

\* Two rows, or a row and a job, that agree on a constraint's columns are of
\* the same name and city.
LEMMA AgreeSame ==
    ASSUME StoreInv, NEW s \in Jobs, NEW t \in Jobs, Known(s), Known(t),
           NEW key \in Constraints, Agree(s, t, key)
    PROVE  SameName(s, t)
<1>1. CASE key = "external_id"
  <2>1. Key(s) = Key(t)
    BY <1>1 DEF Agree, Key
  <2> QED
    BY <2>1 DEF StoreInv, Keys, SameName
<1>2. CASE key # "external_id"
  BY <1>2 DEF Agree, SameName
<1> QED
  BY <1>1, <1>2

LEMMA SeedType == \A row \in Rows : row.seed \in Jobs
BY DEF Rows

LEMMA HotelsShape ==
    ASSUME TypeOK
    PROVE  /\ hotels \in Seq(Rows) /\ Len(hotels) \in Nat
           /\ DOMAIN hotels = 1..Len(hotels)
           /\ \A i \in DOMAIN hotels : hotels[i] \in Rows /\ hotels[i].seed \in Jobs
<1>1. hotels \in Seq(Rows)
  BY DEF TypeOK
<1>2. Len(hotels) \in Nat /\ DOMAIN hotels = 1..Len(hotels)
  BY <1>1, LenProperties
<1>3. \A i \in DOMAIN hotels : hotels[i] \in Rows
  BY <1>1, <1>2, ElementOfSeq
<1> QED
  BY <1>1, <1>2, <1>3, SeedType

\* The effect of a statement of w that is executed, on row n.
Wrote(w, n) ==
    /\ hotels' \in Seq(Rows)
    /\ n \in DOMAIN hotels'
    /\ DOMAIN hotels' = DOMAIN hotels \cup {n}
    /\ Len(hotels) <= Len(hotels')
    /\ hotels'[n] = draft[w]
    /\ \A k \in DOMAIN hotels \ {n} : hotels'[k] = hotels[k]
    /\ n \in DOMAIN hotels => SameName(hotels[n].seed, Job(w))
    /\ Sure(Job(w)) => RowsOf(Job(w)) \subseteq {n}

LEMMA WriteEffect ==
    ASSUME StoreInv, NEW w \in Workers, draft[w] # Null,
           NEW i \in 0..Len(hotels), hotels' = Stored(draft[w], i),
           i # 0 => SameName(hotels[i].seed, Job(w)),
           Sure(Job(w)) => RowsOf(Job(w)) \subseteq {i}
    PROVE  \E n \in Nat : Wrote(w, n)
<1>1. /\ hotels \in Seq(Rows) /\ Len(hotels) \in Nat
      /\ DOMAIN hotels = 1..Len(hotels)
  BY HotelsShape DEF StoreInv
<1>2. draft[w] \in Rows
  BY JobOf
<1>3. RowsOf(Job(w)) \subseteq DOMAIN hotels
  BY DEF RowsOf
<1>4. CASE i = 0
  <2> DEFINE n == Len(hotels) + 1
  <2>1. hotels' = Append(hotels, draft[w])
    BY <1>4 DEF Stored
  <2>2. /\ hotels' \in Seq(Rows) /\ Len(hotels') = n
        /\ hotels'[n] = draft[w]
        /\ \A k \in 1..Len(hotels) : hotels'[k] = hotels[k]
    BY <1>1, <1>2, <2>1, AppendProperties
  <2>3. DOMAIN hotels' = 1..n
    BY <2>2, LenProperties
  <2>4. Sure(Job(w)) => RowsOf(Job(w)) = {}
    BY <1>1, <1>3, <1>4
  <2>5. Wrote(w, n)
    BY <1>1, <2>2, <2>3, <2>4 DEF Wrote
  <2> QED
    BY <1>1, <2>5
<1>5. CASE i # 0
  <2>1. i \in 1..Len(hotels) /\ hotels' = [hotels EXCEPT ![i] = draft[w]]
    BY <1>1, <1>5 DEF Stored
  <2>2. /\ hotels' \in Seq(Rows) /\ Len(hotels') = Len(hotels)
        /\ \A k \in 1..Len(hotels) : hotels'[k] = IF k = i THEN draft[w] ELSE hotels[k]
    BY <1>1, <1>2, <2>1, ExceptSeq
  <2>3. DOMAIN hotels' = 1..Len(hotels)
    BY <2>2, LenProperties
  <2>4. Wrote(w, i)
    BY <1>1, <1>5, <2>1, <2>2, <2>3 DEF Wrote
  <2> QED
    BY <2>1, <2>4
<1> QED
  BY <1>4, <1>5

-----------------------------------------------------------------------------
\* What one worker writes, or nobody does.
Quiet == UNCHANGED hotels
Touched(w) == Quiet \/ (draft[w] # Null /\ \E n \in Nat : Wrote(w, n))

\* Rows change hands only under one name and city, and other jobs gain none.
LEMMA RowsKeep ==
    ASSUME StoreInv, NEW w \in Workers, Touched(w)
    PROVE  /\ DOMAIN hotels \subseteq DOMAIN hotels'
           /\ \A i \in DOMAIN hotels : SameName(hotels'[i].seed, hotels[i].seed)
           /\ \A i \in DOMAIN hotels : hotels'[i] # hotels[i] =>
                 draft[w] # Null /\ hotels'[i] = draft[w]
           /\ \A j \in Jobs : draft[w] = Null \/ j # Job(w) => RowsOf(j)' \subseteq RowsOf(j)
           /\ \A j \in Jobs : Sure(j) /\ draft[w] # Null /\ j = Job(w) =>
                 \A i, k \in RowsOf(j)' : i = k
<1>1. CASE Quiet
  <2>1. \A j \in Jobs : RowsOf(j)' = RowsOf(j)
    BY <1>1 DEF Quiet, RowsOf
  <2>2. \A j \in Jobs : Sure(j) => \A i, k \in RowsOf(j) : i = k
    BY DEF StoreInv, Unique
  <2> QED
    BY <1>1, <2>1, <2>2 DEF Quiet, SameName
<1>2. CASE ~Quiet
  <2>1. draft[w] # Null /\ \E n \in Nat : Wrote(w, n)
    BY <1>2 DEF Touched
  <2>2. PICK n \in Nat : Wrote(w, n)
    BY <2>1
  <2>3. hotels'[n].seed = Job(w)
    BY <2>2 DEF Wrote, Job
  <2>4. \A i \in DOMAIN hotels : SameName(hotels'[i].seed, hotels[i].seed)
    BY <2>2, <2>3 DEF Wrote, SameName
  <2>5. \A j \in Jobs : j # Job(w) => RowsOf(j)' \subseteq RowsOf(j)
    BY <2>2, <2>3 DEF Wrote, RowsOf
  <2>6. \A j \in Jobs : Sure(j) /\ j = Job(w) => RowsOf(j)' \subseteq {n}
    BY <2>2, <2>3 DEF Wrote, RowsOf
  <2> QED
    BY <2>1, <2>2, <2>4, <2>5, <2>6 DEF Wrote
<1> QED
  BY <1>1, <1>2

\* Jobs stay known.
Kept == /\ \A j \in Jobs : Known(j) => Known(j)'
        /\ misled \subseteq misled'

\* What holds of rows and of other workers survives a step of w.
LEMMA RowsInv ==
    ASSUME StoreInv, NEW w \in Workers, Touched(w), Kept, misled' \subseteq Jobs
    PROVE  /\ hotels' \in Seq(Rows)
           /\ Len(hotels) <= Len(hotels')
           /\ Seeds' /\ Unique'
           /\ \A j \in Jobs : (\E i \in DOMAIN hotels : SameName(hotels[i].seed, j))
                 => \E i \in DOMAIN hotels' : SameName(hotels'[i].seed, j)
<1>1. /\ hotels \in Seq(Rows) /\ Len(hotels) \in Nat
      /\ \A i \in DOMAIN hotels : hotels[i] \in Rows /\ hotels[i].seed \in Jobs
  BY HotelsShape DEF StoreInv
<1>2. hotels' \in Seq(Rows) /\ Len(hotels) <= Len(hotels')
  <2>1. CASE Quiet
    BY <1>1, <2>1 DEF Quiet
  <2>2. CASE \E n \in Nat : Wrote(w, n)
    BY <2>2 DEF Wrote
  <2> QED
    BY <2>1, <2>2 DEF Touched
<1>3. Seeds'
  <2> SUFFICES ASSUME NEW i \in DOMAIN hotels', NEW j \in Jobs, hotels'[i].seed = j
               PROVE  Known(j)
    <3>1. \A i \in DOMAIN hotels' : hotels'[i] \in Rows
      BY <1>2, LenProperties, ElementOfSeq
    <3>2. \A i \in DOMAIN hotels' : \A j \in Jobs : hotels'[i].seed = j => Known(j)'
      BY DEF Kept
    <3> QED
      BY <3>1, <3>2, SeedType DEF Seeds, Known, Settled
  <2>1. CASE Quiet
    BY <2>1 DEF Quiet, StoreInv, Seeds
  <2>2. CASE draft[w] # Null /\ \E n \in Nat : Wrote(w, n)
    <3>1. PICK n \in Nat : Wrote(w, n)
      BY <2>2
    <3>2. Job(w) \in Jobs /\ Known(Job(w))
      BY <2>2, JobOf
    <3>3. CASE i = n
      BY <3>1, <3>2, <3>3 DEF Wrote, Job
    <3>4. CASE i # n
      BY <3>1, <3>4 DEF Wrote, StoreInv, Seeds
    <3> QED
      BY <3>3, <3>4
  <2> QED
    BY <2>1, <2>2 DEF Touched
<1>4. Unique'
  <2> SUFFICES ASSUME NEW j \in Jobs, Sure(j)' PROVE \A i, k \in RowsOf(j)' : i = k
    BY DEF Unique
  <2>1. Sure(j)
    BY DEF Sure, Identified, Kept
  <2>2. \A i, k \in RowsOf(j) : i = k
    BY <2>1 DEF StoreInv, Unique
  <2>3. CASE draft[w] = Null \/ j # Job(w)
    BY <2>2, <2>3, RowsKeep
  <2>4. CASE draft[w] # Null /\ j = Job(w)
    BY <2>1, <2>4, RowsKeep
  <2> QED
    BY <2>3, <2>4
<1>5. \A j \in Jobs : (\E i \in DOMAIN hotels : SameName(hotels[i].seed, j))
         => \E i \in DOMAIN hotels' : SameName(hotels'[i].seed, j)
  <2>1. /\ DOMAIN hotels \subseteq DOMAIN hotels'
        /\ \A i \in DOMAIN hotels : SameName(hotels'[i].seed, hotels[i].seed)
    BY RowsKeep
  <2> QED
    BY <2>1 DEF SameName
<1> QED
  BY <1>2, <1>3, <1>4, <1>5

LEMMA OthersGoOn ==
    ASSUME StoreInv, NEW w \in Workers, Touched(w), Kept, NEW v \in Workers \ {w},
           at'[v] = at[v], draft'[v] = draft[v], found'[v] = found[v],
           misled' \subseteq misled \cup {Job(w)}, misled' # misled => draft[w] # Null
    PROVE  Course(v)'
<1>1. CASE at[v] \in {"idle", "enriching"}
  BY <1>1 DEF Course, ToId, ToName, ToInsert, ToUpdate, ToComplete
<1>2. CASE at[v] \notin {"idle", "enriching"}
  <2>1. draft[v] # Null
    BY <1>2 DEF StoreInv, TypeOK
  <2>2. Job(v) \in Jobs /\ Job(v)' = Job(v)
    BY <2>1, JobOf DEF Job
  <2>3. draft[w] # Null => Job(v) # Job(w)
    BY <2>1, JobOf
  <2>4. /\ RowsOf(Job(v))' \subseteq RowsOf(Job(v))
        /\ Job(v) \in misled' <=> Job(v) \in misled
        /\ Sure(Job(v))' <=> Sure(Job(v))
    BY <2>2, <2>3, RowsKeep DEF Kept, Sure, Identified
  <2>5. Course(v)
    BY DEF StoreInv, Courses
  <2>6. ToId(v)' /\ ToName(v)' /\ ToInsert(v)'
    BY <2>2, <2>4, <2>5 DEF Course, ToId, ToName, ToInsert, RowsOf
  <2>7. ToUpdate(v)'
    <3> SUFFICES ASSUME at[v] = "updating" PROVE ToUpdate(v)'
      BY DEF ToUpdate
    <3>1. /\ found[v] \in DOMAIN hotels
          /\ SameName(hotels[found[v]].seed, Job(v))
          /\ Sure(Job(v)) => RowsOf(Job(v)) \subseteq {found[v]}
      BY <2>5 DEF Course, ToUpdate
    <3>2. /\ found[v] \in DOMAIN hotels'
          /\ SameName(hotels'[found[v]].seed, hotels[found[v]].seed)
      BY <3>1, RowsKeep
    <3> QED
      BY <2>2, <2>4, <3>1, <3>2 DEF ToUpdate, SameName, RowsOf
  <2>8. ToComplete(v)'
    <3>1. \A j \in Jobs : (\E i \in DOMAIN hotels : SameName(hotels[i].seed, j))
             => \E i \in DOMAIN hotels' : SameName(hotels'[i].seed, j)
      <4>1. misled' \subseteq Jobs
        BY JobOf DEF StoreInv, TypeOK
      <4> QED
        BY <4>1, RowsInv
    <3> QED
      BY <2>2, <2>5, <3>1 DEF Course, ToComplete
  <2> QED
    BY <2>6, <2>7, <2>8 DEF Course
<1> QED
  BY <1>1, <1>2

-----------------------------------------------------------------------------
\* A step of w leaves the other workers where they are.
Alone(w) == \A v \in Workers \ {w} : at'[v] = at[v] /\ draft'[v] = draft[v] /\ found'[v] = found[v]

LEMMA StepInv ==
    ASSUME StoreInv, NEW w \in Workers, Touched(w), Kept, Alone(w),
           misled' \subseteq misled \cup {Job(w)}, misled' # misled => draft[w] # Null,
           TypeOK', Leased', Keys', Course(w)',
           \A j \in done' : j \in done \/ \E i \in DOMAIN hotels : SameName(hotels[i].seed, j)
    PROVE  StoreInv'
<1>1. misled' \subseteq Jobs
  BY DEF TypeOK
<1>2. Seeds' /\ Unique'
  BY <1>1, RowsInv
<1>3. Courses'
  BY OthersGoOn DEF Courses, Alone
<1>4. DoneHotelsAreStored'
  <2>1. done' \subseteq Jobs
    BY DEF TypeOK
  <2>2. \A j \in done' : \E i \in DOMAIN hotels : SameName(hotels[i].seed, j)
    BY DEF StoreInv, DoneHotelsAreStored
  <2>3. \A j \in done' : \E i \in DOMAIN hotels' : SameName(hotels'[i].seed, j)
    BY <1>1, <2>1, <2>2, RowsInv
  <2> QED
    BY <2>3 DEF DoneHotelsAreStored
<1> QED
  BY <1>2, <1>3, <1>4 DEF StoreInv

\* The queue is as before, and w goes on with its job.
LEMMA QueueStays ==
    ASSUME StoreInv, UNCHANGED queue
    PROVE  /\ Keys' /\ Idle' = (\A v \in Workers : at'[v] = "idle" => leases[v] = {})
           /\ Mine' /\ Open' /\ Waits'
           /\ \A j \in Jobs : Known(j)' <=> Known(j)
BY DEF queue, StoreInv, Leased, Mine, Open, Waits, Keys, Known, Settled, Idle

LEMMA StayInv ==
    ASSUME StoreInv, NEW w \in Workers, at[w] # "idle", Touched(w), Alone(w),
           UNCHANGED <<queue, unique>>,
           NEW a \in Stations \ {"idle"}, at' = [at EXCEPT ![w] = a],
           NEW d \in Rows \cup {Null}, draft' = [draft EXCEPT ![w] = d],
           d = Null <=> a = "enriching", d # Null => d.seed \in leases[w],
           NEW f \in 0..Len(hotels), found' = [found EXCEPT ![w] = f],
           misled \subseteq misled', misled' \subseteq misled \cup {Job(w)},
           misled' # misled => draft[w] # Null,
           Course(w)'
    PROVE  StoreInv'
<1>1. /\ TypeOK /\ Leased /\ misled' \subseteq Jobs
      /\ UNCHANGED <<queued, leases, done, failed, unique>>
  BY JobOf DEF StoreInv, TypeOK, queue
<1>2. /\ Keys' /\ Mine' /\ Open' /\ Waits' /\ Kept
  BY QueueStays DEF Kept
<1>3. /\ at'[w] = a /\ draft'[w] = d /\ found'[w] = f
      /\ \A v \in Workers \ {w} : at'[v] = at[v] /\ draft'[v] = draft[v] /\ found'[v] = found[v]
  BY <1>1 DEF TypeOK
<1>4. hotels \in Seq(Rows) /\ hotels' \in Seq(Rows) /\ Len(hotels) <= Len(hotels')
  BY <1>1, <1>2, RowsInv DEF TypeOK
<1>5. TypeOK'
  <2>1. found' \in [Workers -> 0..Len(hotels')]
    <3>1. Len(hotels) \in Nat /\ Len(hotels') \in Nat
      BY <1>4, LenProperties
    <3> QED
      BY <1>1, <1>4, <3>1 DEF TypeOK
  <2>2. /\ at' \in [Workers -> Stations] /\ draft' \in [Workers -> Rows \cup {Null}]
    BY <1>1 DEF TypeOK
  <2>3. \A v \in Workers : draft'[v] = Null <=> at'[v] \in {"idle", "enriching"}
    BY <1>1, <1>3 DEF TypeOK
  <2> QED
    BY <1>1, <1>4, <2>1, <2>2, <2>3 DEF TypeOK
<1>6. Leased'
  <2>1. Idle' /\ Busy'
    BY <1>1, <1>3 DEF Leased, Idle, Busy
  <2>2. Drafted'
    BY <1>1, <1>3 DEF Leased, Drafted, Busy, Job
  <2> QED
    BY <1>2, <2>1, <2>2 DEF Leased
<1> QED
  BY <1>1, <1>2, <1>5, <1>6, StepInv

LEMMA GiveUpInv ==
    ASSUME StoreInv, NEW w \in Workers, at[w] # "idle", Touched(w), GiveUp(w),
           UNCHANGED <<unique, misled>>
    PROVE  StoreInv'
<1>1. PICK F \in {{}, leases[w]} : Q!Release(w, leases[w], {}, F)
  BY DEF GiveUp
<1>2. /\ at' = [at EXCEPT ![w] = "idle"]
      /\ draft' = [draft EXCEPT ![w] = Null]
      /\ found' = [found EXCEPT ![w] = 0]
  BY DEF GiveUp
<1>3. PICK j \in Jobs : leases[w] = {j}
  BY DEF StoreInv, Leased, Busy
<1>4. /\ leases' = [leases EXCEPT ![w] = {}] /\ done' = done
      /\ \/ queued' = queued \cup {j} /\ failed' = failed
         \/ queued' = queued /\ failed' = failed \cup {j}
  BY <1>1, <1>3 DEF Q!Release
<1>5. TypeOK /\ Leased /\ Keys
  BY DEF StoreInv
<1>6. /\ at'[w] = "idle" /\ draft'[w] = Null /\ leases'[w] = {}
      /\ \A v \in Workers \ {w} : /\ at'[v] = at[v] /\ draft'[v] = draft[v]
                                  /\ found'[v] = found[v] /\ leases'[v] = leases[v]
  BY <1>2, <1>4, <1>5 DEF TypeOK
<1>7. \A k \in Jobs : Known(k)' <=> Known(k)
  BY <1>3, <1>4, <1>6 DEF Known, Settled
<1>8. Kept /\ Keys'
  BY <1>5, <1>7 DEF Kept, Keys
<1>9. Leased'
  <2>1. Idle' /\ Busy' /\ Mine'
    BY <1>5, <1>6 DEF Leased, Idle, Busy, Mine
  <2>2. j \notin queued \cup Settled /\ \A v \in Workers \ {w} : j \notin leases[v]
    BY <1>3, <1>5 DEF Leased, Open, Mine
  <2>3. Open' /\ Waits'
    BY <1>4, <1>5, <1>6, <2>2 DEF Leased, Open, Waits, Settled
  <2>4. Drafted'
    BY <1>5, <1>6 DEF Leased, Drafted, Job
  <2> QED
    BY <2>1, <2>3, <2>4 DEF Leased
<1>10. TypeOK'
  <2>1. hotels \in Seq(Rows) /\ hotels' \in Seq(Rows) /\ Len(hotels) <= Len(hotels')
    BY <1>5, <1>8, RowsInv DEF TypeOK
  <2>2. Len(hotels) \in Nat /\ Len(hotels') \in Nat
    BY <2>1, LenProperties
  <2>3. found' \in [Workers -> 0..Len(hotels')]
    BY <1>2, <1>5, <2>1, <2>2 DEF TypeOK
  <2>4. /\ at' \in [Workers -> Stations] /\ draft' \in [Workers -> Rows \cup {Null}]
        /\ leases' \in [Workers -> SUBSET Jobs]
    BY <1>2, <1>4, <1>5 DEF TypeOK, Stations
  <2>5. \A v \in Workers : draft'[v] = Null <=> at'[v] \in {"idle", "enriching"}
    BY <1>5, <1>6 DEF TypeOK
  <2> QED
    BY <1>3, <1>4, <1>5, <2>1, <2>3, <2>4, <2>5 DEF TypeOK
<1>11. Course(w)'
  BY <1>6 DEF Course, ToId, ToName, ToInsert, ToUpdate, ToComplete
<1> QED
  BY <1>4, <1>6, <1>8, <1>9, <1>10, <1>11, StepInv DEF Alone

-----------------------------------------------------------------------------
\* Workers go on without the table, and nothing is misled.
LEMMA MoveInv ==
    ASSUME StoreInv, NEW w \in Workers, at[w] # "idle", draft[w] # Null,
           UNCHANGED <<queue, hotels, unique, draft>>,
           NEW a \in Stations \ {"idle", "enriching"}, at' = [at EXCEPT ![w] = a],
           NEW f \in 0..Len(hotels), found' = [found EXCEPT ![w] = f],
           misled \subseteq misled', misled' \subseteq misled \cup {Job(w)},
           Course(w)'
    PROVE  StoreInv'
<1>1. /\ draft \in [Workers -> Rows \cup {Null}] /\ at \in [Workers -> Stations]
      /\ found \in [Workers -> 0..Len(hotels)]
  BY DEF StoreInv, TypeOK
<1>2. /\ draft[w] \in Rows \cup {Null} /\ draft[w] # Null
      /\ draft' = [draft EXCEPT ![w] = draft[w]]
  BY <1>1
<1>3. draft[w].seed \in leases[w]
  BY JobOf DEF Job
<1>4. Touched(w)
  BY DEF Touched, Quiet
<1>5. Alone(w)
  BY <1>1 DEF Alone
<1> QED
  BY <1>2, <1>3, <1>4, <1>5, StayInv

\* w writes its draft to row i, which is the row of its job, if any is.
WritesTo(w, i) ==
    /\ at[w] # "idle" /\ draft[w] # Null
    /\ Write(w, i)
    /\ i # 0 => SameName(hotels[i].seed, Job(w))
    /\ Allowed(Job(w), i) /\ Sure(Job(w)) => RowsOf(Job(w)) \subseteq {i}

LEMMA WriteTouches ==
    ASSUME StoreInv, NEW w \in Workers, NEW i \in 0..Len(hotels), WritesTo(w, i)
    PROVE  /\ Touched(w)
           /\ hotels' # hotels => draft[w] # Null /\ \E n \in Nat : Wrote(w, n)
           /\ Allowed(Job(w), i) /\ hotels' = Stored(draft[w], i) => \E n \in Nat : Wrote(w, n)
<1>1. \/ Allowed(Job(w), i) /\ hotels' = Stored(draft[w], i)
      \/ UNCHANGED hotels
  BY DEF WritesTo, Write
<1>2. ASSUME Allowed(Job(w), i), hotels' = Stored(draft[w], i)
      PROVE  \E n \in Nat : Wrote(w, n)
  BY <1>2, WriteEffect DEF WritesTo
<1> QED
  BY <1>1, <1>2 DEF Touched, Quiet, WritesTo

LEMMA WriteInv ==
    ASSUME StoreInv, NEW w \in Workers, NEW i \in 0..Len(hotels), WritesTo(w, i)
    PROVE  StoreInv'
<1>1. /\ UNCHANGED <<unique, misled>>
      /\ Touched(w) /\ at[w] # "idle" /\ draft[w] # Null
  BY WriteTouches DEF Write, WritesTo
<1>3. CASE /\ Allowed(Job(w), i) /\ hotels' = Stored(draft[w], i)
           /\ at' = [at EXCEPT ![w] = "stored"]
           /\ found' = [found EXCEPT ![w] = 0]
           /\ UNCHANGED <<queue, draft>>
  <2>1. PICK n \in Nat : Wrote(w, n)
    BY <1>3, WriteTouches
  <2>2. /\ draft \in [Workers -> Rows \cup {Null}] /\ at \in [Workers -> Stations]
        /\ found \in [Workers -> 0..Len(hotels)] /\ 0 \in 0..Len(hotels)
    BY HotelsShape DEF StoreInv, TypeOK
  <2>3. Course(w)'
    <3>1. at'[w] = "stored" /\ Job(w)' = Job(w)
      BY <1>3, <2>2 DEF Job
    <3>2. n \in DOMAIN hotels' /\ hotels'[n].seed = Job(w)
      BY <2>1 DEF Wrote, Job
    <3>3. ToComplete(w)'
      BY <3>1, <3>2 DEF ToComplete, SameName
    <3> QED
      BY <3>1, <3>3 DEF Course, ToId, ToName, ToInsert, ToUpdate
  <2>4. draft[w] \in Rows \cup {Null} /\ draft' = [draft EXCEPT ![w] = draft[w]]
    BY <1>3, <2>2
  <2>5. draft[w].seed \in leases[w]
    BY <1>1, JobOf DEF Job
  <2>6. Alone(w)
    BY <1>3, <2>2 DEF Alone
  <2>7. "stored" \in Stations \ {"idle"} /\ "stored" # "enriching"
    BY DEF Stations
  <2> QED
    BY <1>1, <1>3, <2>2, <2>3, <2>4, <2>5, <2>6, <2>7, StayInv
<1>4. CASE GiveUp(w)
  BY <1>1, <1>4, GiveUpInv
<1> QED
  BY <1>3, <1>4 DEF Write, WritesTo

\* A row agrees with a job only under its name and city, and the job's own
\* rows agree with it on the columns it is identified by.
LEMMA MatchSame ==
    ASSUME StoreInv, NEW w \in Workers, draft[w] # Null, NEW key \in Constraints,
           NEW i \in Matches(Job(w), key)
    PROVE  /\ i \in DOMAIN hotels /\ i \in 1..Len(hotels)
           /\ SameName(hotels[i].seed, Job(w))
<1>1. /\ i \in DOMAIN hotels /\ i \in 1..Len(hotels) /\ hotels[i].seed \in Jobs
      /\ Agree(Job(w), hotels[i].seed, key)
  BY HotelsShape DEF StoreInv, Matches, Agree
<1>2. Known(hotels[i].seed) /\ Known(Job(w)) /\ Job(w) \in Jobs
  BY <1>1, JobOf DEF StoreInv, Seeds
<1>3. SameName(Job(w), hotels[i].seed)
  BY <1>1, <1>2, AgreeSame
<1> QED
  BY <1>1, <1>3 DEF SameName

LEMMA OwnMatch ==
    ASSUME NEW j, NEW key \in Constraints,
           key = "external_id" => j.ext # Null,
           key = "name_city" => j.city # Null
    PROVE  RowsOf(j) \subseteq Matches(j, key)
BY DEF RowsOf, Matches, Agree, Constraints

LEMMA UpsertWrites ==
    ASSUME StoreInv, NEW w \in Workers, Upsert(w)
    PROVE  \E i \in 0..Len(hotels) : WritesTo(w, i)
<1> DEFINE key == Target(Job(w))
           hit == Matches(Job(w), key)
<1>1. /\ at[w] = "upserting" /\ key \in unique /\ key \in Constraints
      /\ draft[w] # Null
  BY DEF Upsert, StoreInv, TypeOK, Target, Constraints
<1>2. PICK i \in IF hit = {} THEN {0} ELSE hit : Write(w, i)
  BY DEF Upsert
<1>3. hit \subseteq 1..Len(hotels) /\ \A k \in hit : SameName(hotels[k].seed, Job(w))
  BY <1>1, MatchSame
<1>4. Len(hotels) \in Nat
  BY HotelsShape DEF StoreInv
<1>5. i \in 0..Len(hotels) /\ (i # 0 => i \in hit)
  BY <1>2, <1>3, <1>4
<1>6. ASSUME Allowed(Job(w), i), Sure(Job(w)) PROVE RowsOf(Job(w)) \subseteq {i}
  <2>1. hit \subseteq {i}
    BY <1>1, <1>6 DEF Allowed
  <2>2. RowsOf(Job(w)) \subseteq hit
    BY <1>1, <1>6, OwnMatch DEF Target, Sure, Identified, Constraints
  <2> QED
    BY <2>1, <2>2
<1> QED
  BY <1>1, <1>2, <1>3, <1>5, <1>6 DEF WritesTo

LEMMA UpdateWrites ==
    ASSUME StoreInv, NEW w \in Workers, Update(w)
    PROVE  \E i \in 0..Len(hotels) : WritesTo(w, i)
<1>1. /\ at[w] = "updating" /\ Write(w, found[w]) /\ draft[w] # Null
      /\ found[w] \in 0..Len(hotels)
  BY DEF Update, StoreInv, TypeOK
<1>2. ToUpdate(w)
  BY DEF StoreInv, Courses, Course
<1> QED
  BY <1>1, <1>2 DEF ToUpdate, WritesTo

LEMMA InsertWrites ==
    ASSUME StoreInv, NEW w \in Workers, Insert(w)
    PROVE  \E i \in 0..Len(hotels) : WritesTo(w, i)
<1>1. /\ at[w] = "inserting" /\ Write(w, 0) /\ draft[w] # Null
      /\ 0 \in 0..Len(hotels)
  BY HotelsShape DEF Insert, StoreInv, TypeOK
<1>2. ToInsert(w)
  BY DEF StoreInv, Courses, Course
<1> QED
  BY <1>1, <1>2 DEF ToInsert, WritesTo

LEMMA FallBackInv ==
    ASSUME StoreInv, NEW w \in Workers, FallBack(w)
    PROVE  StoreInv'
<1> DEFINE a == IF Job(w).ext # Null THEN "byId" ELSE AfterId(w)
<1>1. /\ at[w] = "upserting" /\ draft[w] # Null /\ TypeOK
      /\ at' = [at EXCEPT ![w] = a]
      /\ UNCHANGED <<queue, hotels, unique, draft, found, misled>>
  BY DEF FallBack, StoreInv, TypeOK
<1>2. a \in Stations \ {"idle", "enriching"}
  BY DEF AfterId, Stations
<1>3. /\ found[w] \in 0..Len(hotels) /\ found' = [found EXCEPT ![w] = found[w]]
      /\ at'[w] = a /\ Job(w)' = Job(w)
  BY <1>1 DEF TypeOK, Job
<1>4. Course(w)'
  <2>1. ToId(w)' /\ ToUpdate(w)' /\ ToComplete(w)'
    BY <1>3 DEF ToId, ToUpdate, ToComplete, AfterId
  <2>2. ToName(w)' /\ ToInsert(w)'
    BY <1>3 DEF ToName, ToInsert, AfterId, Sure, Identified
  <2> QED
    BY <2>1, <2>2 DEF Course
<1> HIDE DEF a
<1> QED
  BY <1>1, <1>2, <1>3, <1>4, MoveInv

LEMMA LookInv ==
    ASSUME StoreInv, NEW w \in Workers, draft[w] # Null,
           NEW key \in Constraints, RowsOf(Job(w)) \subseteq Matches(Job(w), key),
           NEW a \in {"byName", "inserting"}, a = "byName" => Job(w).city # Null,
           Look(w, key, a)
    PROVE  StoreInv'
<1> DEFINE hit == Matches(Job(w), key)
<1>1. /\ TypeOK /\ at[w] # "idle" /\ Stations \ {"idle", "enriching"} # {}
      /\ {"updating", "byName", "inserting"} \subseteq Stations \ {"idle", "enriching"}
      /\ UNCHANGED <<queue, hotels, unique, draft>>
  BY DEF StoreInv, TypeOK, Look, Stations
<1>2. Job(w)' = Job(w) /\ Job(w) \in Jobs
  BY <1>1, JobOf DEF Job
<1>3. CASE /\ \E i \in hit : hit = {i} /\ found' = [found EXCEPT ![w] = i]
           /\ at' = [at EXCEPT ![w] = "updating"]
           /\ UNCHANGED misled
  <2>1. PICK i \in hit : hit = {i} /\ found' = [found EXCEPT ![w] = i]
    BY <1>3
  <2>2. i \in DOMAIN hotels /\ i \in 0..Len(hotels) /\ SameName(hotels[i].seed, Job(w))
    BY MatchSame, HotelsShape DEF StoreInv
  <2>3. at'[w] = "updating" /\ found'[w] = i
    BY <1>1, <1>3, <2>1 DEF TypeOK
  <2>4. ToUpdate(w)'
    BY <1>1, <1>2, <2>1, <2>2, <2>3 DEF ToUpdate, SameName, RowsOf
  <2>5. Course(w)'
    BY <2>3, <2>4 DEF Course, ToId, ToName, ToInsert, ToComplete
  <2> QED
    BY <1>1, <1>3, <2>1, <2>2, <2>5, MoveInv
<1>4. CASE /\ at' = [at EXCEPT ![w] = a]
           /\ misled' = IF hit = {} THEN misled ELSE misled \cup {Job(w)}
           /\ UNCHANGED found
  <2>1. found[w] \in 0..Len(hotels) /\ found' = [found EXCEPT ![w] = found[w]] /\ at'[w] = a
    BY <1>1, <1>4 DEF TypeOK
  <2>2. Job(w) \notin misled' => RowsOf(Job(w)) = {}
    BY <1>4
  <2>3. ToName(w)' /\ ToInsert(w)'
    BY <1>1, <1>2, <2>1, <2>2 DEF ToName, ToInsert, Sure, Identified, RowsOf
  <2>4. Course(w)'
    BY <2>1, <2>3 DEF Course, ToId, ToUpdate, ToComplete
  <2> QED
    BY <1>1, <1>4, <2>1, <2>4, MoveInv
<1> QED
  BY <1>3, <1>4 DEF Look

LEMMA LookByIdInv ==
    ASSUME StoreInv, NEW w \in Workers, LookById(w)
    PROVE  StoreInv'
<1>1. at[w] = "byId" /\ draft[w] # Null /\ Look(w, "external_id", AfterId(w))
  BY DEF LookById, StoreInv, TypeOK
<1>2. Job(w).ext # Null
  BY <1>1 DEF StoreInv, Courses, Course, ToId
<1>3. "external_id" \in Constraints /\ RowsOf(Job(w)) \subseteq Matches(Job(w), "external_id")
  BY <1>2, OwnMatch DEF Constraints
<1>4. AfterId(w) \in {"byName", "inserting"} /\ (AfterId(w) = "byName" => Job(w).city # Null)
  BY DEF AfterId
<1> QED
  BY <1>1, <1>3, <1>4, LookInv

LEMMA LookByNameInv ==
    ASSUME StoreInv, NEW w \in Workers, LookByName(w)
    PROVE  StoreInv'
<1>1. at[w] = "byName" /\ draft[w] # Null /\ Look(w, "name_city", "inserting")
  BY DEF LookByName, StoreInv, TypeOK
<1>2. Job(w).city # Null
  BY <1>1 DEF StoreInv, Courses, Course, ToName
<1>3. "name_city" \in Constraints /\ RowsOf(Job(w)) \subseteq Matches(Job(w), "name_city")
  BY <1>2, OwnMatch DEF Constraints
<1> QED
  BY <1>1, <1>3, LookInv

LEMMA EnrichInv ==
    ASSUME StoreInv, NEW w \in Workers, Enrich(w)
    PROVE  StoreInv'
<1>1. /\ TypeOK /\ at[w] = "enriching" /\ draft[w] = Null
      /\ at' = [at EXCEPT ![w] = "upserting"]
      /\ UNCHANGED <<queue, hotels, unique, found, misled>>
  BY DEF Enrich, StoreInv, TypeOK
<1>2. PICK j \in leases[w], items \in Evidence :
         \E summary \in Summaries(Normalize(j, items)) :
             draft' = [draft EXCEPT ![w] = Row(j, items, summary)]
  BY DEF Enrich
<1>3. PICK summary \in Summaries(Normalize(j, items)) :
         draft' = [draft EXCEPT ![w] = Row(j, items, summary)]
  BY <1>2
<1> DEFINE d == Row(j, items, summary)
<1>4. j \in Jobs
  BY <1>1 DEF TypeOK
<1>5. d \in Rows /\ d.seed = j
  <2>1. Normalize(j, items) \in Facts
    BY <1>4 DEF Facts
  <2> QED
    BY <1>4, <2>1 DEF Row, Rows
<1>6. d # Null
  BY <1>5, RowAssumption
<1>7. /\ found[w] \in 0..Len(hotels) /\ found' = [found EXCEPT ![w] = found[w]]
      /\ "upserting" \in Stations \ {"idle"} /\ at'[w] = "upserting"
  BY <1>1 DEF TypeOK, Stations
<1>8. Touched(w) /\ Alone(w)
  BY <1>1, <1>3 DEF Touched, Quiet, Alone, TypeOK
<1>9. Course(w)'
  BY <1>7 DEF Course, ToId, ToName, ToInsert, ToUpdate, ToComplete
<1> HIDE DEF d
<1>10. draft' = [draft EXCEPT ![w] = d]
  BY <1>3 DEF d
<1> QED
  BY <1>1, <1>5, <1>6, <1>7, <1>8, <1>9, <1>10, StayInv

LEMMA BreakInv ==
    ASSUME StoreInv, NEW w \in Workers, Break(w)
    PROVE  StoreInv'
BY GiveUpInv DEF Break, Touched, Quiet

LEMMA ClaimInv ==
    ASSUME StoreInv, NEW w \in Workers, Claim(w)
    PROVE  StoreInv'
<1>1. /\ TypeOK /\ Leased /\ Keys /\ at[w] = "idle" /\ draft[w] = Null
      /\ at' = [at EXCEPT ![w] = "enriching"]
      /\ UNCHANGED <<hotels, unique, draft, found, misled>>
  BY DEF Claim, StoreInv, TypeOK
<1>2. PICK j \in queued : Q!Lease(w, {j})
  BY DEF Claim
<1>3. /\ j \in Jobs /\ queued' = queued \ {j} /\ done' = done /\ failed' = failed
      /\ leases' = [leases EXCEPT ![w] = {j}]
  BY <1>1, <1>2 DEF Q!Lease, TypeOK
<1>4. /\ at'[w] = "enriching" /\ draft'[w] = Null /\ leases'[w] = {j}
      /\ \A v \in Workers \ {w} : /\ at'[v] = at[v] /\ draft'[v] = draft[v]
                                  /\ found'[v] = found[v] /\ leases'[v] = leases[v]
  BY <1>1, <1>3 DEF TypeOK
<1>5. leases[w] = {} /\ j \notin Settled /\ \A v \in Workers : j \notin leases[v]
  BY <1>1 DEF Leased, Idle, Waits, Open
<1>6. \A k \in Jobs : Known(k)' <=> Known(k)
  BY <1>3, <1>4, <1>5 DEF Known, Settled
<1>7. Kept /\ Keys'
  BY <1>1, <1>6 DEF Kept, Keys
<1>8. Leased'
  <2>1. Idle' /\ Busy'
    BY <1>1, <1>3, <1>4 DEF Leased, Idle, Busy
  <2>2. Mine' /\ Open' /\ Waits'
    BY <1>1, <1>3, <1>4, <1>5 DEF Leased, Mine, Open, Waits, Settled
  <2>3. Drafted'
    BY <1>1, <1>4 DEF Leased, Drafted, Job
  <2> QED
    BY <2>1, <2>2, <2>3 DEF Leased
<1>9. TypeOK'
  <2>1. at' \in [Workers -> Stations] /\ leases' \in [Workers -> SUBSET Jobs]
    BY <1>1, <1>3 DEF TypeOK, Stations
  <2>2. \A v \in Workers : draft'[v] = Null <=> at'[v] \in {"idle", "enriching"}
    BY <1>1, <1>4 DEF TypeOK
  <2> QED
    BY <1>1, <1>3, <2>1, <2>2 DEF TypeOK
<1>10. Course(w)' /\ Touched(w) /\ Alone(w)
  BY <1>1, <1>4 DEF Course, ToId, ToName, ToInsert, ToUpdate, ToComplete, Touched, Quiet, Alone
<1> QED
  BY <1>1, <1>3, <1>7, <1>8, <1>9, <1>10, StepInv

LEMMA CompleteInv ==
    ASSUME StoreInv, NEW w \in Workers, Complete(w)
    PROVE  StoreInv'
<1>1. /\ TypeOK /\ Leased /\ Keys /\ at[w] = "stored" /\ draft[w] # Null
      /\ at' = [at EXCEPT ![w] = "idle"]
      /\ draft' = [draft EXCEPT ![w] = Null]
      /\ UNCHANGED <<hotels, unique, found, misled>>
  BY DEF Complete, StoreInv, TypeOK
<1> DEFINE j == Job(w)
<1>2. j \in Jobs /\ leases[w] = {j}
  BY <1>1, JobOf
<1>3. /\ queued' = queued /\ done' = done \cup {j} /\ failed' = failed
      /\ leases' = [leases EXCEPT ![w] = {}]
  BY <1>2 DEF Complete, Q!Release
<1>4. \E i \in DOMAIN hotels : SameName(hotels[i].seed, j)
  BY <1>1 DEF StoreInv, Courses, Course, ToComplete
<1> HIDE DEF j
<1>5. /\ at'[w] = "idle" /\ draft'[w] = Null /\ leases'[w] = {}
      /\ \A v \in Workers \ {w} : /\ at'[v] = at[v] /\ draft'[v] = draft[v]
                                  /\ found'[v] = found[v] /\ leases'[v] = leases[v]
  BY <1>1, <1>3 DEF TypeOK
<1>6. \A k \in Jobs : Known(k)' <=> Known(k)
  BY <1>2, <1>3, <1>5 DEF Known, Settled
<1>7. Kept /\ Keys'
  BY <1>1, <1>6 DEF Kept, Keys
<1>8. Leased'
  <2>1. Idle' /\ Busy' /\ Mine'
    BY <1>1, <1>5 DEF Leased, Idle, Busy, Mine
  <2>2. j \notin queued \cup Settled /\ \A v \in Workers \ {w} : j \notin leases[v]
    BY <1>1, <1>2 DEF Leased, Open, Mine
  <2>3. Open' /\ Waits'
    BY <1>1, <1>3, <1>5, <2>2 DEF Leased, Open, Waits, Settled
  <2>4. Drafted'
    BY <1>1, <1>5 DEF Leased, Drafted, Job
  <2> QED
    BY <2>1, <2>3, <2>4 DEF Leased
<1>9. TypeOK'
  <2>1. /\ at' \in [Workers -> Stations] /\ leases' \in [Workers -> SUBSET Jobs]
        /\ draft' \in [Workers -> Rows \cup {Null}]
    BY <1>1, <1>3 DEF TypeOK, Stations
  <2>2. \A v \in Workers : draft'[v] = Null <=> at'[v] \in {"idle", "enriching"}
    BY <1>1, <1>5 DEF TypeOK
  <2> QED
    BY <1>1, <1>2, <1>3, <2>1, <2>2 DEF TypeOK
<1>10. Course(w)' /\ Touched(w) /\ Alone(w)
  BY <1>1, <1>5 DEF Course, ToId, ToName, ToInsert, ToUpdate, ToComplete, Touched, Quiet, Alone
<1> QED
  BY <1>1, <1>3, <1>4, <1>7, <1>8, <1>9, <1>10, StepInv

-----------------------------------------------------------------------------
\* Steps without a worker.
LEMMA ImportInv ==
    ASSUME StoreInv, Import
    PROVE  StoreInv'
<1>1. /\ TypeOK /\ Leased /\ Keys /\ Seeds /\ Unique /\ Courses /\ DoneHotelsAreStored
      /\ UNCHANGED <<hotels, unique, worker, misled>>
  BY DEF Import, StoreInv
<1>2. PICK P \in SUBSET Jobs :
         /\ \A j \in P : \A k \in P \cup queued \cup Q!Leased \cup done \cup failed :
               Key(j) = Key(k) => j = k
         /\ Q!Submit(P)
  BY DEF Import, Pages
<1>3. /\ queued' = queued \cup P /\ leases' = leases /\ done' = done /\ failed' = failed
      /\ \A j \in P : ~Known(j)
  BY <1>2 DEF Q!Submit, Q!Leased, Known, Settled
<1>4. \A j \in P : \A k \in Jobs : k \in P \/ Known(k) => (Key(j) = Key(k) => j = k)
  BY <1>2 DEF Q!Leased, Known, Settled
<1>5. \A j \in Jobs : Known(j)' <=> Known(j) \/ j \in P
  BY <1>3 DEF Known, Settled
<1>6. Keys'
  <2> SUFFICES ASSUME NEW j \in Jobs, NEW k \in Jobs, Known(j)', Known(k)', Key(j) = Key(k)
               PROVE  j = k
    BY DEF Keys
  <2>1. (Known(j) \/ j \in P) /\ (Known(k) \/ k \in P)
    BY <1>5
  <2>2. Known(j) /\ Known(k) => j = k
    BY <1>1 DEF Keys
  <2> QED
    BY <1>4, <2>1, <2>2
<1>7. TypeOK'
  BY <1>1, <1>2, <1>3 DEF TypeOK, worker
<1>8. Leased'
  <2>1. Idle' /\ Busy' /\ Mine' /\ Drafted'
    BY <1>1, <1>3 DEF Leased, Idle, Busy, Mine, Drafted, worker, Job
  <2>2. Open' /\ Waits'
    BY <1>1, <1>3 DEF Leased, Open, Waits, Known, Settled
  <2> QED
    BY <2>1, <2>2 DEF Leased
<1>9. Seeds'
  <2>1. \A i \in DOMAIN hotels : hotels[i].seed \in Jobs
    BY <1>1, HotelsShape
  <2> QED
    BY <1>1, <1>3, <2>1 DEF Seeds, Known, Settled
<1>10. Unique' /\ Courses' /\ DoneHotelsAreStored'
  BY <1>1, <1>3 DEF Unique, Sure, RowsOf, Courses, Course, ToId, ToName, ToInsert, ToUpdate,
        ToComplete, DoneHotelsAreStored, worker, Job
<1> QED
  BY <1>6, <1>7, <1>8, <1>9, <1>10 DEF StoreInv

\* All but the table's constraints stays.
LEMMA StillInv ==
    ASSUME StoreInv, UNCHANGED <<queue, hotels, worker, misled>>, unique' \in SUBSET Constraints
    PROVE  StoreInv'
<1>1. UNCHANGED <<queued, leases, done, failed, hotels, at, draft, found, misled>>
  BY DEF queue, worker
<1>2. TypeOK'
  BY <1>1 DEF StoreInv, TypeOK
<1>3. Leased' /\ Keys' /\ Seeds' /\ DoneHotelsAreStored'
  BY <1>1 DEF StoreInv, Leased, Idle, Busy, Mine, Open, Waits, Drafted, Keys, Seeds, Known,
        Settled, Job, DoneHotelsAreStored
<1>4. Unique' /\ Courses'
  BY <1>1 DEF StoreInv, Unique, Sure, RowsOf, Courses, Course, ToId, ToName, ToInsert,
        ToUpdate, ToComplete, Job
<1> QED
  BY <1>2, <1>3, <1>4 DEF StoreInv

LEMMA StoreNext == StoreInv /\ [Next]_vars => StoreInv'
<1> SUFFICES ASSUME StoreInv, [Next]_vars PROVE StoreInv'
  OBVIOUS
<1>1. CASE Import
  BY <1>1, ImportInv
<1>2. CASE Migrate
  <2>1. unique' \in SUBSET Constraints
    BY <1>2 DEF Migrate, StoreInv, TypeOK
  <2> QED
    BY <1>2, <2>1, StillInv DEF Migrate
<1>3. ASSUME NEW w \in Workers, Step(w) PROVE StoreInv'
  <2>1. CASE Upsert(w) \/ Update(w) \/ Insert(w)
    BY <1>3, <2>1, UpsertWrites, UpdateWrites, InsertWrites, WriteInv
  <2> QED
    BY <1>3, <2>1, ClaimInv, EnrichInv, FallBackInv, LookByIdInv, LookByNameInv,
       CompleteInv, BreakInv DEF Step
<1>4. CASE UNCHANGED vars
  BY <1>4, StillInv DEF vars, StoreInv, TypeOK
<1> QED
  BY <1>1, <1>2, <1>3, <1>4 DEF Next

LEMMA StepTouches ==
    ASSUME StoreInv, NEW w \in Workers, Step(w)
    PROVE  Touched(w)
<1>1. CASE Upsert(w) \/ Update(w) \/ Insert(w)
  BY <1>1, UpsertWrites, UpdateWrites, InsertWrites, WriteTouches
<1>2. CASE Claim(w) \/ Enrich(w) \/ FallBack(w) \/ Complete(w) \/ Break(w)
  BY <1>2 DEF Claim, Enrich, FallBack, Complete, Break, Touched, Quiet
<1>3. CASE LookById(w) \/ LookByName(w)
  BY <1>3 DEF LookById, LookByName, Look, Touched, Quiet
<1> QED
  BY <1>1, <1>2, <1>3 DEF Step

LEMMA StoreAlways == Spec => []StoreInv
BY StoreInit, StoreNext, PTL DEF Spec

-----------------------------------------------------------------------------
(***************************************************************************)
(* Every reachable state of the table, the queue and the workers is well   *)
(* typed.                                                                  *)
(***************************************************************************)
THEOREM TypeCorrect == Spec => []TypeOK
<1>1. StoreInv => TypeOK
  BY DEF StoreInv
<1> QED
  BY <1>1, StoreAlways, PTL

(***************************************************************************)
(* upsertHotel and its fallback keep one row per identified hotel, if none *)
(* of the hotel's own lookups failed, whatever constraints the table has.  *)
(***************************************************************************)
THEOREM HotelsHaveOneRow == Spec => []OneRowPerHotel
<1>1. StoreInv => OneRowPerHotel
  <2> SUFFICES ASSUME StoreInv, NEW j \in Jobs, Identified(j), j \notin misled
               PROVE  Cardinality(RowsOf(j)) <= 1
    BY DEF OneRowPerHotel
  <2>1. \A i, k \in RowsOf(j) : i = k
    BY DEF StoreInv, Unique, Sure
  <2>2. CASE RowsOf(j) = {}
    BY <2>2, FS_EmptySet
  <2>3. CASE RowsOf(j) # {}
    <3>1. PICK i \in RowsOf(j) : RowsOf(j) = {i}
      BY <2>1, <2>3
    <3>2. Cardinality({i}) = 1
      BY FS_Singleton
    <3>3. Cardinality(RowsOf(j)) = 1
      BY <3>1, <3>2
    <3> QED
      BY <3>3
  <2> QED
    BY <2>2, <2>3
<1> QED
  BY <1>1, StoreAlways, PTL

(***************************************************************************)
(* A completed hotel is in the table under its name and city, for good.    *)
(***************************************************************************)
THEOREM CompletedHotelsAreStored == Spec => []DoneHotelsAreStored
<1>1. StoreInv => DoneHotelsAreStored
  BY DEF StoreInv
<1> QED
  BY <1>1, StoreAlways, PTL

(***************************************************************************)
(* The row of a completed hotel is never written again, except to another  *)
(* hotel of its name and city.                                             *)
(***************************************************************************)
THEOREM CompletedRowsStay == Spec => DoneRowsStay
<1> DEFINE Stays == \A j \in done : \A i \in RowsOf(j) :
                       hotels'[i] # hotels[i] =>
                          /\ hotels'[i].seed # j
                          /\ SameName(hotels'[i].seed, j)
<1>1. ASSUME StoreInv, [Next]_vars PROVE Stays
  <2>1. ASSUME NEW w \in Workers, Step(w) PROVE Stays
    <3> SUFFICES ASSUME NEW j \in done, NEW i \in RowsOf(j), hotels'[i] # hotels[i]
                 PROVE  hotels'[i].seed # j /\ SameName(hotels'[i].seed, j)
      OBVIOUS
    <3>1. i \in DOMAIN hotels /\ hotels[i].seed = j
      BY DEF RowsOf
    <3>2. draft[w] # Null /\ hotels'[i] = draft[w] /\ SameName(hotels'[i].seed, j)
      BY <1>1, <2>1, <3>1, StepTouches, RowsKeep
    <3>3. hotels'[i].seed = Job(w) /\ Job(w) \notin done
      BY <1>1, <3>2, JobOf DEF Job
    <3> QED
      BY <3>2, <3>3
  <2>2. CASE UNCHANGED hotels
    BY <2>2
  <2>3. Import \/ Migrate \/ UNCHANGED vars => UNCHANGED hotels
    BY DEF Import, Migrate, vars
  <2> QED
    BY <1>1, <2>1, <2>2, <2>3 DEF Next
<1>2. StoreInv /\ [Next]_vars => [Stays]_vars
  BY <1>1
<1> QED
  BY <1>2, StoreAlways, PTL DEF Spec, DoneRowsStay

-----------------------------------------------------------------------------
(***************************************************************************)
(* Every row is what enrichOne makes of a job and of what was found: so it *)
(* is in every draft, and rows are written as a whole.                     *)
(***************************************************************************)
Made(row) ==
    \E j \in Jobs, items \in Evidence :
        \E summary \in Summaries(Normalize(j, items)) : row = Row(j, items, summary)
DraftsMade == \A w \in Workers : draft[w] # Null => Made(draft[w])
RowsMade == \A i \in DOMAIN hotels : Made(hotels[i])

LEMMA DraftsKeepMade ==
    ASSUME StoreInv, DraftsMade, [Next]_vars
    PROVE  DraftsMade'
<1>1. draft \in [Workers -> Rows \cup {Null}]
  BY DEF StoreInv, TypeOK
<1>2. ASSUME NEW w \in Workers, Enrich(w) PROVE DraftsMade'
  <2>1. PICK j \in leases[w], items \in Evidence :
           \E summary \in Summaries(Normalize(j, items)) :
               draft' = [draft EXCEPT ![w] = Row(j, items, summary)]
    BY <1>2 DEF Enrich
  <2>2. PICK summary \in Summaries(Normalize(j, items)) :
           draft' = [draft EXCEPT ![w] = Row(j, items, summary)]
    BY <2>1
  <2> DEFINE row == Row(j, items, summary)
  <2>3. Made(row)
    <3>1. leases[w] \subseteq Jobs
      BY DEF StoreInv, TypeOK
    <3> QED
      BY <3>1 DEF Made
  <2>4. draft' = [draft EXCEPT ![w] = row]
    BY <2>2
  <2> HIDE DEF row
  <2>5. \A v \in Workers : draft'[v] = IF v = w THEN row ELSE draft[v]
    BY <1>1, <2>4
  <2> QED
    BY <2>3, <2>5 DEF DraftsMade
<1>3. ASSUME NEW w \in Workers, draft' = [draft EXCEPT ![w] = Null] PROVE DraftsMade'
  <2>1. \A v \in Workers : draft'[v] = IF v = w THEN Null ELSE draft[v]
    BY <1>1, <1>3
  <2> QED
    BY <2>1 DEF DraftsMade
<1>4. CASE UNCHANGED draft
  BY <1>4 DEF DraftsMade
<1>5. ASSUME NEW w \in Workers, Step(w)
      PROVE  Enrich(w) \/ UNCHANGED draft \/ draft' = [draft EXCEPT ![w] = Null]
  BY <1>5 DEF Step, Claim, Upsert, FallBack, LookById, LookByName, Look, Update, Insert,
        Write, GiveUp, Complete, Break
<1>6. Import \/ Migrate \/ UNCHANGED vars => UNCHANGED draft
  BY DEF Import, Migrate, vars, worker
<1> QED
  BY <1>2, <1>3, <1>4, <1>5, <1>6 DEF Next

LEMMA RowsKeepMade ==
    ASSUME StoreInv, DraftsMade, RowsMade, [Next]_vars
    PROVE  RowsMade'
<1>1. ASSUME NEW w \in Workers, Step(w) PROVE RowsMade'
  <2>1. CASE Quiet
    BY <2>1 DEF Quiet, RowsMade
  <2>2. CASE draft[w] # Null /\ \E n \in Nat : Wrote(w, n)
    BY <2>2 DEF Wrote, RowsMade, DraftsMade
  <2> QED
    BY <1>1, <2>1, <2>2, StepTouches DEF Touched
<1>2. CASE UNCHANGED hotels
  BY <1>2 DEF RowsMade
<1>3. Import \/ Migrate \/ UNCHANGED vars => UNCHANGED hotels
  BY DEF Import, Migrate, vars
<1> QED
  BY <1>1, <1>2, <1>3 DEF Next

-----------------------------------------------------------------------------
(***************************************************************************)
(* The places of a text.  Before orders them, so that a place of a finite  *)
(* set has a rank, every rank is taken by one place, and dedupe lists the  *)
(* first place of every word by rank.                                      *)
(***************************************************************************)

\* A set of natural numbers has a least element.
LEMMA LeastElement ==
    ASSUME NEW T, T \subseteq Nat, T # {}
    PROVE  \E x \in T : \A y \in T : x <= y
<1>1. \E x \in T : \A y \in T : ~(<<y, x>> \in OpToRel(<, Nat))
  BY NatLessThanWellFounded, WFMin, Zenon
<1>2. PICK x \in T : \A y \in T : ~(<<y, x>> \in OpToRel(<, Nat))
  BY <1>1
<1>3. ASSUME NEW y \in T PROVE x <= y
  <2>1. ~(y < x)
    BY <1>2 DEF OpToRel
  <2> QED
    BY <2>1
<1> QED
  BY <1>3

LEMMA BeforeOrders ==
    /\ \A p \in Nat \X Nat : ~Before(p, p)
    /\ \A p, q \in Nat \X Nat : p = q \/ Before(p, q) \/ Before(q, p)
    /\ \A p, q, s \in Nat \X Nat : Before(p, q) /\ Before(q, s) => Before(p, s)
BY DEF Before

Below(P, p) == {q \in P : Before(q, p)}

\* For every i there is one place with i - 1 places before it.
LEMMA RankIs ==
    ASSUME NEW P, P \subseteq Nat \X Nat, IsFiniteSet(P)
    PROVE  /\ \A i \in 1..Cardinality(P) :
                Nth(P, i) \in P /\ Cardinality(Below(P, Nth(P, i))) = i - 1
           /\ \A p \in P : \E i \in 1..Cardinality(P) : Nth(P, i) = p
<1> DEFINE n == Cardinality(P)
           rank == [p \in P |-> Cardinality(Below(P, p))]
<1>1. n \in Nat
  BY FS_CardinalityType
<1>2. ASSUME NEW p \in P
      PROVE  IsFiniteSet(Below(P, p)) /\ Cardinality(Below(P, p)) \in 0..(n - 1)
  <2>1. Below(P, p) \subseteq P \ {p}
    BY BeforeOrders DEF Below
  <2>2. IsFiniteSet(P \ {p}) /\ Cardinality(P \ {p}) = n - 1
    BY FS_RemoveElement
  <2>3. IsFiniteSet(Below(P, p)) /\ Cardinality(Below(P, p)) <= Cardinality(P \ {p})
    BY <2>1, <2>2, FS_Subset
  <2>4. Cardinality(Below(P, p)) \in Nat
    BY <2>3, FS_CardinalityType
  <2> HIDE DEF n
  <2> QED
    BY <1>1, <2>2, <2>3, <2>4
<1>3. ASSUME NEW p \in P, NEW q \in P, Before(p, q)
      PROVE  Cardinality(Below(P, p)) < Cardinality(Below(P, q))
  <2>1. Below(P, p) \cup {p} \subseteq Below(P, q)
    BY <1>3, BeforeOrders DEF Below
  <2>2. p \notin Below(P, p)
    BY BeforeOrders DEF Below
  <2>3. Cardinality(Below(P, p) \cup {p}) = Cardinality(Below(P, p)) + 1
    BY <1>2, <2>2, FS_AddElement
  <2>4. Cardinality(Below(P, p) \cup {p}) <= Cardinality(Below(P, q))
    BY <1>2, <2>1, FS_Subset
  <2> HIDE DEF n
  <2>5. Cardinality(Below(P, p)) \in Int /\ Cardinality(Below(P, q)) \in Int
    BY <1>2
  <2> QED
    BY <2>3, <2>4, <2>5
<1>4. \A p, q \in P : Cardinality(Below(P, p)) = Cardinality(Below(P, q)) => p = q
  <2> SUFFICES ASSUME NEW p \in P, NEW q \in P,
                      Cardinality(Below(P, p)) = Cardinality(Below(P, q)), p # q
               PROVE  FALSE
    OBVIOUS
  <2>1. Before(p, q) \/ Before(q, p)
    BY BeforeOrders
  <2>2. Cardinality(Below(P, p)) \in Int
    BY <1>2
  <2> QED
    BY <1>3, <2>1, <2>2
<1>5. rank \in Injection(P, 0..(n - 1))
  <2>1. rank \in [P -> 0..(n - 1)]
    BY <1>2
  <2>2. \A p, q \in P : rank[p] = rank[q] => p = q
    BY <1>4
  <2> QED
    BY <2>1, <2>2 DEF Injection, IsInjective
<1>6. IsFiniteSet(0..(n - 1)) /\ Cardinality(0..(n - 1)) = n
  <2>1. 0 \in Int /\ n - 1 \in Int
    BY <1>1
  <2>2. IsFiniteSet(0..(n - 1)) /\ Cardinality(0..(n - 1)) = IF 0 > n - 1 THEN 0 ELSE n - 1 - 0 + 1
    BY <2>1, FS_Interval
  <2> HIDE DEF n
  <2> QED
    BY <1>1, <2>2
<1>7. rank \in Surjection(P, 0..(n - 1))
  BY <1>5, <1>6, FS_Injection
<1>8. \A k \in 0..(n - 1) : \E p \in P : Cardinality(Below(P, p)) = k
  BY <1>7 DEF Surjection
<1>9. \A i : Nth(P, i) = CHOOSE p \in P : Cardinality(Below(P, p)) = i - 1
  BY DEF Nth, Below
<1>10. ASSUME NEW i \in 1..n
       PROVE  Nth(P, i) \in P /\ Cardinality(Below(P, Nth(P, i))) = i - 1
  <2>1. i - 1 \in 0..(n - 1)
    BY <1>1
  <2>2. \E p \in P : Cardinality(Below(P, p)) = i - 1
    BY <1>8, <2>1
  <2> QED
    BY <1>9, <2>2
<1>11. ASSUME NEW p \in P PROVE \E i \in 1..n : Nth(P, i) = p
  <2>1. PICK k \in 0..(n - 1) : k = Cardinality(Below(P, p))
    BY <1>2
  <2>2. PICK i \in 1..n : i - 1 = k
    <3>1. k + 1 \in 1..n /\ (k + 1) - 1 = k
      BY <1>1
    <3> QED
      BY <3>1
  <2>3. Nth(P, i) \in P /\ Cardinality(Below(P, Nth(P, i))) = Cardinality(Below(P, p))
    BY <1>10, <2>1, <2>2
  <2> QED
    BY <1>4, <2>3
<1> QED
  BY <1>10, <1>11

\* A finite set of places has a first one.
LEMMA FirstPlace ==
    ASSUME NEW P, P \subseteq Nat \X Nat, IsFiniteSet(P), P # {}
    PROVE  \E p \in P : \A q \in P : ~Before(q, p)
<1>1. Cardinality(P) \in Nat /\ Cardinality(P) # 0
  BY FS_CardinalityType, FS_EmptySet
<1>2. 1 \in 1..Cardinality(P)
  BY <1>1
<1>3. Nth(P, 1) \in P /\ Cardinality(Below(P, Nth(P, 1))) = 0
  BY <1>2, RankIs
<1>4. IsFiniteSet(Below(P, Nth(P, 1)))
  BY FS_Subset DEF Below
<1>5. Below(P, Nth(P, 1)) = {}
  BY <1>3, <1>4, FS_EmptySet
<1> QED
  BY <1>3, <1>5 DEF Below

\* What dedupe returns.
LEMMA DedupeIs ==
    ASSUME NEW items, NEW P, P \subseteq Nat \X Nat, IsFiniteSet(P), NEW max \in Nat,
           \A p \in P : Mention(items, p).word \in STRING
    PROVE  LET d == Dedupe(items, P, max)
           IN  /\ d \in Seq(STRING) /\ IsInjective(d)
               /\ \A w \in ToSet(d) : \E p \in P : w = Mention(items, p).word
               /\ \A p \in P : Mention(items, p).word \in ToSet(d) \/ Len(d) = max
<1> DEFINE kept == Firsts(items, P)
           n == Cardinality(kept)
           k == Least(max, n)
           Word(p) == Mention(items, p).word
           d == Dedupe(items, P, max)
<1>1. kept \subseteq P /\ kept \subseteq Nat \X Nat /\ IsFiniteSet(kept)
  BY FS_Subset DEF Firsts
<1>2. \A p \in kept, q \in P : Word(q) = Word(p) => ~Before(q, p)
  BY DEF Firsts
<1>3. \A p, q \in kept : Word(p) = Word(q) => p = q
  BY <1>1, <1>2, BeforeOrders
<1>4. \A p \in P : Word(p) \in STRING
  OBVIOUS
<1>5. ASSUME NEW p \in P PROVE \E q \in kept : Word(q) = Word(p)
  <2> DEFINE same == {q \in P : Word(q) = Word(p)}
  <2>1. same \subseteq P /\ same # {} /\ IsFiniteSet(same)
    BY FS_Subset
  <2>2. PICK q \in same : \A s \in same : ~Before(s, q)
    BY <2>1, FirstPlace
  <2>3. q \in kept
    BY <2>2 DEF Firsts
  <2> QED
    BY <2>2, <2>3
<1> HIDE DEF Word
<1>6. d = [i \in 1..k |-> Word(Nth(kept, i))]
  BY DEF Dedupe, Word
<1> HIDE DEF kept, d
<1>7. n \in Nat /\ k \in Nat /\ k <= n /\ (k = n \/ k = max)
  <2>1. n \in Nat
    BY <1>1, FS_CardinalityType
  <2> HIDE DEF n
  <2> QED
    BY <2>1 DEF Least
<1>8. /\ \A i \in 1..n : Nth(kept, i) \in kept
      /\ \A p \in kept : \E i \in 1..n : Nth(kept, i) = p
      /\ \A i \in 1..n : Cardinality(Below(kept, Nth(kept, i))) = i - 1
  BY <1>1, RankIs
<1> HIDE DEF n, k
<1>9. \A i \in 1..k : i \in 1..n /\ Nth(kept, i) \in kept
  BY <1>7, <1>8
<1>10. d \in Seq(STRING) /\ Len(d) = k /\ DOMAIN d = 1..k
  <2>1. \A i \in 1..k : Word(Nth(kept, i)) \in STRING
    BY <1>1, <1>4, <1>9
  <2>2. d \in [1..k -> STRING]
    BY <1>6, <2>1
  <2>3. d \in Seq(STRING)
    BY <1>7, <2>2, SeqDef
  <2> QED
    BY <1>7, <2>2, <2>3, LenProperties
<1>11. IsInjective(d)
  <2> SUFFICES ASSUME NEW a \in 1..k, NEW b \in 1..k, d[a] = d[b] PROVE a = b
    BY <1>10 DEF IsInjective
  <2>1. Nth(kept, a) = Nth(kept, b)
    BY <1>3, <1>6, <1>9
  <2>2. a - 1 = b - 1
    BY <1>8, <1>9, <2>1
  <2> QED
    BY <1>7, <2>2
<1>12. ASSUME NEW w \in ToSet(d) PROVE \E p \in P : w = Word(p)
  BY <1>1, <1>6, <1>9, <1>10 DEF ToSet
<1>13. ASSUME NEW p \in P PROVE Word(p) \in ToSet(d) \/ Len(d) = max
  <2> SUFFICES ASSUME k # max PROVE Word(p) \in ToSet(d)
    BY <1>10
  <2>1. PICK q \in kept : Word(q) = Word(p)
    BY <1>5
  <2>2. PICK i \in 1..k : Nth(kept, i) = q
    BY <1>7, <1>8
  <2> QED
    BY <1>6, <1>10, <2>1, <2>2 DEF ToSet
<1> QED
  BY <1>10, <1>11, <1>12, <1>13 DEF d, Word

\* The places of a kind are pairs of numbers, finitely many.
LEMMA PlacesAre ==
    ASSUME NEW items \in Seq(SearchResults), NEW kind
    PROVE  /\ Places(items, kind) \subseteq Nat \X Nat /\ IsFiniteSet(Places(items, kind))
           /\ \A p : p \in Places(items, kind) <=>
                \E k \in DOMAIN items : \E m \in DOMAIN items[k].mentions :
                    p = <<k, m>> /\ items[k].mentions[m].kind = kind
           /\ \A p \in Places(items, kind) : Mention(items, p) \in Terms
<1> DEFINE of == [k \in DOMAIN items |-> {k} \X DOMAIN items[k].mentions]
           all == UNION {of[k] : k \in DOMAIN items}
<1>1. Len(items) \in Nat /\ DOMAIN items = 1..Len(items)
  OBVIOUS
<1>2. ASSUME NEW k \in DOMAIN items
      PROVE  /\ k \in Nat /\ items[k].mentions \in Seq(Terms)
             /\ DOMAIN items[k].mentions \subseteq Nat
             /\ IsFiniteSet(DOMAIN items[k].mentions)
             /\ \A m \in DOMAIN items[k].mentions : items[k].mentions[m] \in Terms
  <2>1. k \in Nat /\ items[k] \in SearchResults
    BY <1>1
  <2>2. items[k].mentions \in Seq(Terms)
    BY <2>1 DEF SearchResults
  <2> DEFINE s == items[k].mentions
  <2> HIDE DEF s
  <2>3. s \in Seq(Terms)
    BY <2>2 DEF s
  <2>4. Len(s) \in Nat /\ DOMAIN s = 1..Len(s) /\ \A m \in DOMAIN s : s[m] \in Terms
    BY <2>3
  <2>5. IsFiniteSet(DOMAIN s) /\ DOMAIN s \subseteq Nat
    BY <2>4, FS_Interval
  <2> QED
    BY <2>1, <2>3, <2>4, <2>5 DEF s
<1>3. ASSUME NEW k \in DOMAIN items PROVE IsFiniteSet(of[k])
  <2>1. IsFiniteSet({k} \X DOMAIN items[k].mentions)
    BY <1>2, FS_Singleton, FS_Product
  <2> QED
    BY <2>1
<1>4. IsFiniteSet(DOMAIN items)
  BY <1>1, FS_Interval
<1>5. of \in Surjection(DOMAIN items, {of[k] : k \in DOMAIN items})
  BY DEF Surjection
<1>6. IsFiniteSet({of[k] : k \in DOMAIN items})
  BY <1>4, <1>5, FS_Surjection
<1>7. IsFiniteSet(all)
  <2>1. \A T \in {of[k] : k \in DOMAIN items} : IsFiniteSet(T)
    BY <1>3
  <2> QED
    BY <1>6, <2>1, FS_UNION
<1>8. Places(items, kind) = {p \in all : Mention(items, p).kind = kind}
  BY DEF Places
<1>9. IsFiniteSet(Places(items, kind))
  BY <1>7, <1>8, FS_Subset
<1>10. \A p : p \in all <=>
          \E k \in DOMAIN items : \E m \in DOMAIN items[k].mentions : p = <<k, m>>
  OBVIOUS
<1> HIDE DEF all, of
<1>11. \A k, m : Mention(items, <<k, m>>) = items[k].mentions[m]
  BY DEF Mention
<1>12. \A p : p \in Places(items, kind) <=>
          \E k \in DOMAIN items : \E m \in DOMAIN items[k].mentions :
              p = <<k, m>> /\ items[k].mentions[m].kind = kind
  BY <1>8, <1>10, <1>11
<1>13. ASSUME NEW p \in Places(items, kind)
       PROVE  p \in Nat \X Nat /\ Mention(items, p) \in Terms
  <2>1. PICK k \in DOMAIN items : \E m \in DOMAIN items[k].mentions : p = <<k, m>>
    BY <1>12
  <2>2. PICK m \in DOMAIN items[k].mentions : p = <<k, m>>
    BY <2>1
  <2>3. k \in Nat /\ m \in Nat /\ items[k].mentions[m] \in Terms
    BY <1>2
  <2> QED
    BY <1>11, <2>2, <2>3
<1> QED
  BY <1>9, <1>12, <1>13

\* Of several rated results one has most reviews, the first of those.
LEMMA BestRatedIs ==
    ASSUME NEW items \in Seq(SearchResults), Rated(items) # {}
    PROVE  /\ BestRated(items) \in Rated(items)
           /\ \A m \in Rated(items) : Reviews(items[m]) <= Reviews(items[BestRated(items)])
<1>1. Len(items) \in Nat /\ DOMAIN items = 1..Len(items)
  OBVIOUS
<1>2. ASSUME NEW k \in DOMAIN items PROVE k \in Nat /\ Reviews(items[k]) \in Int
  <2>1. items[k] \in SearchResults
    OBVIOUS
  <2>2. items[k].reviews \in Int \cup {Null}
    BY <2>1 DEF SearchResults
  <2> QED
    BY <1>1, <2>2 DEF Reviews
<1> DEFINE Beats(k, m) == \/ Reviews(items[m]) < Reviews(items[k])
                          \/ Reviews(items[m]) = Reviews(items[k]) /\ k < m
           Top(n) == {k \in Rated(items) : k <= n}
           Best(n) == \E k \in Top(n) : \A m \in Top(n) \ {k} : Beats(k, m)
           bad == {n \in Nat : n <= Len(items) /\ Top(n) # {} /\ ~Best(n)}
<1>3. Rated(items) \subseteq DOMAIN items
  BY DEF Rated
<1>4. bad = {}
  <2> SUFFICES ASSUME bad # {} PROVE FALSE
    OBVIOUS
  <2>1. PICK n \in bad : \A m \in bad : n <= m
    BY LeastElement
  <2>2. n \in Nat /\ n <= Len(items) /\ Top(n) # {} /\ ~Best(n)
    BY <2>1
  <2>3. n # 0
    BY <1>1, <1>3, <2>2
  <2>4. n - 1 \in Nat /\ n - 1 \notin bad /\ n - 1 <= Len(items)
    <3>1. n - 1 \in Nat /\ n - 1 <= Len(items) /\ ~(n <= n - 1)
      BY <1>1, <2>2, <2>3
    <3> HIDE DEF bad
    <3> QED
      BY <2>1, <3>1
  <2>5. \A k \in Top(n) : k \in Top(n - 1) \/ k = n
    BY <1>1, <1>2, <1>3, <2>2
  <2>6. ASSUME NEW k \in Top(n - 1) PROVE k \in Top(n) /\ k < n
    <3>1. k \in Rated(items) /\ k <= n - 1 /\ k \in Nat
      BY <1>2, <1>3
    <3>2. k <= n /\ k < n
      BY <2>2, <3>1
    <3> QED
      BY <3>1, <3>2
  <2>7. CASE n \notin Rated(items)
    <3>1. Top(n) = Top(n - 1)
      BY <2>5, <2>6, <2>7
    <3> QED
      BY <2>2, <2>4, <3>1
  <2>8. CASE n \in Rated(items)
    <3>1. n \in Top(n) /\ Top(n - 1) # {}
      <4>1. n \in Top(n)
        BY <2>2, <2>8
      <4>2. CASE Top(n - 1) = {}
        <5>1. \A k \in Top(n) : k = n
          BY <2>5, <4>2
        <5> QED
          BY <2>2, <4>1, <5>1
      <4> QED
        BY <4>1, <4>2
    <3>2. PICK k \in Top(n - 1) : \A m \in Top(n - 1) \ {k} : Beats(k, m)
      BY <2>2, <2>4, <3>1
    <3>3. k \in Top(n) /\ k \in DOMAIN items /\ n \in DOMAIN items /\ k < n
      BY <1>3, <2>6, <2>8
    <3>4. CASE Reviews(items[n]) <= Reviews(items[k])
      <4>1. Beats(k, n)
        BY <1>2, <3>3, <3>4
      <4>2. \A m \in Top(n) \ {k} : Beats(k, m)
        BY <2>5, <3>2, <4>1
      <4> QED
        BY <2>2, <3>3, <4>2
    <3>5. CASE Reviews(items[k]) < Reviews(items[n])
      <4>1. ASSUME NEW m \in Top(n) \ {n} PROVE Beats(n, m)
        <5>1. m \in Top(n - 1) /\ m \in DOMAIN items
          BY <1>3, <2>5
        <5>2. Reviews(items[m]) <= Reviews(items[k])
          <6>1. Reviews(items[m]) \in Int /\ Reviews(items[k]) \in Int
            BY <1>2, <3>3, <5>1
          <6>2. m = k \/ Beats(k, m)
            BY <3>2, <5>1
          <6> QED
            BY <6>1, <6>2
        <5> QED
          BY <1>2, <3>3, <3>5, <5>1, <5>2
      <4> QED
        BY <2>2, <3>1, <4>1
    <3> QED
      BY <1>2, <3>3, <3>4, <3>5
  <2> QED
    BY <2>7, <2>8
<1>5. Top(Len(items)) = Rated(items)
  BY <1>1, <1>3
<1>6. Len(items) \notin bad
  BY <1>4
<1>7. \E k \in Rated(items) : \A m \in Rated(items) \ {k} : Beats(k, m)
  BY <1>1, <1>5, <1>6
<1>8. BestRated(items) = CHOOSE k \in Rated(items) : \A m \in Rated(items) \ {k} : Beats(k, m)
  BY DEF BestRated
<1>9. /\ BestRated(items) \in Rated(items)
      /\ \A m \in Rated(items) \ {BestRated(items)} : Beats(BestRated(items), m)
  BY <1>7, <1>8
<1>10. ASSUME NEW m \in Rated(items)
       PROVE  Reviews(items[m]) <= Reviews(items[BestRated(items)])
  BY <1>2, <1>3, <1>9
<1> QED
  BY <1>9, <1>10

\* A rating is clamped, a count is not negative, and they come from one result.
LEMMA RatingIs ==
    ASSUME NEW seed, NEW items \in Seq(SearchResults)
    PROVE  LET f == Normalize(seed, items)
           IN  /\ f.rating \in (0..100) \cup {Null} /\ f.reviews \in Nat \cup {Null}
               /\ f.rating = Null <=> Rated(items) = {}
               /\ f.rating # Null =>
                     \E k \in Rated(items) :
                         /\ f.rating = Rating(items[k])
                         /\ f.reviews = ReviewCount(items[k])
                         /\ \A m \in Rated(items) : Reviews(items[m]) <= Reviews(items[k])
<1> DEFINE f == Normalize(seed, items)
           k == BestRated(items)
<1>1. CASE Rated(items) = {}
  BY <1>1 DEF Normalize
<1>2. CASE Rated(items) # {}
  <2>1. k \in Rated(items) /\ \A m \in Rated(items) : Reviews(items[m]) <= Reviews(items[k])
    BY <1>2, BestRatedIs
  <2>2. f.rating = Rating(items[k]) /\ f.reviews = ReviewCount(items[k])
    BY <1>2 DEF Normalize
  <2> HIDE DEF f, k
  <2>3. items[k] \in SearchResults /\ items[k].rating # Null
    BY <2>1 DEF Rated
  <2>4. items[k].rating \in Int /\ items[k].reviews \in Int \cup {Null}
    BY <2>3 DEF SearchResults
  <2>5. Rating(items[k]) \in 0..100
    <3>1. PICK v \in Int : v = items[k].rating
      BY <2>4
    <3>2. Least(100, Greatest(0, v)) \in 0..100
      BY DEF Least, Greatest
    <3> QED
      BY <3>1, <3>2 DEF Rating
  <2>6. ReviewCount(items[k]) \in Nat \cup {Null}
    BY <2>4 DEF ReviewCount, Greatest
  <2>7. f.rating # Null
    <3>1. f.rating \in Int
      BY <2>2, <2>5
    <3> QED
      BY <3>1, NullAssumption
  <2> QED
    BY <1>2, <2>1, <2>2, <2>5, <2>6, <2>7 DEF f
<1> QED
  BY <1>1, <1>2

\* dedupe lists the words at the given places.
LEMMA DedupeLists ==
    ASSUME NEW items, NEW P, P \subseteq Nat \X Nat, IsFiniteSet(P), NEW max \in Nat,
           \A p \in P : Mention(items, p).word \in STRING,
           NEW words, words = {Mention(items, p).word : p \in P}
    PROVE  Lists(Dedupe(items, P, max), words, max)
<1> DEFINE d == Dedupe(items, P, max)
<1>1. /\ IsInjective(d)
      /\ \A w \in ToSet(d) : \E p \in P : w = Mention(items, p).word
      /\ \A p \in P : Mention(items, p).word \in ToSet(d) \/ Len(d) = max
  BY DedupeIs
<1> HIDE DEF d
<1>2. ToSet(d) \subseteq words
  BY <1>1
<1>3. words \subseteq ToSet(d) \/ Len(d) = max
  BY <1>1
<1>4. Lists(d, words, max)
  BY <1>1, <1>2, <1>3 DEF Lists
<1> QED
  BY <1>4 DEF d

\* What is said of a kind is the words at its places.
LEMMA SaidIs ==
    ASSUME NEW items \in Seq(SearchResults), NEW kind
    PROVE  Said(items, kind) = {Mention(items, p).word : p \in Places(items, kind)}
<1>1. \A p : p \in Places(items, kind) <=>
         \E k \in DOMAIN items : \E m \in DOMAIN items[k].mentions :
             p = <<k, m>> /\ items[k].mentions[m].kind = kind
  BY PlacesAre
<1>2. \A k, m : Mention(items, <<k, m>>) = items[k].mentions[m]
  BY DEF Mention
<1>3. \A t : t \in UNION {ToSet(items[k].mentions) : k \in DOMAIN items} <=>
         \E k \in DOMAIN items : \E m \in DOMAIN items[k].mentions : t = items[k].mentions[m]
  BY DEF ToSet
<1>4. ASSUME NEW w \in Said(items, kind)
      PROVE  \E p \in Places(items, kind) : w = Mention(items, p).word
  <2>1. PICK t \in UNION {ToSet(items[k].mentions) : k \in DOMAIN items} :
            t.kind = kind /\ w = t.word
    BY <1>4 DEF Said
  <2>2. PICK k \in DOMAIN items : \E m \in DOMAIN items[k].mentions : t = items[k].mentions[m]
    BY <1>3, <2>1
  <2>3. PICK m \in DOMAIN items[k].mentions : t = items[k].mentions[m]
    BY <2>2
  <2>4. <<k, m>> \in Places(items, kind)
    BY <1>1, <2>1, <2>3
  <2> QED
    BY <1>2, <2>1, <2>3, <2>4
<1>5. ASSUME NEW p \in Places(items, kind) PROVE Mention(items, p).word \in Said(items, kind)
  <2>1. PICK k \in DOMAIN items : \E m \in DOMAIN items[k].mentions :
            p = <<k, m>> /\ items[k].mentions[m].kind = kind
    BY <1>1
  <2>2. PICK m \in DOMAIN items[k].mentions : p = <<k, m>> /\ items[k].mentions[m].kind = kind
    BY <2>1
  <2>3. Mention(items, p) = items[k].mentions[m]
    BY <1>2, <2>2
  <2>4. Mention(items, p) \in UNION {ToSet(items[j].mentions) : j \in DOMAIN items}
    BY <1>3, <2>3
  <2> QED
    BY <2>2, <2>3, <2>4 DEF Said
<1> QED
  BY <1>4, <1>5

\* The labels, as a text, are search results that say the patterns.
LEMMA LabelsAre ==
    /\ AllLabels \in Seq(SearchResults)
    /\ Said(AllLabels, "facility") = ToSet(Patterns)
<1> DEFINE terms == [n \in DOMAIN Patterns |-> [kind |-> "facility", word |-> Patterns[n]]]
<1>1. Patterns \in Seq(STRING) /\ Len(Patterns) \in Nat /\ DOMAIN Patterns = 1..Len(Patterns)
  BY NullAssumption
<1>2. \A n \in DOMAIN Patterns : Patterns[n] \in STRING
  BY <1>1
<1>3. terms \in [1..Len(Patterns) -> Terms]
  BY <1>1, <1>2 DEF Terms, Kinds
<1>4. terms \in Seq(Terms)
  BY <1>1, <1>3, SeqDef
<1> DEFINE all == [rating |-> Null, reviews |-> Null, mentions |-> terms]
<1>5. DOMAIN terms = DOMAIN Patterns
  OBVIOUS
<1>6. \A n \in DOMAIN Patterns : terms[n].kind = "facility" /\ terms[n].word = Patterns[n]
  OBVIOUS
<1>7. AllLabels = <<all>>
  BY DEF AllLabels
<1> HIDE DEF terms
<1>8. all \in SearchResults /\ all.mentions = terms
  BY <1>4 DEF SearchResults
<1> HIDE DEF all
<1>9. AllLabels \in Seq(SearchResults)
  BY <1>7, <1>8
<1>10. DOMAIN AllLabels = {1} /\ AllLabels[1] = all
  BY <1>7
<1>11. UNION {ToSet(AllLabels[k].mentions) : k \in DOMAIN AllLabels} = ToSet(terms)
  BY <1>8, <1>10
<1>12. Said(AllLabels, "facility") = {t.word : t \in {u \in ToSet(terms) : u.kind = "facility"}}
  BY <1>11 DEF Said
<1>13. {t.word : t \in {u \in ToSet(terms) : u.kind = "facility"}} = ToSet(Patterns)
  BY <1>5, <1>6 DEF ToSet
<1> QED
  BY <1>9, <1>12, <1>13

\* What is told of rooms, families, facilities and the places nearby.
Told(f, seed, items) ==
    /\ \A kind \in {"rooms", "family", "connected"} :
          f[kind] = IF Said(items, kind) # {} THEN TRUE ELSE Null
    /\ Lists(f.facilities, Said(items, "facility") \cap ToSet(Patterns), MaxFacilities)
    /\ Lists(f.transit, Said(items, "transit"), MaxTransit)
    /\ Lists(f.landmarks, Said(items, "landmark") \ {seed.name}, MaxLandmarks)

LEMMA TellsWhatIsSaid ==
    ASSUME NEW seed, NEW items \in Seq(SearchResults)
    PROVE  Told(Normalize(seed, items), seed, items)
<1> DEFINE f == Normalize(seed, items)
<1>1. /\ f.rooms = TriState(items, "rooms") /\ f.family = TriState(items, "family")
      /\ f.connected = TriState(items, "connected") /\ f.facilities = Facilities(items)
      /\ f.transit = Dedupe(items, Places(items, "transit"), MaxTransit)
      /\ f.landmarks = Dedupe(items, Near(seed, items), MaxLandmarks)
  BY DEF Normalize
<1> HIDE DEF f
<1>2. MaxFacilities \in Nat /\ MaxTransit \in Nat /\ MaxLandmarks \in Nat
  BY DEF MaxFacilities, MaxTransit, MaxLandmarks
<1>3. ASSUME NEW s \in Seq(SearchResults), NEW kind
      PROVE  /\ Places(s, kind) \subseteq Nat \X Nat /\ IsFiniteSet(Places(s, kind))
             /\ \A p \in Places(s, kind) : Mention(s, p).word \in STRING
  BY PlacesAre DEF Terms
<1>4. ASSUME NEW kind
      PROVE  TriState(items, kind) = IF Said(items, kind) # {} THEN TRUE ELSE Null
  <2>1. Said(items, kind) = {Mention(items, p).word : p \in Places(items, kind)}
    BY SaidIs
  <2>2. Said(items, kind) # {} <=> Places(items, kind) # {}
    BY <2>1
  <2> QED
    BY <2>2 DEF TriState
<1>5. Lists(f.transit, Said(items, "transit"), MaxTransit)
  BY <1>1, <1>2, <1>3, SaidIs, DedupeLists
<1>6. Lists(f.landmarks, Said(items, "landmark") \ {seed.name}, MaxLandmarks)
  <2>1. \A p : p \in Near(seed, items) <=>
           p \in Places(items, "landmark") /\ Mention(items, p).word # seed.name
    BY DEF Near
  <2>2. /\ Near(seed, items) \subseteq Nat \X Nat /\ IsFiniteSet(Near(seed, items))
        /\ \A p \in Near(seed, items) : Mention(items, p).word \in STRING
    <3>1. Near(seed, items) \subseteq Places(items, "landmark")
      BY <2>1
    <3> QED
      BY <1>3, <3>1, FS_Subset
  <2>3. Said(items, "landmark") \ {seed.name} = {Mention(items, p).word : p \in Near(seed, items)}
    BY <2>1, SaidIs
  <2> DEFINE P == Near(seed, items)
             words == Said(items, "landmark") \ {seed.name}
  <2> HIDE DEF P, words
  <2>4. Lists(Dedupe(items, P, MaxLandmarks), words, MaxLandmarks)
    BY <1>2, <2>2, <2>3, DedupeLists DEF P, words
  <2> QED
    BY <1>1, <2>4 DEF P, words
<1>7. Lists(f.facilities, Said(items, "facility") \cap ToSet(Patterns), MaxFacilities)
  <2> DEFINE labels == Places(AllLabels, "facility")
             P == {p \in labels : Mention(AllLabels, p).word \in Said(items, "facility")}
  <2>1. Facilities(items) = Dedupe(AllLabels, P, MaxFacilities)
    BY SaidIs DEF Facilities
  <2>2. /\ P \subseteq Nat \X Nat /\ IsFiniteSet(P)
        /\ \A p \in P : Mention(AllLabels, p).word \in STRING
    BY <1>3, LabelsAre, FS_Subset
  <2>3. {Mention(AllLabels, p).word : p \in labels} = ToSet(Patterns)
    BY SaidIs, LabelsAre
  <2> HIDE DEF labels
  <2>4. {Mention(AllLabels, p).word : p \in P} = Said(items, "facility") \cap ToSet(Patterns)
    BY <2>3
  <2> QED
    BY <1>1, <1>2, <2>1, <2>2, <2>4, DedupeLists
<1>8. \A kind \in {"rooms", "family", "connected"} :
         f[kind] = IF Said(items, kind) # {} THEN TRUE ELSE Null
  BY <1>1, <1>4
<1>9. Told(f, seed, items)
  BY <1>5, <1>6, <1>7, <1>8 DEF Told
<1> QED
  BY <1>9 DEF f

-----------------------------------------------------------------------------
(***************************************************************************)
(* The score: each of its three parts is bounded, and grows with what is   *)
(* known.                                                                  *)
(***************************************************************************)
RatingScore(n) == IF n.rating = Null THEN 1500 ELSE Least(n.rating, 50) * 100

LEMMA MagnitudeIs ==
    ASSUME NEW n \in Nat
    PROVE  /\ Magnitude(n) \in 0..5
           /\ \A m \in Nat : m <= n => Magnitude(m) <= Magnitude(n)
<1> DEFINE powers == <<10, 100, 1000, 10000, 100000>>
           Reached(k) == {i \in 1..5 : powers[i] <= k + 1}
<1>1. \A i \in 1..5 : powers[i] \in Nat
  OBVIOUS
<1>2. IsFiniteSet(1..5) /\ Cardinality(1..5) = 5
  <2>1. 1 \in Int /\ 5 \in Int
    OBVIOUS
  <2>2. IsFiniteSet(1..5) /\ Cardinality(1..5) = IF 1 > 5 THEN 0 ELSE 5 - 1 + 1
    BY <2>1, FS_Interval
  <2> QED
    BY <2>2
<1> HIDE DEF powers
<1>3. ASSUME NEW k
      PROVE  /\ IsFiniteSet(Reached(k))
             /\ Cardinality(Reached(k)) \in Nat /\ Cardinality(Reached(k)) <= 5
  <2>1. Reached(k) \subseteq 1..5
    OBVIOUS
  <2> HIDE DEF Reached
  <2> QED
    BY <1>2, <2>1, FS_Subset, FS_CardinalityType
<1>4. ASSUME NEW m \in Nat, m <= n PROVE Cardinality(Reached(m)) <= Cardinality(Reached(n))
  <2>1. Reached(m) \subseteq Reached(n)
    BY <1>1, <1>4
  <2> HIDE DEF Reached
  <2> QED
    BY <1>3, <2>1, FS_Subset
<1>5. \A k : Magnitude(k) = Cardinality(Reached(k))
  BY DEF Magnitude, powers
<1> HIDE DEF Reached
<1> QED
  BY <1>3, <1>4, <1>5

LEMMA CompletenessIs ==
    ASSUME NEW n
    PROVE  /\ Completeness(n) \in 0..4
           /\ \A m : KnownFacts(m) \ {"rating", "reviews"} \subseteq KnownFacts(n) =>
                 Completeness(m) <= Completeness(n)
<1> DEFINE all == {"facilities", "transit", "landmarks", "rooms"}
<1>1. IsFiniteSet(all) /\ Cardinality(all) = 4
  <2>1. all = ((({} \cup {"facilities"}) \cup {"transit"}) \cup {"landmarks"}) \cup {"rooms"}
    OBVIOUS
  <2>2. IsFiniteSet({"facilities"}) /\ Cardinality({"facilities"}) = 1
    BY FS_Singleton
  <2>3. /\ IsFiniteSet({"facilities"} \cup {"transit"})
        /\ Cardinality({"facilities"} \cup {"transit"}) = 2
    BY <2>2, FS_AddElement
  <2>4. /\ IsFiniteSet(({"facilities"} \cup {"transit"}) \cup {"landmarks"})
        /\ Cardinality(({"facilities"} \cup {"transit"}) \cup {"landmarks"}) = 3
    <3>1. "landmarks" \notin {"facilities"} \cup {"transit"}
      OBVIOUS
    <3> QED
      BY <2>3, <3>1, FS_AddElement
  <2>5. /\ IsFiniteSet((({"facilities"} \cup {"transit"}) \cup {"landmarks"}) \cup {"rooms"})
        /\ Cardinality((({"facilities"} \cup {"transit"}) \cup {"landmarks"}) \cup {"rooms"}) = 4
    <3>1. "rooms" \notin ({"facilities"} \cup {"transit"}) \cup {"landmarks"}
      OBVIOUS
    <3> QED
      BY <2>4, <3>1, FS_AddElement
  <2>6. all = (({"facilities"} \cup {"transit"}) \cup {"landmarks"}) \cup {"rooms"}
    OBVIOUS
  <2> QED
    BY <2>5, <2>6
<1>2. \A m : Completeness(m) = Cardinality(KnownFacts(m) \cap all)
  BY DEF Completeness
<1>3. "rating" \notin all /\ "reviews" \notin all
  OBVIOUS
<1> HIDE DEF all
<1>4. ASSUME NEW m
      PROVE  /\ IsFiniteSet(KnownFacts(m) \cap all)
             /\ Cardinality(KnownFacts(m) \cap all) \in 0..4
  <2>1. /\ IsFiniteSet(KnownFacts(m) \cap all)
        /\ Cardinality(KnownFacts(m) \cap all) <= Cardinality(all)
    BY <1>1, FS_Intersection
  <2> QED
    BY <1>1, <2>1, FS_CardinalityType
<1>5. ASSUME NEW m, KnownFacts(m) \ {"rating", "reviews"} \subseteq KnownFacts(n)
      PROVE  Cardinality(KnownFacts(m) \cap all) <= Cardinality(KnownFacts(n) \cap all)
  <2>1. KnownFacts(m) \cap all \subseteq KnownFacts(n) \cap all
    BY <1>5, <1>3
  <2> QED
    BY <1>4, <2>1, FS_Subset
<1> QED
  BY <1>2, <1>4, <1>5

\* The ranges of what the score is computed from.
Scored(n) == n.rating \in (0..100) \cup {Null} /\ n.reviews \in Nat \cup {Null}

LEMMA ScoreParts ==
    ASSUME NEW n, Scored(n)
    PROVE  /\ RatingScore(n) \in 0..5000 /\ ReviewScore(n) \in 0..3000
           /\ Completeness(n) \in 0..4
           /\ Score(n) = RatingScore(n) + ReviewScore(n) + Completeness(n) * 500
<1>1. RatingScore(n) \in 0..5000
  BY DEF Scored, RatingScore, Least
<1>2. ReviewScore(n) \in 0..3000
  <2>1. CASE n.reviews = Null
    BY <2>1 DEF ReviewScore
  <2>2. CASE n.reviews # Null
    <3>1. PICK k \in 0..5 : k = Magnitude(n.reviews)
      BY <2>2, MagnitudeIs DEF Scored
    <3>2. k * 600 \in 0..3000
      OBVIOUS
    <3> QED
      BY <2>2, <3>1, <3>2 DEF ReviewScore
  <2> QED
    BY <2>1, <2>2
<1>3. Score(n) = RatingScore(n) + ReviewScore(n) + Completeness(n) * 500
  BY DEF Score, RatingScore
<1> QED
  BY <1>1, <1>2, <1>3, CompletenessIs

LEMMA ScoreIs ==
    ASSUME NEW n, Scored(n)
    PROVE  /\ Score(n) \in 0..10000
           /\ \A m : Scored(m) /\ NowhereBehind(n, m) => Score(m) <= Score(n)
<1>1. Score(n) \in 0..10000
  <2>1. /\ RatingScore(n) \in 0..5000 /\ ReviewScore(n) \in 0..3000
        /\ Completeness(n) \in 0..4
        /\ Score(n) = RatingScore(n) + ReviewScore(n) + Completeness(n) * 500
    BY ScoreParts
  <2>2. PICK a \in 0..5000 : a = RatingScore(n)
    BY <2>1
  <2>3. PICK b \in 0..3000 : b = ReviewScore(n)
    BY <2>1
  <2>4. PICK c \in 0..4 : c = Completeness(n)
    BY <2>1
  <2>5. a + b + c * 500 \in 0..10000
    OBVIOUS
  <2> QED
    BY <2>1, <2>2, <2>3, <2>4, <2>5
<1>2. ASSUME NEW m, Scored(m), NowhereBehind(n, m) PROVE Score(m) <= Score(n)
  <2>1. KnownFacts(m) \ {"rating", "reviews"} \subseteq KnownFacts(n)
    BY <1>2 DEF NowhereBehind
  <2>2. ASSUME NEW k, Scored(k)
        PROVE  Standing(k) \in 0..100 /\ RatingScore(k) = Least(Standing(k), 50) * 100
    BY <2>2 DEF Scored, Standing, RatingScore, Least
  <2>3. RatingScore(m) <= RatingScore(n)
    <3>1. PICK a \in 0..100 : a = Standing(m)
      BY <1>2, <2>2
    <3>2. PICK b \in 0..100 : b = Standing(n)
      BY <2>2
    <3>3. a <= b
      BY <1>2, <3>1, <3>2 DEF NowhereBehind
    <3>4. Least(a, 50) * 100 <= Least(b, 50) * 100
      BY <3>3 DEF Least
    <3> QED
      BY <1>2, <2>2, <3>1, <3>2, <3>4
  <2>4. ReviewScore(m) <= ReviewScore(n)
    <3>1. CASE m.reviews = Null
      <4>1. ReviewScore(n) \in 0..3000
        BY ScoreParts
      <4>2. ReviewScore(m) = 0
        BY <3>1 DEF ReviewScore
      <4> QED
        BY <4>1, <4>2
    <3>2. CASE m.reviews # Null
      <4>1. n.reviews # Null /\ m.reviews <= n.reviews
        BY <1>2, <3>2 DEF NowhereBehind
      <4>2. m.reviews \in Nat /\ n.reviews \in Nat
        BY <1>2, <3>2, <4>1 DEF Scored
      <4>3. PICK a \in 0..5, b \in 0..5 :
                a = Magnitude(m.reviews) /\ b = Magnitude(n.reviews) /\ a <= b
        BY <4>1, <4>2, MagnitudeIs
      <4>4. a * 600 <= b * 600
        BY <4>3
      <4> QED
        BY <3>2, <4>1, <4>3, <4>4 DEF ReviewScore
    <3> QED
      BY <3>1, <3>2
  <2>5. Completeness(m) <= Completeness(n)
    BY <2>1, CompletenessIs
  <2>6. /\ RatingScore(m) \in 0..5000 /\ ReviewScore(m) \in 0..3000
        /\ Completeness(m) \in 0..4
        /\ Score(m) = RatingScore(m) + ReviewScore(m) + Completeness(m) * 500
    BY <1>2, ScoreParts
  <2>7. PICK a \in 0..5000 : a = RatingScore(m)
    BY <2>6
  <2>8. PICK b \in 0..3000 : b = ReviewScore(m)
    BY <2>6
  <2>9. PICK c \in 0..4 : c = Completeness(m)
    BY <2>6
  <2>10. /\ RatingScore(n) \in 0..5000 /\ ReviewScore(n) \in 0..3000
        /\ Completeness(n) \in 0..4
        /\ Score(n) = RatingScore(n) + ReviewScore(n) + Completeness(n) * 500
    BY ScoreParts
  <2>11. PICK d \in 0..5000 : d = RatingScore(n)
    BY <2>10
  <2>12. PICK e \in 0..3000 : e = ReviewScore(n)
    BY <2>10
  <2>13. PICK g \in 0..4 : g = Completeness(n)
    BY <2>10
  <2>14. a <= d /\ b <= e /\ c <= g
    BY <2>3, <2>4, <2>5, <2>7, <2>8, <2>9, <2>11, <2>12, <2>13
  <2>15. a + b + c * 500 <= d + e + g * 500
    BY <2>14
  <2>16. Score(m) = a + b + c * 500 /\ Score(n) = d + e + g * 500
    BY <2>6, <2>7, <2>8, <2>9, <2>10, <2>11, <2>12, <2>13
  <2> QED
    BY <2>15, <2>16
<1> QED
  BY <1>1, <1>2

-----------------------------------------------------------------------------
LEMMA RowsAlwaysMade == Spec => []RowsMade
<1>1. Init => DraftsMade /\ RowsMade
  BY EmptySeq DEF Init, DraftsMade, RowsMade
<1>2. StoreInv /\ DraftsMade /\ RowsMade /\ [Next]_vars => DraftsMade' /\ RowsMade'
  BY DraftsKeepMade, RowsKeepMade
<1> QED
  BY <1>1, <1>2, StoreAlways, PTL DEF Spec

\* What a row that was made holds.
LEMMA MadeIs ==
    ASSUME NEW row, Made(row)
    PROVE  /\ row.items \in Seq(SearchResults)
           /\ row.facts = Normalize(row.seed, row.items)
           /\ row.summary # Null => row.summary = FactSheet(row.facts)
           /\ row.score = Score(row.facts)
<1>1. PICK j \in Jobs, items \in Evidence :
         \E summary \in Summaries(Normalize(j, items)) : row = Row(j, items, summary)
  BY DEF Made
<1>2. PICK summary \in Summaries(Normalize(j, items)) : row = Row(j, items, summary)
  BY <1>1
<1>3. /\ row.seed = j /\ row.items = items /\ row.facts = Normalize(j, items)
      /\ row.summary = summary /\ row.score = Score(Normalize(j, items))
  BY <1>2 DEF Row
<1>4. items \in Seq(SearchResults)
  BY StoreAssumption
<1> QED
  BY <1>2, <1>3, <1>4 DEF Summaries

(***************************************************************************)
(* A stored summary was written from the facts stored beside it.           *)
(***************************************************************************)
THEOREM SummariesFit == Spec => []SummaryFitsFacts
<1>1. RowsMade => SummaryFitsFacts
  BY MadeIs DEF RowsMade, SummaryFitsFacts
<1> QED
  BY <1>1, RowsAlwaysMade, PTL

(***************************************************************************)
(* For any search results: the rating and review count of a row come from  *)
(* one rated result that none has more reviews than; rooms and flags are   *)
(* known exactly when they were mentioned; facilities and the places       *)
(* nearby are mentioned, not repeated, not the hotel itself, and complete  *)
(* below their caps (normalizeHotelData, normalizer.ts:71).                *)
(***************************************************************************)
THEOREM FactsEvidenced == Spec => []FactsAreEvidenced
<1>1. ASSUME RowsMade, NEW i \in DOMAIN hotels
      PROVE  /\ hotels[i].items \in Seq(SearchResults)
             /\ hotels[i].facts = Normalize(hotels[i].seed, hotels[i].items)
  BY <1>1, MadeIs DEF RowsMade
<1>2. RowsMade => FactsAreEvidenced
  <2> SUFFICES ASSUME RowsMade, NEW i \in DOMAIN hotels,
                      NEW f, f = hotels[i].facts, NEW items, items = hotels[i].items
               PROVE  /\ f.rating = Null <=> Rated(items) = {}
                      /\ f.rating # Null =>
                            \E k \in Rated(items) :
                                /\ f.rating = Rating(items[k])
                                /\ f.reviews = ReviewCount(items[k])
                                /\ \A m \in Rated(items) : Reviews(items[m]) <= Reviews(items[k])
                      /\ Told(f, hotels[i].seed, items)
    BY DEF FactsAreEvidenced, Told
  <2>1. items \in Seq(SearchResults) /\ f = Normalize(hotels[i].seed, items)
    BY <1>1
  <2> QED
    BY <2>1, RatingIs, TellsWhatIsSaid
<1> QED
  BY <1>2, RowsAlwaysMade, PTL

(***************************************************************************)
(* For any search results: scores lie between 0 and 1, and a hotel that is *)
(* nowhere behind another one in what the score counts does not rank below *)
(* it, an unknown rating standing for 1.5 (computeRankingScore,            *)
(* normalizer.ts:152).                                                     *)
(***************************************************************************)
THEOREM RankingFollowsEvidence == Spec => []RankedByEvidence
<1>1. ASSUME RowsMade, NEW i \in DOMAIN hotels
      PROVE  Scored(hotels[i].facts) /\ hotels[i].score = Score(hotels[i].facts)
  <2>1. /\ hotels[i].items \in Seq(SearchResults) /\ hotels[i].score = Score(hotels[i].facts)
        /\ hotels[i].facts = Normalize(hotels[i].seed, hotels[i].items)
    BY <1>1, MadeIs DEF RowsMade
  <2> QED
    BY <2>1, RatingIs DEF Scored
<1>2. RowsMade => RankedByEvidence
  BY <1>1, ScoreIs DEF RankedByEvidence
<1> QED
  BY <1>2, RowsAlwaysMade, PTL
=============================================================================
