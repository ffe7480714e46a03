-------------------------- MODULE AdminPanelProofs --------------------------
(***************************************************************************)
(* Theorems about AdminPanel, for any number of tabs, runs and slots.      *)
(***************************************************************************)
EXTENDS AdminPanel, TLAPS

-----------------------------------------------------------------------------
(***************************************************************************)
(* The inductive invariant, by slots: a request without a tab, or late, is *)
(* with the server; the button and stepPending tell whether a              *)
(* tab has its one task of the loop, and which; the tasks of the loop know *)
(* their run, which was started; no two that are not late name the same    *)
(* run, except a step that is being executed and its lost answer; and no   *)
(* two of tabs do.                                                         *)
(***************************************************************************)
Used(s) == task[s] # Free
InLoop(s, t) == Used(s) /\ task[s].tab = t /\ task[s].kind \in Loop

Orphans == \A s \in Slots : Used(s) /\ task[s].tab = NoTab => Waiting(s)
LateOnes == \A s \in Slots : Used(s) /\ task[s].late => task[s].tab = NoTab
OneLoop == \A t \in Tabs : \A s, q \in Slots : InLoop(s, t) /\ InLoop(q, t) => s = q
Buttons == \A t \in Tabs : running[t] <=> \E s \in Slots : InLoop(s, t)
PendingTells ==
    \A t \in Tabs :
        stepPending[t] <=> \E s \in Slots : InLoop(s, t) /\ task[s].kind \in {"pause", "step"}
Loops == OneLoop /\ Buttons /\ PendingTells

Stepping(s) ==
    \/ task[s].kind \in {"step", "pause", "retry"}
    \/ task[s].kind = "start" /\ task[s].reply = "running"
Named ==
    \A s \in Slots :
        /\ Used(s) /\ Stepping(s) => task[s].run \in Runs
        /\ Used(s) /\ task[s].kind \in {"pause", "retry"} => task[s].reply = "none"
Known == \A s \in Slots : Used(s) /\ task[s].run \in Runs => row[task[s].run] # "absent"
Live(s, r) == Used(s) /\ task[s].run = r /\ task[s].reply # "error" /\ ~task[s].late
Apart == \A r \in Runs : \A s, q \in Slots : Live(s, r) /\ Live(q, r) => s = q
Owned(s, r) == Used(s) /\ task[s].run = r /\ task[s].tab # NoTab
Owners == \A r \in Runs : \A s, q \in Slots : Owned(s, r) /\ Owned(q, r) => s = q
RunsKept == Named /\ Known /\ Apart /\ Owners

PanelInv == TypeOK /\ Orphans /\ LateOnes /\ Loops /\ RunsKept

LEMMA NewType ==
    ASSUME TypeOK, NEW t \in Tabs, NEW kind \in Requests \cup Loop, NEW r \in Runs \cup {NoRun}
    PROVE  New(t, kind, r) \in Task
BY DEF New, Task, TypeOK

LEMMA TaskType ==
    ASSUME TypeOK, NEW s \in Slots, Used(s)
    PROVE  task[s] \in Task
BY DEF TypeOK, Used

LEMMA PanelInit == Init => PanelInv
BY DEF Init, PanelInv, TypeOK, Orphans, LateOnes, Loops, OneLoop, Buttons, PendingTells, RunsKept,
       Named, Known, Apart, Owners, Used, InLoop, Live, Owned

-----------------------------------------------------------------------------
\* What a slot holds after its request was answered.
Answers == {"none", "ok", "running", "ended", "401", "504", "error"}

LEMMA AnswerType ==
    ASSUME TypeOK, NEW s \in Slots, Used(s), NEW reply \in Answers,
           NEW r \in Runs \cup {NoRun}, NEW session \in BOOLEAN,
           Answer(s, reply, r, session)
    PROVE  /\ task' \in [Slots -> Task \cup {Free}]
           /\ \A q \in Slots \ {s} : task'[q] = task[q]
           /\ task[s].tab = NoTab => task'[s] = Free
           /\ task[s].tab # NoTab =>
                 /\ task'[s] # Free
                 /\ task'[s].tab = task[s].tab /\ task'[s].kind = task[s].kind
                 /\ task'[s].run = r /\ task'[s].reply = reply
                 /\ task'[s].late = task[s].late
<1>1. task[s] \in Task /\ task \in [Slots -> Task \cup {Free}]
  BY TaskType DEF TypeOK
<1> DEFINE new == [task[s] EXCEPT !.reply = reply, !.run = r, !.session = session]
<1>2. new \in Task
  BY <1>1 DEF Task, Answers
<1>3. task' = [task EXCEPT ![s] = IF task[s].tab = NoTab THEN Free ELSE new]
  BY DEF Answer
<1>4. /\ new.tab = task[s].tab /\ new.kind = task[s].kind
      /\ new.run = r /\ new.reply = reply /\ new.late = task[s].late
  BY <1>1 DEF Task
<1>5. new # Free
  BY <1>2, PanelAssumption
<1> HIDE DEF new
<1> QED
  BY <1>1, <1>2, <1>3, <1>4, <1>5

\* A step that leaves the tasks of every tab's loop, and its flags, alone.
LEMMA LoopsKept ==
    ASSUME Loops, UNCHANGED <<running, stepPending>>,
           \A t \in Tabs : \A s \in Slots :
              /\ InLoop(s, t)' <=> InLoop(s, t)
              /\ InLoop(s, t) => task'[s].kind = task[s].kind
    PROVE  Loops'
BY DEF Loops, OneLoop, Buttons, PendingTells, InLoop, Used

\* An answer that names the run of its request, or a run nobody knew.
LEMMA AnswerInv ==
    ASSUME PanelInv, NEW s \in Slots, Waiting(s), NEW reply \in Answers \ {"none"},
           NEW r \in Runs \cup {NoRun}, NEW session \in BOOLEAN,
           Answer(s, reply, r, session),
           r \in {task[s].run, NoRun} \/ row[r] = "absent",
           task[s].kind = "step" => r = task[s].run,
           task[s].kind = "start" /\ reply = "running" => r \in Runs,
           row' \in [Runs -> {"absent", "running", "stale", "ended"}],
           \A x \in Runs : row[x] # "absent" => row'[x] # "absent",
           r \in Runs => row'[r] # "absent",
           UNCHANGED <<cookie, tab>>
    PROVE  PanelInv'
<1>0. TypeOK /\ Orphans /\ LateOnes /\ Loops /\ Named /\ Known /\ Apart /\ Owners /\ Used(s)
  BY DEF PanelInv, RunsKept, Waiting, Used
<1>1. /\ task' \in [Slots -> Task \cup {Free}]
      /\ \A q \in Slots \ {s} : task'[q] = task[q]
      /\ task[s].tab = NoTab => task'[s] = Free
      /\ task[s].tab # NoTab =>
            /\ task'[s] # Free
            /\ task'[s].tab = task[s].tab /\ task'[s].kind = task[s].kind
            /\ task'[s].run = r /\ task'[s].reply = reply /\ task'[s].late = task[s].late
  <2>1. reply \in Answers
    OBVIOUS
  <2> QED
    BY <1>0, <2>1, AnswerType
<1>2. TypeOK'
  BY <1>0, <1>1 DEF TypeOK, tab
<1>3. Orphans' /\ LateOnes'
  BY <1>0, <1>1 DEF Orphans, LateOnes, Used, Waiting
<1>4. Loops'
  <2>1. \A t \in Tabs : \A q \in Slots :
              /\ InLoop(q, t)' <=> InLoop(q, t)
              /\ InLoop(q, t) => task'[q].kind = task[q].kind
    BY <1>0, <1>1, PanelAssumption DEF InLoop, Used
  <2>2. UNCHANGED <<running, stepPending>>
    BY DEF tab
  <2> QED
    BY <1>0, <2>1, <2>2, LoopsKept
<1>5. Named'
  <2>1. task[s].kind \in Requests
    BY DEF Waiting
  <2> QED
    BY <1>0, <1>1, <2>1, PanelAssumption
       DEF Named, Stepping, Used, Requests, Guarded
<1>6. Known'
  BY <1>0, <1>1 DEF Known, Used
<1>7. Apart'
  <2>1. task[s].reply = "none"
    BY DEF Waiting
  <2>2. ASSUME NEW x \in Runs, NEW q \in Slots, q # s, Live(q, x), Live(s, x)'
        PROVE  FALSE
    <3>1. r = x /\ task[s].tab # NoTab /\ ~task[s].late
      BY <1>1, <2>2 DEF Live, Used
    <3>2. CASE r = task[s].run
      BY <1>0, <2>1, <2>2, <3>1, <3>2 DEF Apart, Live
    <3>3. CASE row[r] = "absent"
      BY <1>0, <2>2, <3>1, <3>3 DEF Known, Live
    <3> QED
      BY <2>2, <3>1, <3>2, <3>3, PanelAssumption
  <2>3. \A x \in Runs : \A q \in Slots \ {s} : Live(q, x)' => Live(q, x)
    BY <1>1 DEF Live, Used
  <2> QED
    BY <1>0, <2>2, <2>3 DEF Apart
<1>8. Owners'
  <2>1. ASSUME NEW x \in Runs, NEW q \in Slots, q # s, Owned(q, x), Owned(s, x)'
        PROVE  FALSE
    <3>1. r = x /\ task[s].tab # NoTab
      BY <1>1, <2>1 DEF Owned, Used
    <3>2. CASE r = task[s].run
      BY <1>0, <2>1, <3>1, <3>2 DEF Owners, Owned
    <3>3. CASE row[r] = "absent"
      BY <1>0, <2>1, <3>1, <3>3 DEF Known, Owned
    <3> QED
      BY <2>1, <3>1, <3>2, <3>3, PanelAssumption
  <2>2. \A x \in Runs : \A q \in Slots \ {s} : Owned(q, x)' => Owned(q, x)
    BY <1>1 DEF Owned, Used
  <2> QED
    BY <1>0, <2>1, <2>2 DEF Owners
<1> QED
  BY <1>2, <1>3, <1>4, <1>5, <1>6, <1>7, <1>8 DEF PanelInv, RunsKept

\* The handlers of the server.
LEMMA WaitingTask ==
    ASSUME PanelInv, NEW s \in Slots, Waiting(s)
    PROVE  /\ task[s] \in Task /\ task[s].reply = "none"
           /\ task[s].run \in Runs \cup {NoRun}
           /\ task[s].run \in Runs => row[task[s].run] # "absent"
           /\ task[s].kind = "step" => task[s].run \in Runs
<1>1. task[s] \in Task
  BY TaskType DEF PanelInv, Waiting, Used
<1> QED
  BY <1>1 DEF PanelInv, RunsKept, Known, Named, Stepping, Waiting, Used, Task

\* A tab is answered in place of the handler, which goes on without it.
LEMMA LeaveType ==
    ASSUME PanelInv, NEW s \in Slots, Waiting(s), NEW reply \in {"error", "504"},
           LeaveAtWork(s, reply)
    PROVE  \E q \in Slots \ {s} :
              /\ task[q] = Free /\ task[s].tab # NoTab /\ ~task[s].late
              /\ task' \in [Slots -> Task \cup {Free}]
              /\ \A p \in Slots \ {s, q} : task'[p] = task[p]
              /\ \A p \in {s, q} : /\ task'[p] # Free /\ task'[p].kind = task[s].kind
                                    /\ task'[p].run = task[s].run
              /\ task'[s].tab = task[s].tab /\ task'[s].reply = reply
              /\ task'[q].tab = NoTab /\ task'[q].reply = "none"
              /\ ~task'[s].late /\ (task'[q].late <=> reply = "504")
<1>1. PICK q \in Slots :
          /\ task[s].tab # NoTab /\ FirstFree(q)
          /\ task' = [task EXCEPT
                ![s] = [@ EXCEPT !.reply = reply, !.session = FALSE],
                ![q] = [task[s] EXCEPT !.tab = NoTab, !.late = reply = "504"]]
  BY DEF LeaveAtWork
<1> DEFINE lost == [task[s] EXCEPT !.reply = reply, !.session = FALSE]
           orphan == [task[s] EXCEPT !.tab = NoTab, !.late = reply = "504"]
<1>2. task[s] \in Task /\ task[s].reply = "none" /\ Used(s)
  BY WaitingTask DEF Waiting, Used
<1>3. ~task[s].late
  BY <1>1, <1>2 DEF PanelInv, LateOnes
<1>4. lost \in Task /\ orphan \in Task
  BY <1>2 DEF Task
<1>5. /\ lost.tab = task[s].tab /\ lost.kind = task[s].kind
      /\ lost.run = task[s].run /\ lost.reply = reply /\ lost.late = task[s].late
      /\ orphan.tab = NoTab /\ orphan.kind = task[s].kind
      /\ orphan.run = task[s].run /\ orphan.reply = "none"
      /\ orphan.late = (reply = "504")
  BY <1>2 DEF Task
<1>6. lost # Free /\ orphan # Free
  BY <1>4, PanelAssumption
<1>7. q # s /\ task[q] = Free
  BY <1>1, <1>2 DEF FirstFree, Used
<1>8. task \in [Slots -> Task \cup {Free}]
  BY DEF PanelInv, TypeOK
<1>9. task' = [task EXCEPT ![s] = lost, ![q] = orphan]
  BY <1>1
<1> HIDE DEF lost, orphan
<1>10. /\ task'[s] = lost /\ task'[q] = orphan
       /\ \A p \in Slots \ {s, q} : task'[p] = task[p]
       /\ task' \in [Slots -> Task \cup {Free}]
  BY <1>4, <1>7, <1>8, <1>9
<1> QED
  BY <1>1, <1>3, <1>5, <1>6, <1>7, <1>10

LEMMA LeaveInv ==
    ASSUME PanelInv, NEW s \in Slots, Waiting(s), NEW reply \in {"error", "504"},
           LeaveAtWork(s, reply), UNCHANGED <<row, cookie, tab>>
    PROVE  PanelInv'
<1>1. /\ TypeOK /\ Orphans /\ LateOnes /\ Loops /\ Named /\ Known /\ Apart /\ Owners
      /\ Used(s) /\ task[s].reply = "none" /\ task[s].kind \in Requests
  BY DEF PanelInv, RunsKept, Waiting, Used
<1>2. PICK q \in Slots \ {s} :
          /\ task[q] = Free /\ task[s].tab # NoTab /\ ~task[s].late
          /\ task' \in [Slots -> Task \cup {Free}]
          /\ \A p \in Slots \ {s, q} : task'[p] = task[p]
          /\ \A p \in {s, q} : /\ task'[p] # Free /\ task'[p].kind = task[s].kind
                                /\ task'[p].run = task[s].run
          /\ task'[s].tab = task[s].tab /\ task'[s].reply = reply
          /\ task'[q].tab = NoTab /\ task'[q].reply = "none"
          /\ ~task'[s].late /\ (task'[q].late <=> reply = "504")
  BY LeaveType
<1>3. TypeOK'
  BY <1>1, <1>2 DEF TypeOK, tab
<1>4. Orphans' /\ LateOnes'
  BY <1>1, <1>2 DEF Orphans, LateOnes, Used, Waiting
<1>5. Loops'
  <2>1. \A t \in Tabs : \A p \in Slots :
            /\ InLoop(p, t)' <=> InLoop(p, t)
            /\ InLoop(p, t) => task'[p].kind = task[p].kind
    BY <1>1, <1>2, PanelAssumption DEF InLoop, Used
  <2>2. UNCHANGED <<running, stepPending>>
    BY DEF tab
  <2> QED
    BY <1>1, <2>1, <2>2, LoopsKept
<1>6. Named'
  <2>1. task[s].kind \notin {"pause", "retry"} /\ reply # "running"
    BY <1>1 DEF Requests, Guarded
  <2> QED
    BY <1>1, <1>2, <2>1 DEF Named, Stepping, Used
<1>7. Known'
  BY <1>1, <1>2 DEF Known, Used
<1>8. Apart'
  <2>1. \A r \in Runs : ~(Live(s, r)' /\ Live(q, r)')
    BY <1>2 DEF Live
  <2>2. \A r \in Runs : Live(s, r)' \/ Live(q, r)' => Live(s, r)
    BY <1>1, <1>2 DEF Live
  <2>3. \A r \in Runs : \A p \in Slots \ {s, q} : Live(p, r)' => Live(p, r)
    BY <1>2 DEF Live, Used
  <2> QED
    BY <1>1, <2>1, <2>2, <2>3 DEF Apart
<1>9. Owners'
  <2>1. \A r \in Runs : ~Owned(q, r)' /\ (Owned(s, r)' => Owned(s, r))
    BY <1>1, <1>2 DEF Owned
  <2>2. \A r \in Runs : \A p \in Slots \ {s, q} : Owned(p, r)' => Owned(p, r)
    BY <1>2 DEF Owned, Used
  <2> QED
    BY <1>1, <2>1, <2>2 DEF Owners
<1> QED
  BY <1>3, <1>4, <1>5, <1>6, <1>7, <1>8, <1>9 DEF PanelInv, RunsKept

LEMMA ServeInv ==
    ASSUME PanelInv, NEW s \in Slots, Serve(s)
    PROVE  PanelInv'
<1>0. /\ row \in [Runs -> {"absent", "running", "stale", "ended"}]
      /\ TRUE \in BOOLEAN /\ FALSE \in BOOLEAN
      /\ NoRun \in Runs \cup {NoRun} /\ NoRun \notin Runs
  BY PanelAssumption DEF PanelInv, TypeOK
<1>1. CASE Deny(s)
  <2>1. Waiting(s)
    BY <1>1 DEF Deny
  <2>2. "401" \in Answers \ {"none"} /\ "401" # "running"
    BY DEF Answers
  <2> QED
    BY <1>0, <1>1, <2>1, <2>2, WaitingTask, AnswerInv DEF Deny
<1>2. CASE Lose(s) \/ Overrun(s)
  <2>1. Waiting(s)
    BY <1>2 DEF Lose, Overrun, Admitted, Asked
  <2>2. "error" \in Answers \ {"none"} /\ "error" # "running"
    BY DEF Answers
  <2>3. CASE Answer(s, "error", task[s].run, FALSE) /\ Lose(s)
    BY <1>0, <2>1, <2>2, <2>3, WaitingTask, AnswerInv DEF Lose
  <2>4. CASE \E reply \in {"error", "504"} : LeaveAtWork(s, reply)
    <3>1. UNCHANGED <<row, cookie, tab>>
      BY <1>2 DEF Lose, Overrun
    <3> QED
      BY <2>1, <2>4, <3>1, LeaveInv
  <2> QED
    BY <1>2, <2>3, <2>4 DEF Lose, Overrun
<1>3. CASE Status(s)
  <2>1. Waiting(s) /\ task[s].kind = "check"
    BY <1>3 DEF Status, Admitted, Asked
  <2>2. "ok" \in Answers \ {"none"} /\ "ok" # "running"
    BY DEF Answers
  <2> QED
    BY <1>0, <1>3, <2>1, <2>2, WaitingTask, AnswerInv DEF Status
<1>4. CASE Create(s)
  <2>1. Waiting(s) /\ task[s].kind = "start" /\ UNCHANGED <<cookie, tab>>
    BY <1>4 DEF Create, Admitted, Asked
  <2>2. {"error", "running"} \subseteq Answers \ {"none"} /\ "error" # "running"
    BY DEF Answers
  <2>3. CASE Answer(s, "error", NoRun, FALSE) /\ UNCHANGED row
    BY <1>0, <2>1, <2>2, <2>3, WaitingTask, AnswerInv
  <2>4. ASSUME NEW r \in Runs, row[r] = "absent", row' = [row EXCEPT ![r] = "running"],
               NEW reply \in {"running", "error"}, Answer(s, reply, r, FALSE)
        PROVE  PanelInv'
    <3>1. /\ row' \in [Runs -> {"absent", "running", "stale", "ended"}]
          /\ \A x \in Runs : row[x] # "absent" => row'[x] # "absent"
          /\ row'[r] # "absent"
      BY <1>0, <2>4
    <3>2. task[s].kind # "step"
      BY <2>1
    <3> QED
      BY <1>0, <2>1, <2>2, <2>4, <3>1, <3>2, AnswerInv
  <2> QED
    BY <1>4, <2>3, <2>4 DEF Create
<1>5. CASE Advance(s)
  <2> DEFINE r == task[s].run
  <2>1. Waiting(s) /\ task[s].kind = "step" /\ UNCHANGED <<cookie, tab>>
    BY <1>5 DEF Advance, Admitted, Asked
  <2>2. r \in Runs /\ row[r] # "absent"
    BY <2>1, WaitingTask
  <2>3. PICK reply \in {"ended", "running", "error", "504"} :
            Answer(s, reply, r, FALSE)
    BY <1>5 DEF Advance
  <2>4. /\ row' \in [Runs -> {"absent", "running", "stale", "ended"}]
        /\ \A x \in Runs : row[x] # "absent" => row'[x] # "absent"
    BY <1>0, <1>5, <2>2 DEF Advance
  <2>5. reply \in Answers \ {"none"}
    BY <2>3 DEF Answers
  <2> QED
    BY <1>0, <2>1, <2>2, <2>3, <2>4, <2>5, AnswerInv
<1>6. CASE Issue(s) \/ Clear(s)
  <2>1. /\ Waiting(s) /\ task[s].kind \in {"login", "logout"} /\ UNCHANGED <<row, cookie, tab>>
        /\ \E session \in BOOLEAN : Answer(s, "ok", NoRun, session)
    BY <1>6 DEF Issue, Clear, Asked
  <2>2. "ok" \in Answers \ {"none"} /\ "ok" # "running"
    BY DEF Answers
  <2> QED
    BY <1>0, <2>1, <2>2, AnswerInv
<1> QED
  BY <1>1, <1>2, <1>3, <1>4, <1>5, <1>6 DEF Serve

-----------------------------------------------------------------------------
\* A handler of a tab that ends with its task: the loop ends, or, if the task
\* was not of the loop, goes on.
LEMMA FinishInv ==
    ASSUME PanelInv, NEW s \in Slots, NEW t \in Tabs, Used(s), task[s].tab = t,
           Finish(s), UNCHANGED row,
           cookie' \in BOOLEAN, authed' \in [Tabs -> BOOLEAN],
           \/ task[s].kind \notin Loop /\ UNCHANGED <<running, stepPending>>
           \/ /\ task[s].kind \in Loop
              /\ running' = [running EXCEPT ![t] = FALSE]
              /\ stepPending' = [stepPending EXCEPT ![t] = FALSE]
    PROVE  PanelInv'
<1>0. TypeOK /\ Orphans /\ LateOnes /\ Loops /\ Named /\ Known /\ Apart /\ Owners
  BY DEF PanelInv, RunsKept
<1>1. /\ task' \in [Slots -> Task \cup {Free}]
      /\ \A q \in Slots \ {s} : task'[q] = task[q]
      /\ task'[s] = Free
  BY <1>0 DEF Finish, TypeOK
<1>2. TypeOK'
  BY <1>0, <1>1 DEF TypeOK
<1>3. Orphans' /\ LateOnes'
  BY <1>0, <1>1 DEF Orphans, LateOnes, Used, Waiting
<1>4. Loops'
  <2>1. CASE task[s].kind \notin Loop /\ UNCHANGED <<running, stepPending>>
    <3>1. \A u \in Tabs : \A q \in Slots :
              /\ InLoop(q, u)' <=> InLoop(q, u)
              /\ InLoop(q, u) => task'[q].kind = task[q].kind
      BY <1>1, <2>1 DEF InLoop, Used
    <3> QED
      BY <1>0, <2>1, <3>1, LoopsKept
  <2>2. CASE /\ task[s].kind \in Loop
             /\ running' = [running EXCEPT ![t] = FALSE]
             /\ stepPending' = [stepPending EXCEPT ![t] = FALSE]
    <3>1. \A u \in Tabs : \A q \in Slots :
              /\ InLoop(q, u)' <=> InLoop(q, u) /\ u # t
              /\ InLoop(q, u)' => task'[q].kind = task[q].kind
      BY <1>0, <1>1, <2>2 DEF Loops, OneLoop, InLoop, Used
    <3>2. /\ running'[t] = FALSE /\ \A u \in Tabs \ {t} : running'[u] = running[u]
          /\ stepPending'[t] = FALSE /\ \A u \in Tabs \ {t} : stepPending'[u] = stepPending[u]
      BY <1>0, <2>2 DEF TypeOK
    <3>3. OneLoop'
      BY <1>0, <3>1 DEF Loops, OneLoop
    <3>4. Buttons'
      BY <1>0, <3>1, <3>2 DEF Loops, Buttons
    <3>5. PendingTells'
      BY <1>0, <3>1, <3>2 DEF Loops, PendingTells
    <3> QED
      BY <3>3, <3>4, <3>5 DEF Loops
  <2> QED
    BY <2>1, <2>2
<1>5. Named' /\ Known' /\ Apart' /\ Owners'
  BY <1>0, <1>1 DEF Named, Known, Apart, Owners, Live, Owned, Stepping, Used
<1> QED
  BY <1>2, <1>3, <1>4, <1>5 DEF PanelInv, RunsKept

\* A handler that continues the loop.
LEMMA ThenInv ==
    ASSUME PanelInv, NEW s \in Slots, NEW t \in Tabs, InLoop(s, t),
           task[s].run \in Runs, task[s].reply # "error",
           NEW kind \in {"step", "pause", "retry"}, Then(s, kind),
           stepPending' = [stepPending EXCEPT ![t] = kind # "retry"],
           UNCHANGED <<row, cookie, authed, running>>
    PROVE  PanelInv'
<1>0. TypeOK /\ Orphans /\ LateOnes /\ Loops /\ Named /\ Known /\ Apart /\ Owners /\ Used(s)
  BY DEF PanelInv, RunsKept, InLoop
<1> DEFINE new == New(t, kind, task[s].run)
<1>1. /\ new \in Task /\ new.tab = t /\ new.kind = kind
      /\ new.run = task[s].run /\ new.reply = "none" /\ ~new.late
  <2>1. kind \in Requests \cup Loop
    BY DEF Loop
  <2> QED
    BY <1>0, <2>1, NewType DEF New
<1>2. new # Free
  BY <1>1, PanelAssumption
<1>3. task' = [task EXCEPT ![s] = new]
  BY DEF Then, InLoop
<1> HIDE DEF new
<1>4. /\ task' \in [Slots -> Task \cup {Free}]
      /\ \A q \in Slots \ {s} : task'[q] = task[q]
      /\ task'[s] = new
  BY <1>0, <1>1, <1>3 DEF TypeOK
<1>5. stepPending' \in [Tabs -> BOOLEAN]
  BY <1>0 DEF TypeOK
<1>6. TypeOK'
  BY <1>0, <1>4, <1>5 DEF TypeOK
<1>7. Orphans' /\ LateOnes'
  BY <1>0, <1>1, <1>4, PanelAssumption DEF Orphans, LateOnes, Used, Waiting
<1>8. Loops'
  <2>1. \A u \in Tabs : \A q \in Slots : InLoop(q, u)' <=> InLoop(q, u)
    BY <1>0, <1>1, <1>2, <1>4 DEF InLoop, Used, Loop
  <2>2. OneLoop' /\ Buttons'
    BY <1>0, <2>1 DEF Loops, OneLoop, Buttons
  <2>3. \A u \in Tabs \ {t} : \A q \in Slots :
            InLoop(q, u) => task'[q] = task[q] /\ stepPending'[u] = stepPending[u]
    BY <1>0, <1>4 DEF Loops, OneLoop, InLoop, TypeOK
  <2>4. \A u \in Tabs \ {t} : stepPending'[u] = stepPending[u]
    BY <1>0 DEF TypeOK
  <2>5. stepPending'[t] <=> kind # "retry"
    BY <1>0 DEF TypeOK
  <2>6. \A q \in Slots : InLoop(q, t)' => q = s /\ task'[q].kind = kind
    BY <1>0, <1>1, <1>4, <2>1 DEF Loops, OneLoop
  <2>7. InLoop(s, t)' /\ task'[s].kind = kind
    BY <1>1, <1>4, <2>1
  <2>8. PendingTells'
    BY <1>0, <2>1, <2>3, <2>4, <2>5, <2>6, <2>7 DEF Loops, PendingTells
  <2> QED
    BY <2>2, <2>8 DEF Loops
<1>9. Named' /\ Known'
  BY <1>0, <1>1, <1>4 DEF Named, Known, Stepping, Used
<1>10. Apart'
  <2>1. ~task[s].late
    BY <1>0, PanelAssumption DEF InLoop, LateOnes
  <2>2. \A r \in Runs : \A q \in Slots : Live(q, r)' => Live(q, r)
    BY <1>0, <1>1, <1>4, <2>1 DEF Live, Used
  <2> QED
    BY <1>0, <2>2 DEF Apart
<1>11. Owners'
  <2>1. \A r \in Runs : \A q \in Slots : Owned(q, r)' => Owned(q, r)
    BY <1>0, <1>1, <1>4, PanelAssumption DEF Owned, Used, InLoop
  <2> QED
    BY <1>0, <2>1 DEF Owners
<1> QED
  BY <1>6, <1>7, <1>8, <1>9, <1>10, <1>11 DEF PanelInv, RunsKept

\* The task of an answer or a timer, and what is pending meanwhile.
LEMMA LoopTask ==
    ASSUME PanelInv, NEW s \in Slots, Used(s), task[s].kind \in Loop, task[s].tab # NoTab
    PROVE  /\ task[s] \in Task /\ task[s].tab \in Tabs /\ InLoop(s, task[s].tab)
           /\ stepPending[task[s].tab] <=> task[s].kind \in {"pause", "step"}
           /\ Stepping(s) => task[s].run \in Runs
<1>1. task[s] \in Task
  BY TaskType DEF PanelInv
<1>2. task[s].tab \in Tabs /\ InLoop(s, task[s].tab)
  BY <1>1 DEF Task, InLoop
<1> QED
  BY <1>1, <1>2 DEF PanelInv, Loops, OneLoop, PendingTells, RunsKept, Named

LEMMA HandleInv ==
    ASSUME PanelInv, NEW s \in Slots, Handle(s)
    PROVE  PanelInv'
<1> DEFINE t == task[s].tab
<1>0. cookie \in BOOLEAN /\ authed \in [Tabs -> BOOLEAN] /\ running \in [Tabs -> BOOLEAN]
      /\ stepPending \in [Tabs -> BOOLEAN]
  BY DEF PanelInv, TypeOK
<1>1. CASE Checked(s) \/ LoggedIn(s) \/ LoggedOut(s)
  <2>1. Used(s) /\ t # NoTab /\ task[s].kind \in {"check", "login", "logout"}
    BY <1>1 DEF Checked, LoggedIn, LoggedOut, Answered, Used
  <2>2. task[s] \in Task /\ t \in Tabs
    BY <2>1, TaskType DEF PanelInv, Task
  <2>3. task[s].session \in BOOLEAN
    BY <2>2 DEF Task
  <2>4. task[s].kind \notin Loop
    BY <2>1 DEF Loop
  <2>5. Finish(s) /\ UNCHANGED <<row, stepPending>>
    BY <1>1 DEF Checked, LoggedIn, LoggedOut
  <2>6. authed' \in [Tabs -> BOOLEAN] /\ cookie' \in BOOLEAN
    BY <1>0, <1>1, <2>2, <2>3 DEF Checked, LoggedIn, LoggedOut, Become
  <2>7. UNCHANGED running
    BY <1>0, <1>1, <2>2 DEF Checked, LoggedIn, LoggedOut, Become
  <2> HIDE DEF t
  <2> QED
    BY <2>1, <2>2, <2>4, <2>5, <2>6, <2>7, FinishInv DEF t
<1>2. CASE Started(s) \/ Stepped(s)
  <2>1. Used(s) /\ t # NoTab /\ task[s].kind \in {"start", "step"}
    BY <1>2 DEF Started, Stepped, Answered, Used
  <2>2. /\ task[s] \in Task /\ t \in Tabs /\ InLoop(s, t) /\ task[s].kind \in Loop
        /\ stepPending[t] <=> task[s].kind = "step"
        /\ Stepping(s) => task[s].run \in Runs
    BY <2>1, LoopTask DEF Loop
  <2>3. UNCHANGED <<row, cookie>>
    BY <1>2 DEF Started, Stepped
  <2>4. ASSUME EndLoop(s, FALSE)
        PROVE  PanelInv'
    <3>1. /\ Finish(s) /\ authed' \in [Tabs -> BOOLEAN]
          /\ running' = [running EXCEPT ![t] = FALSE]
          /\ stepPending' = [stepPending EXCEPT ![t] = FALSE]
      BY <1>0, <2>2, <2>4 DEF EndLoop, Become, Pending
    <3> HIDE DEF t
    <3> QED
      BY <1>0, <2>1, <2>2, <2>3, <3>1, FinishInv DEF t
  <2>5. ASSUME Schedule(s, FALSE), UNCHANGED <<authed, running>>, task[s].reply = "running"
        PROVE  PanelInv'
    <3>1. Then(s, "pause") /\ stepPending' = [stepPending EXCEPT ![t] = ("pause" # "retry")]
      BY <2>5 DEF Schedule, Pending
    <3>2. task[s].run \in Runs /\ task[s].reply # "error"
      BY <2>1, <2>2, <2>5 DEF Stepping
    <3> HIDE DEF t
    <3> QED
      BY <2>2, <2>3, <2>5, <3>1, <3>2, ThenInv
  <2>6. CASE Started(s)
    <3>1. stepPending[t] = FALSE
      BY <1>0, <2>2, <2>6 DEF Started, Answered
    <3> QED
      BY <2>4, <2>5, <2>6, <3>1 DEF Started
  <2>7. CASE Stepped(s) /\ task[s].reply = "504"
    <3>1. /\ Then(s, "retry") /\ UNCHANGED <<authed, running>>
          /\ stepPending' = [stepPending EXCEPT ![t] = ("retry" # "retry")]
      BY <2>7 DEF Stepped, Pending
    <3>2. task[s].run \in Runs /\ task[s].reply # "error"
      BY <2>2, <2>7 DEF Stepped, Answered, Stepping
    <3> HIDE DEF t
    <3> QED
      BY <2>2, <2>3, <3>1, <3>2, ThenInv
  <2>8. CASE Stepped(s) /\ task[s].reply # "504"
    BY <2>4, <2>5, <2>8 DEF Stepped
  <2> QED
    BY <1>2, <2>6, <2>7, <2>8
<1>3. CASE DoStep(s) \/ RetryStep(s)
  <2>1. Used(s) /\ task[s].kind \in {"pause", "retry"}
    BY <1>3 DEF DoStep, RetryStep, Due, Used
  <2>2. ~Waiting(s)
    BY <2>1 DEF Waiting, Requests, Guarded
  <2>3. t # NoTab /\ task[s].kind \in Loop
    BY <2>1, <2>2 DEF PanelInv, Orphans, Loop
  <2>4. /\ task[s] \in Task /\ t \in Tabs /\ InLoop(s, t)
        /\ stepPending[t] <=> task[s].kind = "pause"
        /\ task[s].run \in Runs
    BY <2>1, <2>3, LoopTask DEF Stepping
  <2>5. UNCHANGED <<row, cookie, authed, running>>
    BY <1>3 DEF DoStep, RetryStep, tab
  <2>6. task[s].reply # "error"
    BY <2>1, <2>4 DEF PanelInv, RunsKept, Named
  <2>7. CASE DoStep(s)
    <3>1. stepPending[t] = TRUE
      BY <1>0, <2>4, <2>7 DEF DoStep, Due
    <3>2. /\ Then(s, "step")
          /\ stepPending' = [stepPending EXCEPT ![t] = ("step" # "retry")]
      BY <1>0, <2>4, <2>7, <3>1 DEF DoStep, tab
    <3> HIDE DEF t
    <3> QED
      BY <2>4, <2>5, <2>6, <3>2, ThenInv
  <2>8. CASE RetryStep(s)
    <3>1. stepPending[t] = FALSE
      BY <1>0, <2>4, <2>8 DEF RetryStep, Due
    <3>2. /\ Then(s, "pause")
          /\ stepPending' = [stepPending EXCEPT ![t] = ("pause" # "retry")]
      BY <2>8, <3>1 DEF RetryStep, Schedule, Pending
    <3> HIDE DEF t
    <3> QED
      BY <2>4, <2>5, <2>6, <3>2, ThenInv
  <2> QED
    BY <1>3, <2>7, <2>8
<1> QED
  BY <1>1, <1>2, <1>3 DEF Handle

-----------------------------------------------------------------------------
\* A request of a tab in a slot that was free; only startRun's is of the loop.
LEMMA SendInv ==
    ASSUME PanelInv, NEW t \in Tabs, NEW kind \in {"login", "logout", "start"},
           Send(t, kind), UNCHANGED <<row, cookie, authed, stepPending>>,
           IF kind = "start" THEN ~running[t] /\ running' = [running EXCEPT ![t] = TRUE]
                             ELSE UNCHANGED running
    PROVE  PanelInv'
<1>0. TypeOK /\ Orphans /\ LateOnes /\ Loops /\ Named /\ Known /\ Apart /\ Owners
  BY DEF PanelInv, RunsKept
<1>1. PICK s \in Slots : task[s] = Free /\ task' = [task EXCEPT ![s] = New(t, kind, NoRun)]
  BY DEF Send, FirstFree
<1> DEFINE new == New(t, kind, NoRun)
<1>2. /\ new \in Task /\ new.tab = t /\ new.kind = kind
      /\ new.run = NoRun /\ new.reply = "none" /\ ~new.late
  <2>1. kind \in Requests \cup Loop
    BY DEF Requests, Loop
  <2> QED
    BY <1>0, <2>1, NewType DEF New
<1>3. new # Free
  BY <1>2, PanelAssumption
<1>4. /\ task' \in [Slots -> Task \cup {Free}]
      /\ \A q \in Slots \ {s} : task'[q] = task[q]
      /\ task'[s] = new
  <2> HIDE DEF new
  <2> QED
    BY <1>0, <1>1, <1>2 DEF TypeOK, new
<1> HIDE DEF new
<1>5. TypeOK'
  BY <1>0, <1>4 DEF TypeOK
<1>6. Orphans' /\ LateOnes'
  BY <1>0, <1>2, <1>4, PanelAssumption DEF Orphans, LateOnes, Used, Waiting
<1>7. Loops'
  <2>1. CASE kind # "start"
    <3>1. \A u \in Tabs : \A q \in Slots :
              /\ InLoop(q, u)' <=> InLoop(q, u)
              /\ InLoop(q, u) => task'[q].kind = task[q].kind
      BY <1>1, <1>2, <1>4, <2>1 DEF InLoop, Used, Loop
    <3> QED
      BY <1>0, <2>1, <3>1, LoopsKept
  <2>2. CASE kind = "start"
    <3>1. \A q \in Slots : ~InLoop(q, t)
      BY <1>0, <2>2 DEF Loops, Buttons
    <3>2. /\ InLoop(s, t)' /\ task'[s].kind = "start"
          /\ \A q \in Slots \ {s} : ~InLoop(q, t)'
      BY <1>2, <1>3, <1>4, <2>2, <3>1 DEF InLoop, Used, Loop
    <3>3. \A u \in Tabs \ {t} : \A q \in Slots :
              /\ InLoop(q, u)' <=> InLoop(q, u)
              /\ InLoop(q, u) => task'[q].kind = task[q].kind
      BY <1>1, <1>2, <1>4 DEF InLoop, Used
    <3>4. running'[t] /\ \A u \in Tabs \ {t} : running'[u] = running[u]
      BY <1>0, <2>2 DEF TypeOK
    <3>5. OneLoop'
      BY <1>0, <3>2, <3>3 DEF Loops, OneLoop
    <3>6. Buttons'
      BY <1>0, <3>2, <3>3, <3>4 DEF Loops, Buttons
    <3>7. PendingTells'
      BY <1>0, <3>1, <3>2, <3>3 DEF Loops, PendingTells
    <3> QED
      BY <3>5, <3>6, <3>7 DEF Loops
  <2> QED
    BY <2>1, <2>2
<1>8. Named' /\ Known' /\ Apart' /\ Owners'
  <2>1. new.run \notin Runs
    BY <1>2, PanelAssumption
  <2>2. ~(Used(s) /\ Stepping(s))'
    BY <1>2, <1>4 DEF Stepping
  <2>3. Named'
    BY <1>0, <1>2, <1>4, <2>2 DEF Named, Stepping, Used
  <2>4. Known'
    BY <1>0, <1>4, <2>1 DEF Known, Used
  <2>5. Apart' /\ Owners'
    BY <1>0, <1>4, <2>1 DEF Apart, Owners, Live, Owned, Used
  <2> QED
    BY <2>3, <2>4, <2>5
<1> QED
  BY <1>5, <1>6, <1>7, <1>8 DEF PanelInv, RunsKept

LEMMA LoadInv ==
    ASSUME PanelInv, NEW t \in Tabs, Load(t)
    PROVE  PanelInv'
<1>0. TypeOK /\ Orphans /\ LateOnes /\ Loops /\ Named /\ Known /\ Apart /\ Owners
  BY DEF PanelInv, RunsKept
<1>1. PICK s \in Slots :
          /\ task[s] = Free
          /\ task' = [q \in Slots |->
                IF q = s THEN New(t, "check", NoRun)
                ELSE IF task[q] = Free \/ task[q].tab # t THEN task[q]
                ELSE IF Waiting(q) THEN [task[q] EXCEPT !.tab = NoTab] ELSE Free]
  BY DEF Load, FirstFree
<1> DEFINE new == New(t, "check", NoRun)
           orphan(q) == [task[q] EXCEPT !.tab = NoTab]
<1>2. /\ new \in Task /\ new.tab = t /\ new.kind = "check"
      /\ new.run = NoRun /\ new.reply = "none" /\ ~new.late
  <2>1. "check" \in Requests \cup Loop
    BY DEF Requests, Guarded
  <2> QED
    BY <1>0, <2>1, NewType DEF New
<1>3. \A q \in Slots : Used(q) =>
          /\ orphan(q) \in Task
          /\ orphan(q).tab = NoTab /\ orphan(q).kind = task[q].kind
          /\ orphan(q).run = task[q].run /\ orphan(q).reply = task[q].reply
          /\ orphan(q).late = task[q].late
  <2> SUFFICES ASSUME NEW q \in Slots, Used(q)
               PROVE  /\ orphan(q) \in Task
                      /\ orphan(q).tab = NoTab /\ orphan(q).kind = task[q].kind
                      /\ orphan(q).run = task[q].run /\ orphan(q).reply = task[q].reply
                      /\ orphan(q).late = task[q].late
    OBVIOUS
  <2>1. task[q] \in Task
    BY <1>0, TaskType
  <2> QED
    BY <2>1 DEF Task
<1>4. /\ task'[s] = new
      /\ \A q \in Slots \ {s} :
            \/ (task[q] = Free \/ task[q].tab # t) /\ task'[q] = task[q]
            \/ Used(q) /\ task[q].tab = t /\ Waiting(q) /\ task'[q] = orphan(q)
            \/ task'[q] = Free
  BY <1>1 DEF Used
<1>5. \A q \in Slots : task'[q] \in Task \cup {Free}
  <2> HIDE DEF new, orphan
  <2> QED
    BY <1>0, <1>2, <1>3, <1>4 DEF TypeOK
<1>6. task' \in [Slots -> Task \cup {Free}]
  BY <1>1, <1>5
<1>7. /\ UNCHANGED <<row, cookie>>
      /\ authed' = [authed EXCEPT ![t] = FALSE]
      /\ running' = [running EXCEPT ![t] = FALSE]
      /\ stepPending' = [stepPending EXCEPT ![t] = FALSE]
  BY DEF Load
<1> HIDE DEF new, orphan
<1>8. TypeOK'
  BY <1>0, <1>6, <1>7 DEF TypeOK
<1>9. Orphans' /\ LateOnes'
  <2> SUFFICES ASSUME NEW q \in Slots, Used(q)'
               PROVE  /\ task'[q].tab = NoTab => Waiting(q)'
                      /\ task'[q].late => task'[q].tab = NoTab
    BY DEF Orphans, LateOnes
  <2>1. CASE q = s
    BY <1>2, <1>4, <2>1, PanelAssumption
  <2>2. CASE task'[q] = task[q]
    BY <1>0, <2>2 DEF Orphans, LateOnes, Used, Waiting
  <2>3. CASE Used(q) /\ Waiting(q) /\ task'[q] = orphan(q)
    BY <1>3, <2>3 DEF Used, Waiting
  <2> QED
    BY <1>4, <2>1, <2>2, <2>3 DEF Used
<1>10. Loops'
  <2>1. \A q \in Slots : ~InLoop(q, t)'
    BY <1>2, <1>3, <1>4, PanelAssumption DEF InLoop, Used, Loop
  <2>2. \A u \in Tabs \ {t} : \A q \in Slots :
            /\ InLoop(q, u)' <=> InLoop(q, u)
            /\ InLoop(q, u) => task'[q].kind = task[q].kind
    <3> SUFFICES ASSUME NEW u \in Tabs \ {t}, NEW q \in Slots
                 PROVE  /\ InLoop(q, u)' <=> InLoop(q, u)
                        /\ InLoop(q, u) => task'[q].kind = task[q].kind
      OBVIOUS
    <3>1. CASE q = s
      BY <1>1, <1>2, <1>4, <3>1 DEF InLoop, Used
    <3>2. CASE q # s
      BY <1>1, <1>3, <1>4, <3>2, PanelAssumption DEF InLoop, Used
    <3> QED
      BY <3>1, <3>2
  <2>3. /\ ~running'[t] /\ \A u \in Tabs \ {t} : running'[u] = running[u]
        /\ ~stepPending'[t] /\ \A u \in Tabs \ {t} : stepPending'[u] = stepPending[u]
    BY <1>0, <1>7 DEF TypeOK
  <2>4. OneLoop'
    BY <1>0, <2>1, <2>2 DEF Loops, OneLoop
  <2>5. Buttons'
    BY <1>0, <2>1, <2>2, <2>3 DEF Loops, Buttons
  <2>6. PendingTells'
    BY <1>0, <2>1, <2>2, <2>3 DEF Loops, PendingTells
  <2> QED
    BY <2>4, <2>5, <2>6 DEF Loops
<1>11. \A q \in Slots \ {s} : Used(q)' =>
          /\ Used(q)
          /\ task'[q].kind = task[q].kind /\ task'[q].run = task[q].run
          /\ task'[q].reply = task[q].reply /\ task'[q].late = task[q].late
          /\ task'[q].tab \in {task[q].tab, NoTab}
  BY <1>3, <1>4 DEF Used
<1>12. Named' /\ Known' /\ Apart' /\ Owners'
  <2>1. new.run \notin Runs
    BY <1>2, PanelAssumption
  <2>2. Named'
    BY <1>0, <1>2, <1>4, <1>11 DEF Named, Stepping
  <2>3. Known'
    BY <1>0, <1>4, <1>7, <1>11, <2>1 DEF Known
  <2>4. Apart' /\ Owners'
    BY <1>0, <1>4, <1>11, <2>1 DEF Apart, Owners, Live, Owned
  <2> QED
    BY <2>2, <2>3, <2>4
<1> QED
  BY <1>8, <1>9, <1>10, <1>12 DEF PanelInv, RunsKept

LEMMA EnvironmentInv ==
    ASSUME PanelInv, Expire \/ \E r \in Runs : GoStale(r)
    PROVE  PanelInv'
<1>0. TypeOK /\ Orphans /\ LateOnes /\ Loops /\ Named /\ Known /\ Apart /\ Owners
  BY DEF PanelInv, RunsKept
<1>1. CASE Expire
  <2>1. PICK still \in SUBSET Slots :
            task' = [s \in Slots |->
                        IF task[s] = Free \/ s \in still THEN task[s]
                        ELSE [task[s] EXCEPT !.session = FALSE]]
    BY <1>1 DEF Expire
  <2>2. cookie' \in BOOLEAN /\ UNCHANGED <<row, tab>>
    BY <1>0, <1>1 DEF Expire, TypeOK
  <2>3. ASSUME NEW s \in Slots
        PROVE  /\ task'[s] \in Task \cup {Free}
               /\ Used(s)' <=> Used(s)
               /\ Used(s) => /\ task'[s].tab = task[s].tab /\ task'[s].kind = task[s].kind
                             /\ task'[s].run = task[s].run /\ task'[s].reply = task[s].reply
                             /\ task'[s].late = task[s].late
    <3> DEFINE cut == [task[s] EXCEPT !.session = FALSE]
    <3>1. CASE task'[s] = task[s]
      BY <1>0, <3>1 DEF TypeOK, Used
    <3>2. CASE Used(s) /\ task'[s] = cut
      <4>1. task[s] \in Task
        BY <1>0, <3>2, TaskType
      <4>2. /\ cut \in Task
            /\ cut.tab = task[s].tab /\ cut.kind = task[s].kind
            /\ cut.run = task[s].run /\ cut.reply = task[s].reply
            /\ cut.late = task[s].late
        BY <4>1 DEF Task
      <4> HIDE DEF cut
      <4> QED
        BY <3>2, <4>2, PanelAssumption DEF Used
    <3> QED
      BY <2>1, <3>1, <3>2 DEF Used
  <2>4. task' \in [Slots -> Task \cup {Free}]
    BY <2>1, <2>3
  <2>5. TypeOK'
    BY <1>0, <2>2, <2>4 DEF TypeOK, tab
  <2>6. Orphans' /\ LateOnes'
    BY <1>0, <2>3 DEF Orphans, LateOnes, Waiting, Used
  <2>7. Loops'
    <3>1. \A t \in Tabs : \A s \in Slots :
              /\ InLoop(s, t)' <=> InLoop(s, t)
              /\ InLoop(s, t) => task'[s].kind = task[s].kind
      BY <2>3 DEF InLoop
    <3>2. UNCHANGED <<running, stepPending>>
      BY <2>2 DEF tab
    <3> QED
      BY <1>0, <3>1, <3>2, LoopsKept
  <2>8. Named'
    BY <1>0, <2>3 DEF Named, Stepping
  <2>9. Known'
    BY <1>0, <2>2, <2>3 DEF Known
  <2>10. Apart' /\ Owners'
    BY <1>0, <2>3 DEF Apart, Owners, Live, Owned
  <2> QED
    BY <2>5, <2>6, <2>7, <2>8, <2>9, <2>10 DEF PanelInv, RunsKept
<1>2. ASSUME NEW r \in Runs, GoStale(r)
      PROVE  PanelInv'
  <2>1. TypeOK'
    BY <1>0, <1>2 DEF GoStale, TypeOK, tab
  <2>2. Known'
    BY <1>0, <1>2 DEF GoStale, Known, Used, TypeOK
  <2>3. Orphans' /\ LateOnes' /\ Loops' /\ Named' /\ Apart' /\ Owners'
    BY <1>0, <1>2 DEF GoStale, Orphans, LateOnes, Loops, OneLoop, Buttons, PendingTells,
                      Named, Apart, Owners, Live, Owned, Stepping, InLoop, Used, Waiting, tab
  <2> QED
    BY <2>1, <2>2, <2>3 DEF PanelInv, RunsKept
<1> QED
  BY <1>1, <1>2

LEMMA PanelStep == PanelInv /\ [Next]_vars => PanelInv'
<1> SUFFICES ASSUME PanelInv, [Next]_vars
             PROVE  PanelInv'
  OBVIOUS
<1>1. ASSUME NEW t \in Tabs, SubmitAuth(t) \/ Logout(t) \/ StartRun(t)
      PROVE  PanelInv'
  <2>1. PICK kind \in {"login", "logout", "start"} :
            /\ Send(t, kind) /\ UNCHANGED <<row, cookie, authed, stepPending>>
            /\ IF kind = "start" THEN ~running[t] /\ running' = [running EXCEPT ![t] = TRUE]
                                 ELSE UNCHANGED running
    BY <1>1 DEF SubmitAuth, Logout, StartRun, tab
  <2> QED
    BY <2>1, SendInv
<1>2. CASE UNCHANGED vars
  BY <1>2 DEF vars, tab, PanelInv, TypeOK, Orphans, LateOnes, Loops, OneLoop, Buttons, PendingTells,
              RunsKept, Named, Known, Apart, Owners, Live, Owned, Stepping, InLoop, Used, Waiting
<1> QED
  BY <1>1, <1>2, LoadInv, ServeInv, HandleInv, EnvironmentInv DEF Next

LEMMA PanelInvariant == Spec => []PanelInv
BY PanelInit, PanelStep, PTL DEF Spec

-----------------------------------------------------------------------------
(***************************************************************************)
(* TypeCorrect: every reachable state of tabs, sessions and runs is well   *)
(* typed.                                                                  *)
(***************************************************************************)
THEOREM TypeCorrect == Spec => []TypeOK
<1>1. PanelInv => TypeOK
  BY DEF PanelInv
<1> QED
  BY <1>1, PanelInvariant, PTL

(***************************************************************************)
(* ButtonsTellLoops: a tab's run button is disabled exactly while one      *)
(* request or timer of its loop is under way.                              *)
(***************************************************************************)
THEOREM ButtonsTellLoops == Spec => []ButtonTellsLoop
<1>1. PanelInv => ButtonTellsLoop
  <2> SUFFICES ASSUME PanelInv, NEW t \in Tabs
               PROVE  /\ running[t] <=> LoopTasks(t) # {}
                      /\ \A s, q \in LoopTasks(t) : s = q
    BY DEF ButtonTellsLoop
  <2>1. LoopTasks(t) = {s \in Slots : InLoop(s, t)}
    BY DEF LoopTasks, InLoop, Used
  <2> QED
    BY <2>1 DEF PanelInv, Loops, OneLoop, Buttons
<1> QED
  BY <1>1, PanelInvariant, PTL

(***************************************************************************)
(* OnlyLateOverlap: of the steps of a run that are being executed, at most *)
(* one has not been given up by a timeout, however many tabs, sessions and *)
(* reloads there are.                                                      *)
(***************************************************************************)
THEOREM OnlyLateOverlap == Spec => []OnlyLateStepsOverlap
<1>1. PanelInv => OnlyLateStepsOverlap
  <2> SUFFICES ASSUME PanelInv, NEW s \in Slots, NEW q \in Slots,
                      Asked(s, "step"), ~task[s].late, Asked(q, "step"), ~task[q].late,
                      task[s].run = task[q].run
               PROVE  s = q
    BY DEF OnlyLateStepsOverlap
  <2>1. task[s].run \in Runs
    BY DEF PanelInv, RunsKept, Named, Stepping, Used, Asked, Waiting
  <2>2. Live(s, task[s].run) /\ Live(q, task[s].run)
    BY DEF Live, Used, Asked, Waiting
  <2> QED
    BY <2>1, <2>2 DEF PanelInv, RunsKept, Apart
<1> QED
  BY <1>1, PanelInvariant, PTL

-----------------------------------------------------------------------------
(***************************************************************************)
(* The refinement: what PhaseOf and RunOf read off the one task of a loop. *)
(***************************************************************************)
PhaseFor(kind) ==
    IF kind = "start" THEN "starting" ELSE IF kind = "step" THEN "stepping" ELSE "pausing"
RunFor(s) == IF task[s].kind = "start" THEN NoRun ELSE task[s].run

Reads ==
    \A t \in Tabs :
        /\ (\A s \in Slots : ~InLoop(s, t)) => PhaseOf(t) = "idle" /\ RunOf(t) = NoRun
        /\ \A s \in Slots :
              InLoop(s, t) => PhaseOf(t) = PhaseFor(task[s].kind) /\ RunOf(t) = RunFor(s)

LEMMA LoopReads == PanelInv => Reads
<1> SUFFICES ASSUME PanelInv, NEW t \in Tabs
             PROVE  /\ (\A s \in Slots : ~InLoop(s, t)) =>
                          PhaseOf(t) = "idle" /\ RunOf(t) = NoRun
                    /\ \A s \in Slots :
                          InLoop(s, t) => PhaseOf(t) = PhaseFor(task[s].kind) /\ RunOf(t) = RunFor(s)
  BY DEF Reads
<1>0. LoopTasks(t) = {s \in Slots : InLoop(s, t)}
  BY DEF LoopTasks, InLoop, Used
<1>1. CASE \A s \in Slots : ~InLoop(s, t)
  <2>1. LoopTasks(t) = {}
    BY <1>0, <1>1
  <2> QED
    BY <1>1, <2>1 DEF PhaseOf, RunOf
<1>2. ASSUME NEW s \in Slots, InLoop(s, t)
      PROVE  PhaseOf(t) = PhaseFor(task[s].kind) /\ RunOf(t) = RunFor(s)
  <2>1. LoopTasks(t) = {s}
    BY <1>0, <1>2 DEF PanelInv, Loops, OneLoop
  <2>2. {task[q].kind : q \in LoopTasks(t)} = {task[s].kind}
    BY <2>1
  <2>3. PhaseOf(t) = PhaseFor(task[s].kind)
    BY <2>2 DEF PhaseOf, PhaseFor
  <2>4. CASE task[s].kind = "start"
    <3>1. {q \in LoopTasks(t) : task[q].kind # "start"} = {}
      BY <2>1, <2>4
    <3> QED
      BY <2>3, <2>4, <3>1 DEF RunOf, RunFor
  <2>5. CASE task[s].kind # "start"
    <3>1. {q \in LoopTasks(t) : task[q].kind # "start"} = {s}
      BY <2>1, <2>5
    <3>2. (CHOOSE q \in {s} : TRUE) = s
      OBVIOUS
    <3> QED
      BY <2>3, <2>5, <3>1, <3>2 DEF RunOf, RunFor
  <2> QED
    BY <2>3, <2>4, <2>5
<1> QED
  BY <1>1, <1>2

\* What the step does to the loop of tab t.
SameLoop(t) == \A s \in Slots :
    /\ InLoop(s, t)' <=> InLoop(s, t)
    /\ InLoop(s, t) => task'[s].kind = task[s].kind /\ RunFor(s)' = RunFor(s)

LEMMA SameReads ==
    ASSUME Reads, Reads', NEW t \in Tabs, SameLoop(t)
    PROVE  PhaseOf(t)' = PhaseOf(t) /\ RunOf(t)' = RunOf(t)
BY DEF Reads, SameLoop, RunFor

LEMMA Stutters ==
    ASSUME Reads, Reads', \A t \in Tabs : SameLoop(t)
    PROVE  UNCHANGED Driver!vars
BY SameReads DEF Driver!vars

\* Only tab t's loop changes; then one of RunDriver's steps of t must fit.
Fits(t) ==
    \/ PhaseOf(t) = "idle" /\ PhaseOf(t)' = "starting" /\ RunOf(t)' = RunOf(t)
    \/ /\ PhaseOf(t) = "starting" /\ PhaseOf(t)' = "pausing"
       /\ RunOf(t)' \in Runs /\ \A u \in Tabs : RunOf(u) # RunOf(t)'
    \/ PhaseOf(t) = "pausing" /\ PhaseOf(t)' = "stepping" /\ RunOf(t)' = RunOf(t)
    \/ PhaseOf(t) = "stepping" /\ PhaseOf(t)' = "pausing" /\ RunOf(t)' = RunOf(t)
    \/ PhaseOf(t)' = "idle" /\ RunOf(t)' = NoRun
    \/ PhaseOf(t)' = PhaseOf(t) /\ RunOf(t)' = RunOf(t)

LEMMA FittingStep ==
    ASSUME Reads, Reads', NEW t \in Tabs, \A u \in Tabs \ {t} : SameLoop(u), Fits(t)
    PROVE  [Driver!Next]_(Driver!vars)
<1> DEFINE p == [u \in Tabs |-> PhaseOf(u)]
           r == [u \in Tabs |-> RunOf(u)]
<1>1. \A u \in Tabs \ {t} : PhaseOf(u)' = PhaseOf(u) /\ RunOf(u)' = RunOf(u)
  BY SameReads
<1>2. p' = [p EXCEPT ![t] = PhaseOf(t)'] /\ r' = [r EXCEPT ![t] = RunOf(t)']
  BY <1>1
<1>3. RunOf(t)' = RunOf(t) => r' = r
  BY <1>1
<1>4. PhaseOf(t)' = PhaseOf(t) => p' = p
  BY <1>1
<1>5. p[t] = PhaseOf(t) /\ \A u \in Tabs : r[u] = RunOf(u)
  OBVIOUS
<1>6. CASE PhaseOf(t) = "idle" /\ PhaseOf(t)' = "starting" /\ RunOf(t)' = RunOf(t)
  BY <1>2, <1>3, <1>5, <1>6 DEF Driver!Next, Driver!Start, Driver!Move
<1>7. CASE /\ PhaseOf(t) = "starting" /\ PhaseOf(t)' = "pausing"
           /\ RunOf(t)' \in Runs /\ \A u \in Tabs : RunOf(u) # RunOf(t)'
  BY <1>2, <1>5, <1>7 DEF Driver!Next, Driver!Begin, Driver!Move
<1>8. CASE PhaseOf(t) = "pausing" /\ PhaseOf(t)' = "stepping" /\ RunOf(t)' = RunOf(t)
  BY <1>2, <1>3, <1>5, <1>8 DEF Driver!Next, Driver!Send, Driver!Move
<1>9. CASE PhaseOf(t) = "stepping" /\ PhaseOf(t)' = "pausing" /\ RunOf(t)' = RunOf(t)
  BY <1>2, <1>3, <1>5, <1>9 DEF Driver!Next, Driver!Continue, Driver!Move
<1>10. CASE PhaseOf(t)' = "idle" /\ RunOf(t)' = NoRun
  BY <1>2, <1>5, <1>10 DEF Driver!Next, Driver!Stop
<1>11. CASE PhaseOf(t)' = PhaseOf(t) /\ RunOf(t)' = RunOf(t)
  BY <1>3, <1>4, <1>11 DEF Driver!vars
<1> QED
  BY <1>6, <1>7, <1>8, <1>9, <1>10, <1>11 DEF Fits

LEMMA AnswerSame ==
    ASSUME PanelInv, NEW s \in Slots, Waiting(s), NEW reply \in Answers,
           NEW r \in Runs \cup {NoRun}, NEW session \in BOOLEAN,
           Answer(s, reply, r, session),
           task[s].kind \in Loop => task[s].kind = "start" \/ r = task[s].run
    PROVE  \A t \in Tabs : SameLoop(t)
<1>1. Used(s) /\ TypeOK
  BY DEF Waiting, Used, PanelInv
<1>2. /\ \A q \in Slots \ {s} : task'[q] = task[q]
      /\ task[s].tab = NoTab => task'[s] = Free
      /\ task[s].tab # NoTab =>
            /\ task'[s] # Free
            /\ task'[s].tab = task[s].tab /\ task'[s].kind = task[s].kind
            /\ task'[s].run = r
  BY <1>1, AnswerType
<1> QED
  BY <1>1, <1>2, PanelAssumption DEF SameLoop, InLoop, Used, RunFor

LEMMA ServeSame ==
    ASSUME PanelInv, NEW s \in Slots, Serve(s)
    PROVE  \A t \in Tabs : SameLoop(t)
<1>1. Waiting(s)
  BY DEF Serve, Deny, Lose, Status, Create, Advance, Overrun, Issue, Clear, Admitted, Asked
<1>2. /\ task[s] \in Task /\ task[s].run \in Runs \cup {NoRun}
      /\ NoRun \in Runs \cup {NoRun} /\ Used(s)
  BY <1>1, WaitingTask DEF Waiting, Used
<1>3. ASSUME NEW reply \in {"error", "504"}, LeaveAtWork(s, reply)
      PROVE  \A t \in Tabs : SameLoop(t)
  <2>1. PICK q \in Slots \ {s} :
            /\ task[q] = Free /\ task'[q].tab = NoTab
            /\ \A p \in Slots \ {s, q} : task'[p] = task[p]
            /\ task'[s] # Free /\ task'[s].tab = task[s].tab
            /\ task'[s].kind = task[s].kind /\ task'[s].run = task[s].run
    BY <1>1, <1>3, LeaveType
  <2> QED
    BY <1>2, <2>1, PanelAssumption DEF SameLoop, InLoop, Used, RunFor
<1>4. ASSUME ~\E reply \in {"error", "504"} : LeaveAtWork(s, reply)
      PROVE  \E reply \in Answers, r \in Runs \cup {NoRun}, session \in BOOLEAN :
                /\ Answer(s, reply, r, session)
                /\ task[s].kind \in Loop => task[s].kind = "start" \/ r = task[s].run
  <2>1. CASE Deny(s) \/ Lose(s) \/ Advance(s)
    BY <1>2, <1>4, <2>1 DEF Deny, Lose, Advance, Answers
  <2>2. CASE Status(s) \/ Issue(s) \/ Clear(s)
    BY <1>2, <2>2 DEF Status, Issue, Clear, Admitted, Asked, Answers, Loop
  <2>3. CASE Create(s)
    BY <1>2, <2>3 DEF Create, Admitted, Asked, Answers
  <2> QED
    BY <1>4, <2>1, <2>2, <2>3 DEF Serve, Overrun
<1> QED
  BY <1>1, <1>3, <1>4, AnswerSame

LEMMA UserFits ==
    ASSUME PanelInv, Reads, Reads', NEW t \in Tabs,
           Load(t) \/ SubmitAuth(t) \/ Logout(t) \/ StartRun(t)
    PROVE  (\A u \in Tabs \ {t} : SameLoop(u)) /\ Fits(t)
<1>0. TypeOK /\ Orphans
  BY DEF PanelInv
<1>1. ASSUME NEW kind \in {"login", "logout", "start"}, Send(t, kind),
             kind = "start" => ~running[t]
      PROVE  (\A u \in Tabs \ {t} : SameLoop(u)) /\ Fits(t)
  <2>1. PICK s \in Slots : task[s] = Free /\ task' = [task EXCEPT ![s] = New(t, kind, NoRun)]
    BY <1>1 DEF Send, FirstFree
  <2> DEFINE new == New(t, kind, NoRun)
  <2>2. new \in Task /\ new.tab = t /\ new.kind = kind /\ new.run = NoRun
    <3>1. kind \in Requests \cup Loop
      BY DEF Requests, Loop
    <3> QED
      BY <1>0, <3>1, NewType DEF New
  <2>3. new # Free
    BY <2>2, PanelAssumption
  <2>4. task'[s] = new /\ \A q \in Slots \ {s} : task'[q] = task[q]
    <3> HIDE DEF new
    <3> QED
      BY <1>0, <2>1 DEF TypeOK, new
  <2> HIDE DEF new
  <2>5. \A u \in Tabs \ {t} : SameLoop(u)
    BY <2>1, <2>2, <2>4 DEF SameLoop, InLoop, Used, RunFor
  <2>6. CASE kind # "start"
    <3>1. SameLoop(t)
      BY <2>1, <2>2, <2>4, <2>6 DEF SameLoop, InLoop, Used, RunFor, Loop
    <3> QED
      BY <2>5, <3>1, SameReads DEF Fits
  <2>7. CASE kind = "start"
    <3>1. \A q \in Slots : ~InLoop(q, t)
      BY <1>1, <2>7 DEF PanelInv, Loops, Buttons
    <3>2. InLoop(s, t)' /\ task'[s].kind = "start"
      BY <2>2, <2>3, <2>4, <2>7 DEF InLoop, Used, Loop
    <3>3. PhaseOf(t) = "idle" /\ RunOf(t) = NoRun
      BY <3>1 DEF Reads
    <3>4. PhaseOf(t)' = "starting" /\ RunOf(t)' = NoRun
      BY <3>2 DEF Reads, PhaseFor, RunFor
    <3> QED
      BY <2>5, <3>3, <3>4 DEF Fits
  <2> QED
    BY <2>6, <2>7
<1>2. CASE Load(t)
  <2>1. PICK s \in Slots :
            /\ task[s] = Free
            /\ task' = [q \in Slots |->
                  IF q = s THEN New(t, "check", NoRun)
                  ELSE IF task[q] = Free \/ task[q].tab # t THEN task[q]
                  ELSE IF Waiting(q) THEN [task[q] EXCEPT !.tab = NoTab] ELSE Free]
    BY <1>2 DEF Load, FirstFree
  <2>2. New(t, "check", NoRun).tab = t /\ New(t, "check", NoRun).kind = "check"
    BY DEF New
  <2>3. \A q \in Slots : Used(q) => [task[q] EXCEPT !.tab = NoTab].tab = NoTab
    BY <1>0, TaskType DEF Task
  <2>4. \A q \in Slots : ~InLoop(q, t)'
    BY <2>1, <2>2, <2>3, PanelAssumption DEF InLoop, Used, Loop
  <2>5. \A u \in Tabs \ {t} : SameLoop(u)
    <3> SUFFICES ASSUME NEW u \in Tabs \ {t}, NEW q \in Slots
                 PROVE  /\ InLoop(q, u)' <=> InLoop(q, u)
                        /\ InLoop(q, u) => task'[q].kind = task[q].kind /\ RunFor(q)' = RunFor(q)
      BY DEF SameLoop
    <3>1. CASE q = s
      BY <2>1, <2>2, <3>1 DEF InLoop, Used
    <3>2. CASE q # s
      BY <2>1, <2>3, <3>2, PanelAssumption DEF InLoop, Used, RunFor
    <3> QED
      BY <3>1, <3>2
  <2>6. PhaseOf(t)' = "idle" /\ RunOf(t)' = NoRun
    BY <2>4 DEF Reads
  <2> QED
    BY <2>5, <2>6 DEF Fits
<1> QED
  BY <1>1, <1>2 DEF SubmitAuth, Logout, StartRun

\* Handlers change the task of one slot.
LEMMA HandleFits ==
    ASSUME PanelInv, PanelInv', Reads, Reads', NEW s \in Slots, Handle(s)
    PROVE  \E t \in Tabs : (\A u \in Tabs \ {t} : SameLoop(u)) /\ Fits(t)
<1>0. TypeOK /\ Orphans
  BY DEF PanelInv
<1>1. Used(s) /\ task[s].tab # NoTab
  BY DEF Handle, Checked, LoggedIn, LoggedOut, Started, Stepped, DoStep, RetryStep,
         Answered, Due, Used, PanelInv, Orphans, Waiting, Requests, Guarded
<1>2. /\ task[s] \in Task /\ task[s].tab \in Tabs
      /\ task[s].run \in Runs \cup {NoRun}
  BY <1>0, <1>1, TaskType DEF Task
<1> PICK t \in Tabs : task[s].tab = t
  BY <1>2
<1>3. ASSUME Finish(s)
      PROVE  (\A u \in Tabs \ {t} : SameLoop(u)) /\ Fits(t)
  <2>1. task'[s] = Free /\ \A q \in Slots \ {s} : task'[q] = task[q]
    BY <1>0, <1>3 DEF Finish, TypeOK
  <2>2. \A u \in Tabs \ {t} : SameLoop(u)
    BY <2>1 DEF SameLoop, InLoop, Used, RunFor
  <2>3. CASE InLoop(s, t)
    <3>1. \A q \in Slots : ~InLoop(q, t)'
      BY <1>2, <2>1, <2>3 DEF PanelInv, Loops, OneLoop, InLoop, Used
    <3>2. PhaseOf(t)' = "idle" /\ RunOf(t)' = NoRun
      BY <3>1 DEF Reads
    <3> QED
      BY <2>2, <3>2 DEF Fits
  <2>4. CASE ~InLoop(s, t)
    <3>1. SameLoop(t)
      BY <2>1, <2>4 DEF SameLoop, InLoop, Used, RunFor
    <3> QED
      BY <1>2, <2>2, <3>1, SameReads DEF Fits
  <2> QED
    BY <2>3, <2>4
<1>4. ASSUME NEW kind \in {"step", "pause", "retry"}, Then(s, kind), task[s].kind \in Loop
      PROVE  /\ \A u \in Tabs \ {t} : SameLoop(u)
             /\ PhaseOf(t) = PhaseFor(task[s].kind) /\ RunOf(t) = RunFor(s)
             /\ PhaseOf(t)' = PhaseFor(kind) /\ RunOf(t)' = task[s].run
  <2> DEFINE new == New(t, kind, task[s].run)
  <2>1. new \in Task /\ new.tab = t /\ new.kind = kind /\ new.run = task[s].run
    <3>1. kind \in Requests \cup Loop
      BY DEF Loop
    <3> QED
      BY <1>0, <1>2, <3>1, NewType DEF New
  <2>2. new # Free
    BY <2>1, PanelAssumption
  <2>3. task'[s] = new /\ \A q \in Slots \ {s} : task'[q] = task[q]
    <3>1. task' = [task EXCEPT ![s] = new]
      BY <1>4 DEF Then
    <3> HIDE DEF new
    <3> QED
      BY <1>0, <3>1 DEF TypeOK
  <2>4. InLoop(s, t) /\ InLoop(s, t)' /\ task'[s].kind = kind /\ RunFor(s)' = task[s].run
    <3> HIDE DEF new
    <3> QED
      BY <1>1, <1>4, <2>1, <2>2, <2>3, PanelAssumption DEF InLoop, Used, Loop, RunFor
  <2>5. \A u \in Tabs \ {t} : SameLoop(u)
    <3> HIDE DEF new
    <3> QED
      BY <2>1, <2>3 DEF SameLoop, InLoop, Used, RunFor
  <2> HIDE DEF new
  <2> QED
    BY <1>2, <2>4, <2>5 DEF Reads
<1>5. CASE Finish(s)
  BY <1>3, <1>5
<1>6. CASE Started(s) /\ ~Finish(s)
  <2>1. task[s].kind = "start" /\ task[s].reply = "running" /\ Then(s, "pause")
    BY <1>6 DEF Started, Answered, Schedule, EndLoop
  <2>2. /\ \A u \in Tabs \ {t} : SameLoop(u)
        /\ PhaseOf(t) = "starting" /\ RunOf(t) = NoRun
        /\ PhaseOf(t)' = "pausing" /\ RunOf(t)' = task[s].run
    BY <1>4, <2>1 DEF Loop, PhaseFor, RunFor
  <2>3. task[s].run \in Runs
    BY <1>1, <2>1 DEF PanelInv, RunsKept, Named, Stepping
  <2>4. \A u \in Tabs : RunOf(u) # task[s].run
    <3> SUFFICES ASSUME NEW u \in Tabs, RunOf(u) = task[s].run
                 PROVE  FALSE
      OBVIOUS
    <3>1. PICK q \in Slots : InLoop(q, u) /\ RunFor(q) = task[s].run
      BY <2>3, PanelAssumption DEF Reads
    <3>2. task[q].kind # "start" /\ task[q].run = task[s].run
      BY <2>3, <3>1, PanelAssumption DEF RunFor
    <3>3. Owned(q, task[s].run) /\ Owned(s, task[s].run)
      BY <1>1, <3>1, <3>2, PanelAssumption DEF Owned, InLoop
    <3>4. q = s
      BY <2>3, <3>3 DEF PanelInv, RunsKept, Owners
    <3> QED
      BY <2>1, <3>2, <3>4
  <2> QED
    BY <2>2, <2>3, <2>4 DEF Fits
<1>7. CASE Stepped(s) /\ ~Finish(s)
  <2>1. task[s].kind = "step" /\ (Then(s, "pause") \/ Then(s, "retry"))
    BY <1>7 DEF Stepped, Answered, Schedule, EndLoop
  <2>2. /\ \A u \in Tabs \ {t} : SameLoop(u)
        /\ PhaseOf(t) = "stepping" /\ RunOf(t) = task[s].run
        /\ PhaseOf(t)' = "pausing" /\ RunOf(t)' = task[s].run
    BY <1>4, <2>1 DEF Loop, PhaseFor, RunFor
  <2> QED
    BY <2>2 DEF Fits
<1>8. CASE DoStep(s)
  <2>1. task[s].kind = "pause" /\ Then(s, "step")
    BY <1>8 DEF DoStep, Due
  <2>2. /\ \A u \in Tabs \ {t} : SameLoop(u)
        /\ PhaseOf(t) = "pausing" /\ RunOf(t) = task[s].run
        /\ PhaseOf(t)' = "stepping" /\ RunOf(t)' = task[s].run
    BY <1>4, <2>1 DEF Loop, PhaseFor, RunFor
  <2> QED
    BY <2>2 DEF Fits
<1>9. CASE RetryStep(s) /\ ~Finish(s)
  <2>1. task[s].kind = "retry" /\ Then(s, "pause")
    BY <1>9 DEF RetryStep, Due, Schedule
  <2>2. /\ \A u \in Tabs \ {t} : SameLoop(u)
        /\ PhaseOf(t) = "pausing" /\ RunOf(t) = task[s].run
        /\ PhaseOf(t)' = "pausing" /\ RunOf(t)' = task[s].run
    BY <1>4, <2>1 DEF Loop, PhaseFor, RunFor
  <2> QED
    BY <2>2 DEF Fits
<1> QED
  BY <1>5, <1>6, <1>7, <1>8, <1>9 DEF Handle, Checked, LoggedIn, LoggedOut

LEMMA EnvironmentSame ==
    ASSUME PanelInv, Expire \/ (\E r \in Runs : GoStale(r)) \/ UNCHANGED vars
    PROVE  \A t \in Tabs : SameLoop(t)
<1>1. CASE Expire
  <2>1. PICK still \in SUBSET Slots :
            task' = [s \in Slots |->
                        IF task[s] = Free \/ s \in still THEN task[s]
                        ELSE [task[s] EXCEPT !.session = FALSE]]
    BY <1>1 DEF Expire
  <2>2. ASSUME NEW s \in Slots
        PROVE  /\ Used(s)' <=> Used(s)
               /\ Used(s) => /\ task'[s].tab = task[s].tab /\ task'[s].kind = task[s].kind
                             /\ task'[s].run = task[s].run
    <3> DEFINE cut == [task[s] EXCEPT !.session = FALSE]
    <3>1. CASE Used(s)
      <4>1. task[s] \in Task
        BY <3>1, TaskType DEF PanelInv
      <4>2. /\ cut \in Task /\ cut.tab = task[s].tab
            /\ cut.kind = task[s].kind /\ cut.run = task[s].run
        BY <4>1 DEF Task
      <4>3. task'[s] \in {task[s], cut}
        BY <2>1
      <4> HIDE DEF cut
      <4> QED
        BY <3>1, <4>2, <4>3, PanelAssumption DEF Used
    <3>2. CASE ~Used(s)
      BY <2>1, <3>2 DEF Used
    <3> QED
      BY <3>1, <3>2
  <2> QED
    BY <2>2 DEF SameLoop, InLoop, RunFor
<1>2. CASE UNCHANGED task
  BY <1>2 DEF SameLoop, InLoop, Used, RunFor
<1> QED
  BY <1>1, <1>2 DEF GoStale, vars

LEMMA DriverStep ==
    PanelInv /\ PanelInv' /\ Reads /\ Reads' /\ [Next]_vars => [Driver!Next]_(Driver!vars)
<1> SUFFICES ASSUME PanelInv, PanelInv', Reads, Reads', [Next]_vars
             PROVE  [Driver!Next]_(Driver!vars)
  OBVIOUS
<1>1. ASSUME NEW t \in Tabs, Load(t) \/ SubmitAuth(t) \/ Logout(t) \/ StartRun(t)
      PROVE  [Driver!Next]_(Driver!vars)
  BY <1>1, UserFits, FittingStep
<1>2. ASSUME NEW s \in Slots, Serve(s)
      PROVE  [Driver!Next]_(Driver!vars)
  BY <1>2, ServeSame, Stutters
<1>3. ASSUME NEW s \in Slots, Handle(s)
      PROVE  [Driver!Next]_(Driver!vars)
  BY <1>3, HandleFits, FittingStep
<1>4. CASE Expire \/ (\E r \in Runs : GoStale(r)) \/ UNCHANGED vars
  BY <1>4, EnvironmentSame, Stutters
<1> QED
  BY <1>1, <1>2, <1>3, <1>4 DEF Next

(***************************************************************************)
(* TabsDriveRuns: the tabs implement RunDriver, which is what PipelineRun  *)
(* takes a tab to be.                                                      *)
(***************************************************************************)
THEOREM TabsDriveRuns == Spec => ImplementsRunDriver
<1>1. Init => Driver!Init
  <2> SUFFICES ASSUME Init
               PROVE  Driver!Init
    OBVIOUS
  <2>1. \A t \in Tabs, s \in Slots : ~InLoop(s, t)
    BY DEF Init, InLoop, Used
  <2>2. \A t \in Tabs : PhaseOf(t) = "idle" /\ RunOf(t) = NoRun
    BY <2>1, PanelInit, LoopReads DEF Reads
  <2> QED
    BY <2>2 DEF Driver!Init
<1>2. PanelInv => Reads
  BY LoopReads
<1> QED
  BY <1>1, <1>2, PanelInvariant, DriverStep, PTL DEF Spec, ImplementsRunDriver, Driver!Spec
=============================================================================
