----------------------------- MODULE AdminPanel -----------------------------
(***************************************************************************)
(* The operations panel (public/admin.js) in the tabs of one browser, the  *)
(* session cookie they share (middleware/adminAuth.ts, api/admin/auth.ts)  *)
(* and what api/admin/run.ts answers them.  Of a run only its status is    *)
(* kept: PipelineRun models what its steps do.  What the panel displays is *)
(* left out, and with it refreshStatus.                                    *)
(*                                                                         *)
(* A request, or a callback of setTimeout, takes a slot until its handler  *)
(* has run; a handler starts at most one other and reuses the slot.        *)
(***************************************************************************)
EXTENDS Naturals

CONSTANTS Tabs,
          Runs,      \* ids of runs, in the order they are started
          Slots,     \* bound of the model: callbacks at a time
          NoTab, NoRun, Free

(***************************************************************************)
(* row[r]    the server's runs; a stale one is running, but has not been   *)
(*           patched for 15 minutes                                        *)
(* cookie    the browser sends a session token that is neither expired nor *)
(*           of an earlier password                                        *)
(* authed[t], running[t], stepPending[t]   the state of a tab; its run     *)
(*           button is disabled while it is running                        *)
(* task[s]   requests and timers of tabs; a request is late once its tab   *)
(*           was answered by a timeout in its place                        *)
(***************************************************************************)
VARIABLES row, cookie, authed, running, stepPending, task

tab == <<authed, running, stepPending>>
vars == <<row, cookie, tab, task>>

Guarded == {"check", "start", "step"}
Requests == Guarded \cup {"login", "logout"}
Loop == {"start", "step", "pause", "retry"}
Task == [tab : Tabs \cup {NoTab}, kind : Requests \cup Loop,
         run : Runs \cup {NoRun}, session : BOOLEAN, late : BOOLEAN,
         reply : {"none", "ok", "running", "ended", "401", "504", "error"}]

ASSUME PanelAssumption ==
    /\ Runs \subseteq Nat /\ Slots \subseteq Nat
    /\ NoTab \notin Tabs /\ NoRun \notin Runs /\ Free \notin Task

TypeOK ==
    /\ row \in [Runs -> {"absent", "running", "stale", "ended"}]
    /\ cookie \in BOOLEAN
    /\ authed \in [Tabs -> BOOLEAN]
    /\ running \in [Tabs -> BOOLEAN]
    /\ stepPending \in [Tabs -> BOOLEAN]
    /\ task \in [Slots -> Task \cup {Free}]

New(t, kind, r) ==
    [tab |-> t, kind |-> kind, run |-> r, session |-> kind \in Guarded /\ cookie,
     late |-> FALSE, reply |-> "none"]

Init ==
    /\ row = [r \in Runs |-> "absent"]
    /\ cookie = FALSE
    /\ authed = [t \in Tabs |-> FALSE]
    /\ running = [t \in Tabs |-> FALSE]
    /\ stepPending = [t \in Tabs |-> FALSE]
    /\ task = [s \in Slots |-> Free]

-----------------------------------------------------------------------------
FirstFree(s) == task[s] = Free /\ \A q \in Slots : q < s => task[q] # Free

Waiting(s) == task[s] # Free /\ task[s].kind \in Requests /\ task[s].reply = "none"

Send(t, kind) ==
    \E s \in Slots : FirstFree(s) /\ task' = [task EXCEPT ![s] = New(t, kind, NoRun)]

\* init's checkSession, after the page was loaded (again): what the server was
\* asked for goes on without anybody waiting for it.
Load(t) ==
    /\ \E s \in Slots :
          /\ FirstFree(s)
          /\ task' = [q \in Slots |->
                IF q = s THEN New(t, "check", NoRun)
                ELSE IF task[q] = Free \/ task[q].tab # t THEN task[q]
                ELSE IF Waiting(q) THEN [task[q] EXCEPT !.tab = NoTab] ELSE Free]
    /\ authed' = [authed EXCEPT ![t] = FALSE]
    /\ running' = [running EXCEPT ![t] = FALSE]
    /\ stepPending' = [stepPending EXCEPT ![t] = FALSE]
    /\ UNCHANGED <<row, cookie>>

\* submitAuth; Enter in the input is not disabled with the button
SubmitAuth(t) ==
    /\ ~authed[t]
    /\ Send(t, "login")
    /\ UNCHANGED <<row, cookie, tab>>

\* Its button is shown with the login, too.
Logout(t) ==
    /\ Send(t, "logout")
    /\ UNCHANGED <<row, cookie, tab>>

\* startRun, with a valid count
StartRun(t) ==
    /\ authed[t] /\ ~running[t]
    /\ running' = [running EXCEPT ![t] = TRUE]
    /\ Send(t, "start")
    /\ UNCHANGED <<row, cookie, authed, stepPending>>

-----------------------------------------------------------------------------
Asked(s, kind) == Waiting(s) /\ task[s].kind = kind

\* requireAdminSession
Admitted(s, kind) == Asked(s, kind) /\ task[s].session

Answer(s, reply, r, session) ==
    task' = [task EXCEPT ![s] =
                IF @.tab = NoTab THEN Free
                ELSE [@ EXCEPT !.reply = reply, !.run = r, !.session = session]]

\* Faulty variant: an expired session is told from a missing one.
DenyExpired(s) ==
    /\ Waiting(s) /\ task[s].kind \in Guarded /\ ~task[s].session
    /\ Answer(s, "419", task[s].run, FALSE)
    /\ UNCHANGED <<row, cookie, tab>>

Deny(s) ==
    /\ Waiting(s) /\ task[s].kind \in Guarded /\ ~task[s].session
    /\ Answer(s, "401", task[s].run, FALSE)
    /\ UNCHANGED <<row, cookie, tab>>

\* The tab gets a reply that is not the handler's, which goes on.
LeaveAtWork(s, reply) ==
    /\ task[s].tab # NoTab
    /\ \E q \in Slots :
          /\ FirstFree(q)
          /\ task' = [task EXCEPT
                ![s] = [@ EXCEPT !.reply = reply, !.session = FALSE],
                ![q] = [task[s] EXCEPT !.tab = NoTab, !.late = reply = "504"]]

\* The request gets lost, or its handler fails before it did anything; or only
\* the connection does, and the handler goes on without anybody waiting for it.
Lose(s) ==
    /\ Waiting(s)
    /\ \/ Answer(s, "error", task[s].run, FALSE)
       \/ LeaveAtWork(s, "error")
    /\ UNCHANGED <<row, cookie, tab>>

\* getLatestRun
Status(s) ==
    /\ Admitted(s, "check")
    /\ Answer(s, "ok", NoRun, FALSE)
    /\ UNCHANGED <<row, cookie, tab>>

\* Faulty variant: while a run is active, a start resumes it.
CreateOrResume(s) ==
    /\ Admitted(s, "start")
    /\ \E r \in Runs :
          /\ \/ row[r] = "running" /\ UNCHANGED row
             \/ /\ \A q \in Runs : row[q] # "running" /\ (q < r => row[q] # "absent")
                /\ row[r] = "absent"
                /\ row' = [row EXCEPT ![r] = "running"]
          /\ Answer(s, "running", r, FALSE)
    /\ UNCHANGED <<cookie, tab>>

\* createRun; PipelineRun has its check and its insert apart
Create(s) ==
    /\ Admitted(s, "start")
    /\ IF \E r \in Runs : row[r] = "running"
       THEN Answer(s, "error", NoRun, FALSE) /\ UNCHANGED row
       ELSE \E r \in Runs :
               /\ row[r] = "absent" /\ \A q \in Runs : q < r => row[q] # "absent"
               /\ row' = [row EXCEPT ![r] = "running"]
               /\ \E reply \in {"running", "error"} : Answer(s, reply, r, FALSE)
    /\ UNCHANGED <<cookie, tab>>

\* stepRun: it shows a finished run and patches a running one.  Its answer may
\* be lost, or the platform may end it before or after its patch.
Advance(s) ==
    LET r == task[s].run
    IN  /\ Admitted(s, "step")
        /\ \/ /\ row[r] = "ended"
              /\ Answer(s, "ended", r, FALSE)
              /\ UNCHANGED row
           \/ /\ row[r] # "ended"
              /\ \E status \in {"running", "ended"} :
                    /\ row' = [row EXCEPT ![r] = status]
                    /\ \E reply \in {status, "error", "504"} : Answer(s, reply, r, FALSE)
           \/ Answer(s, "504", r, FALSE) /\ UNCHANGED row
        /\ UNCHANGED <<cookie, tab>>

\* "Function timeout - the hotel may still be processing on the server."
Overrun(s) ==
    /\ Admitted(s, "step")
    /\ LeaveAtWork(s, "504")
    /\ UNCHANGED <<row, cookie, tab>>

\* POST /api/admin/auth with the right password
Issue(s) ==
    /\ Asked(s, "login")
    /\ Answer(s, "ok", NoRun, TRUE)
    /\ UNCHANGED <<row, cookie, tab>>

\* DELETE /api/admin/auth asks for no session and revokes none.
Clear(s) ==
    /\ Asked(s, "logout")
    /\ Answer(s, "ok", NoRun, FALSE)
    /\ UNCHANGED <<row, cookie, tab>>

Serve(s) ==
    \/ Deny(s) \/ Lose(s) \/ Status(s) \/ Create(s) \/ Advance(s) \/ Overrun(s)
    \/ Issue(s) \/ Clear(s)

-----------------------------------------------------------------------------
Become(t, auth, run) ==
    /\ authed' = [authed EXCEPT ![t] = auth]
    /\ running' = [running EXCEPT ![t] = run]

Pending(t, pending) == stepPending' = [stepPending EXCEPT ![t] = pending]
Then(s, kind) == task' = [task EXCEPT ![s] = New(@.tab, kind, @.run)]
Finish(s) == task' = [task EXCEPT ![s] = Free]

Answered(s, kind) ==
    task[s] # Free /\ task[s].kind = kind /\ task[s].tab # NoTab /\ task[s].reply # "none"

Checked(s) ==
    LET t == task[s].tab
    IN  /\ Answered(s, "check")
        /\ Become(t, task[s].reply = "ok", running[t])
        /\ Finish(s)
        /\ UNCHANGED <<row, cookie, stepPending>>

LoggedIn(s) ==
    LET t == task[s].tab
    IN  /\ Answered(s, "login")
        /\ IF task[s].reply = "ok"
           THEN Become(t, TRUE, running[t]) /\ cookie' = task[s].session
           ELSE UNCHANGED <<cookie, authed, running>>
        /\ Finish(s)
        /\ UNCHANGED <<row, stepPending>>

\* Whatever the reply; the loop is not told.
LoggedOut(s) ==
    LET t == task[s].tab
    IN  /\ Answered(s, "logout")
        /\ cookie' = (cookie /\ task[s].reply # "ok")
        /\ Become(t, FALSE, running[t])
        /\ Finish(s)
        /\ UNCHANGED <<row, stepPending>>

\* scheduleStep, which does nothing while a step is pending
Schedule(s, pending) ==
    /\ IF pending THEN Finish(s) ELSE Then(s, "pause")
    /\ Pending(task[s].tab, TRUE)

\* An answer with a run that is not running, and an error, end the loop; so
\* does handleAuthExpired, which shows the login as well.
EndLoop(s, pending) ==
    LET t == task[s].tab
    IN  /\ Become(t, authed[t] /\ task[s].reply # "401", FALSE)
        /\ Pending(t, pending)
        /\ Finish(s)

Started(s) ==
    LET pending == stepPending[task[s].tab]
    IN  /\ Answered(s, "start")
        /\ IF task[s].reply = "running"
           THEN Schedule(s, pending) /\ UNCHANGED <<authed, running>>
           ELSE EndLoop(s, pending)
        /\ UNCHANGED <<row, cookie>>

\* Faulty variant: after a timeout the step still counts as pending.
SteppedStillPending(s) ==
    LET t == task[s].tab
    IN  /\ Answered(s, "step")
        /\ \/ /\ task[s].reply = "running"
              /\ Schedule(s, FALSE)
              /\ UNCHANGED <<authed, running>>
           \/ /\ task[s].reply = "504"
              /\ Then(s, "retry")
              /\ UNCHANGED tab
           \/ /\ task[s].reply \notin {"running", "504"}
              /\ EndLoop(s, FALSE)
        /\ UNCHANGED <<row, cookie>>

\* Faulty variant: every error is retried.
SteppedRetrying(s) ==
    LET t == task[s].tab
    IN  /\ Answered(s, "step")
        /\ \/ /\ task[s].reply \in {"running", "error"}
              /\ Schedule(s, FALSE)
              /\ UNCHANGED <<authed, running>>
           \/ /\ task[s].reply = "504"
              /\ Then(s, "retry")
              /\ Pending(t, FALSE)
              /\ UNCHANGED <<authed, running>>
           \/ /\ task[s].reply \in {"ended", "401"}
              /\ EndLoop(s, FALSE)
        /\ UNCHANGED <<row, cookie>>

\* Faulty variant: an expired session shows the login and is retried.
SteppedWaiting(s) ==
    LET t == task[s].tab
    IN  /\ Answered(s, "step")
        /\ \/ /\ task[s].reply = "running"
              /\ Schedule(s, FALSE)
              /\ UNCHANGED <<authed, running>>
           \/ /\ task[s].reply \in {"401", "504"}
              /\ Then(s, "retry")
              /\ Pending(t, FALSE)
              /\ Become(t, authed[t] /\ task[s].reply # "401", running[t])
           \/ /\ task[s].reply \in {"ended", "error"}
              /\ EndLoop(s, FALSE)
        /\ UNCHANGED <<row, cookie>>

\* The answer to doStep: it goes on while the run is running, and, after two
\* more seconds, when the function was timed out.
Stepped(s) ==
    LET t == task[s].tab
    IN  /\ Answered(s, "step")
        /\ \/ /\ task[s].reply = "running"
              /\ Schedule(s, FALSE)
              /\ UNCHANGED <<authed, running>>
           \/ /\ task[s].reply = "504"
              /\ Then(s, "retry")
              /\ Pending(t, FALSE)
              /\ UNCHANGED <<authed, running>>
           \/ /\ task[s].reply \notin {"running", "504"}
              /\ EndLoop(s, FALSE)
        /\ UNCHANGED <<row, cookie>>

\* The callbacks of setTimeout, of scheduleStep and after a timeout
Due(s, kind) == task[s] # Free /\ task[s].kind = kind

DoStep(s) ==
    /\ Due(s, "pause")
    /\ Then(s, "step")
    /\ UNCHANGED <<row, cookie, tab>>

RetryStep(s) ==
    /\ Due(s, "retry")
    /\ Schedule(s, stepPending[task[s].tab])
    /\ UNCHANGED <<row, cookie, authed, running>>

Handle(s) ==
    \/ Checked(s) \/ LoggedIn(s) \/ LoggedOut(s)
    \/ Started(s) \/ Stepped(s) \/ DoStep(s) \/ RetryStep(s)

-----------------------------------------------------------------------------
\* Four hours have passed since a token was issued, or ADMIN_PASSWORD changed.
Expire ==
    /\ cookie' \in {cookie, FALSE}
    /\ \E still \in SUBSET Slots :
          task' = [s \in Slots |->
                      IF task[s] = Free \/ s \in still THEN task[s]
                      ELSE [task[s] EXCEPT !.session = FALSE]]
    /\ UNCHANGED <<row, tab>>
    /\ vars' # vars

\* 15 minutes without a patch
GoStale(r) ==
    /\ row[r] = "running"
    /\ row' = [row EXCEPT ![r] = "stale"]
    /\ UNCHANGED <<cookie, tab, task>>

Next ==
    \/ \E t \in Tabs : Load(t) \/ SubmitAuth(t) \/ Logout(t) \/ StartRun(t)
    \/ \E s \in Slots : Serve(s) \/ Handle(s)
    \/ Expire
    \/ \E r \in Runs : GoStale(r)

Spec == Init /\ [][Next]_vars

\* Requests are answered, at the latest when the platform ends them, and the
\* browser runs its callbacks.  Users and the clock need not do anything.
FairSpec == Spec /\ \A s \in Slots : WF_vars(Serve(s)) /\ WF_vars(Handle(s))

-----------------------------------------------------------------------------
LoopTasks(t) ==
    {s \in Slots : task[s] # Free /\ task[s].tab = t /\ task[s].kind \in Loop}

(***************************************************************************)
(* ButtonTellsLoop: the run button is disabled exactly while the tab has a *)
(* request or timer that will enable it again or repeat the step, and it   *)
(* has only one, whatever logouts, expired sessions, timeouts and late     *)
(* answers to other requests come in between.  (A loop whose step were     *)
(* dropped by stepPending would leave the button disabled for ever.)       *)
(***************************************************************************)
ButtonTellsLoop ==
    \A t \in Tabs :
        /\ running[t] <=> LoopTasks(t) # {}
        /\ \A s, q \in LoopTasks(t) : s = q

(***************************************************************************)
(* OnlyLateStepsOverlap: the panel "drives the pipeline one step at a      *)
(* time" (admin.js:14), and stepPending "prevents duplicate concurrent     *)
(* step calls" (31).  It does not: a timeout clears stepPending, and two   *)
(* seconds later the step is repeated beside the one that "may still be    *)
(* processing" (513); see Overrun and RetryStep.  That is the only way: of *)
(* the steps of a run that are being executed at most one has not been     *)
(* given up by a timeout, also after reloads, lost connections and logins  *)
(* in several tabs.  The late ones are the duplicate steps of PipelineRun. *)
(***************************************************************************)
OnlyLateStepsOverlap ==
    \A s, q \in Slots :
        /\ Asked(s, "step") /\ ~task[s].late
        /\ Asked(q, "step") /\ ~task[q].late
        /\ task[s].run = task[q].run
        => s = q

PhaseOf(t) ==
    LET kinds == {task[s].kind : s \in LoopTasks(t)}
    IN  IF kinds = {} THEN "idle"
        ELSE IF "start" \in kinds THEN "starting"
        ELSE IF "step" \in kinds THEN "stepping" ELSE "pausing"

RunOf(t) ==
    LET named == {s \in LoopTasks(t) : task[s].kind # "start"}
    IN  IF named = {} THEN NoRun ELSE task[CHOOSE s \in named : TRUE].run

Driver == INSTANCE RunDriver WITH phase <- [t \in Tabs |-> PhaseOf(t)],
                                  run <- [t \in Tabs |-> RunOf(t)]

(***************************************************************************)
(* ImplementsRunDriver: every tab drives its runs as PipelineRun assumes:  *)
(* one at a time, one step at a time, never another tab's.                 *)
(***************************************************************************)
ImplementsRunDriver == Driver!Spec

(***************************************************************************)
(* SignedOutStops: once the browser has no valid session, by logout in any *)
(* tab, expiry or a new password, every loop ends, unless somebody logs in *)
(* again first.                                                            *)
(***************************************************************************)
SignedOutStops ==
    \A t \in Tabs : (running[t] /\ ~cookie) ~> (~running[t] \/ cookie)
=============================================================================
