-------------------------- MODULE AutomationProofs --------------------------
(***************************************************************************)
(* Theorems about Automation, for every number of wakeups, runs, sessions, *)
(* items and faults and every policy.                                      *)
(*                                                                         *)
(* A task that has yet to attach a session holds its wakeup (Holds): the   *)
(* wakeup stays running, and the only run of it that may be active is the  *)
(* task's own, which nobody else can start, settle or refuse.  What makes  *)
(* this inductive is what the tick and the reports may find: a wakeup with *)
(* an active run is never queued, so no second task claims it (RunInv),    *)
(* and while the tick settles or recovers a run, no task holds the run's   *)
(* wakeup (HandlerInv).                                                    *)
(***************************************************************************)
EXTENDS Automation, TLAPS, FiniteSetTheorems, WellFoundedInduction

\* The wakeup is the task's until it has attached a session, or gives up
\* other than for an item that is taken.
Holds(w) ==
    task[w].at \notin {"idle", "bootstrap", "cancel", "cancelWake"} \/ task[w].to = "skipped"

\* The task works on a run that it has neither attached nor cancelled.
Starts(w) ==
    \/ task[w].at \in {"checkout", "preflight", "attach"}
    \/ task[w].at = "cancel" /\ task[w].to = "skipped"

NoRunYet == {"idle", "resolve", "lookup", "act", "coalesced"}

TaskOK(w) ==
    /\ Processing(w) => wake[w].status \notin {"none", "queued"}
    /\ Holds(w) => wake[w].status = "running"
    /\ task[w].at \in NoRunYet <=> task[w].run = 0
    /\ task[w].run # 0 =>
           run[task[w].run].wake = w /\ run[task[w].run].status # "none"
    /\ Starts(w) => run[task[w].run].status = "starting"
    /\ task[w].at \in {"checkout", "preflight", "attach"} =>
           approval[task[w].run] = "none"
    /\ task[w].at \in {"requeue", "cancelWake"} => ~IsActive(task[w].run)
    /\ task[w].at \in {"cancel", "cancelWake"} <=> task[w].to # "none"
    /\ task[w].at = "requeue" => wake[w].waits < MaxWaits
TaskInv == \A w \in Wakes : TaskOK(w)

RunOK(r) ==
    /\ run[r].status = "none" => run[r].report = "none" /\ approval[r] = "none"
    /\ run[r].status # "none" => run[r].wake # 0
    /\ run[r].session # 0 =>
           run[r].status \notin {"none", "starting"} /\ approval[r] = "none"
    /\ run[r].report # "none" => run[r].status \notin {"none", "starting", "running"}
    /\ IsActive(r) => wake[run[r].wake].status \notin {"none", "queued"}
    /\ IsActive(r) => ~Holds(run[r].wake) \/ task[run[r].wake].run = r
RunInv == \A r \in Runs : RunOK(r)

OneActiveRun ==
    \A r, q \in Runs : IsActive(r) /\ IsActive(q) /\ run[q].wake = run[r].wake => q = r

\* The run of a handler at work has been started, and given up or attached.
Begun ==
    \A h \in Handlers : handler[h].at # "rest" =>
        handler[h].run # 0 /\ run[handler[h].run].status \notin {"none", "starting"}

\* While the tick recovers the wakeup of a run, nothing else is about the wakeup.
Recovering ==
    handler[Tick].at = "recover" =>
        LET w == run[handler[Tick].run].wake IN ~Processing(w) /\ NoActiveRunOf(w)

\* While the tick settles a run, no task holds the run's wakeup.
Settling ==
    handler[Tick].at \in {"finalize", "item", "wake"} => ~Holds(run[handler[Tick].run].wake)

AutomationInv ==
    TypeOK /\ TaskInv /\ RunInv /\ OneActiveRun /\ Begun /\ Recovering /\ Settling
    /\ ReportedIsOver

-----------------------------------------------------------------------------
\* Helpers.

LEMMA LeastOfSet ==
    ASSUME NEW T \in SUBSET Nat, T # {} PROVE \E x \in T : \A y \in T : x <= y
<1> DEFINE R == OpToRel(<, Nat)
<1>1. IsWellFoundedOn(R, Nat)
    BY NatLessThanWellFounded
<1>2. \A x, y \in Nat : <<x, y>> \in R <=> x < y
    BY DEF OpToRel
<1> HIDE DEF R
<1>3. PICK x \in T : \A y \in T : ~(<<y, x>> \in R)
    BY <1>1, WFMin
<1>4. \A y \in T : y \in Nat /\ x \in Nat /\ ~(y < x)
    BY <1>2, <1>3
<1>5. QED
    BY <1>4

\* First picks a member of a set of rows that has one.
LEMMA FirstIsMember ==
    ASSUME NEW T \in SUBSET Nat, T # {} PROVE First(T) \in T
BY LeastOfSet DEF First

\* The bounds are natural numbers.
LEMMA Bounds ==
    /\ MaxWakes \in Nat \ {0} /\ MaxRuns \in Nat \ {0} /\ MaxSessions \in Nat
    /\ Wakes \subseteq Nat \ {0} /\ Runs \subseteq Nat \ {0} /\ Sessions \subseteq Nat \ {0}
    /\ None \notin Items /\ Tick \notin Runs /\ Tick \in Handlers
    /\ Outcomes \subseteq {"succeeded", "failed", "blocked"} /\ Ends \subseteq {"done", "error"}
    /\ MaxWaits \in Nat /\ MaxStalls \in Nat /\ MaxRequeues \in Nat /\ MaxFaults \in Nat
BY AutomationAssumption DEF Wakes, Runs, Sessions, Tick, Handlers

\* The rows a table starts with, and the state of a task and handler at rest.
LEMMA FreshRows ==
    /\ NoTask \in TaskStates /\ Rest \in HandlerStates /\ NoRun \in RunRows /\ NoWake \in WakeRows
    /\ \A i \in Items \cup {None}, key \in Keys : NewWake(i, key) \in WakeRows
    /\ \A w \in Wakes : NewRun(w) \in RunRows
<1>1. NoTask \in TaskStates /\ Rest \in HandlerStates
    BY Bounds DEF NoTask, TaskStates, Rest, HandlerStates
<1>2. \A i \in Items \cup {None}, key \in Keys : NewWake(i, key) \in WakeRows
    BY Bounds DEF NewWake, WakeRows
<1>3. \A w \in 0..MaxWakes : NewRun(w) \in RunRows
    BY Bounds DEF NewRun, RunRows
<1>4. NoRun \in RunRows
    BY <1>3, Bounds DEF NoRun, RunRows
<1>5. NoWake \in WakeRows
    <2>1. <<0, 0>> \in Keys
        BY DEF Keys
    <2>2. NewWake(None, <<0, 0>>) \in WakeRows
        BY <1>2, <2>1
    <2>3. QED
        BY <2>2 DEF NoWake, WakeRows
<1>6. QED
    BY <1>1, <1>2, <1>3, <1>4, <1>5 DEF Wakes

LEMMA TypeInit == Init => TypeOK
BY Bounds, FreshRows DEF Init, TypeOK, ItemRows

-----------------------------------------------------------------------------
\* What the table operations do, row by row.

Tasks == [Wakes -> TaskStates]

LEMMA SetWakeEffect ==
    ASSUME TypeOK, NEW w \in Wakes, NEW status,
           status \in {"none", "queued", "running", "completed", "skipped", "blocked",
                       "coalesced", "failed"}, SetWake(w, status)
    PROVE  /\ wake' \in [Wakes -> WakeRows]
           /\ wake'[w].status = status /\ wake'[w].waits = wake[w].waits
           /\ \A v \in Wakes \ {w} : wake'[v] = wake[v]
<1> DEFINE row == [wake[w] EXCEPT !.status = status]
<1>1. wake \in [Wakes -> WakeRows] /\ wake[w] \in WakeRows /\ wake' = [wake EXCEPT ![w] = row]
    BY DEF TypeOK, SetWake
<1>2. row \in WakeRows /\ row.status = status /\ row.waits = wake[w].waits
    BY <1>1 DEF WakeRows
<1> HIDE DEF row
<1>3. QED
    BY <1>1, <1>2

LEMMA SetRunEffect ==
    ASSUME TypeOK, NEW r \in Runs, NEW status,
           status \in {"none", "starting", "running", "succeeded", "failed", "blocked",
                       "cancelled"}, SetRun(r, status)
    PROVE  /\ run' \in [Runs -> RunRows]
           /\ run'[r].status = status /\ run'[r].wake = run[r].wake
           /\ run'[r].session = run[r].session /\ run'[r].report = run[r].report
           /\ \A q \in Runs \ {r} : run'[q] = run[q]
<1> DEFINE row == [run[r] EXCEPT !.status = status]
<1>1. run \in [Runs -> RunRows] /\ run[r] \in RunRows /\ run' = [run EXCEPT ![r] = row]
    BY DEF TypeOK, SetRun
<1>2. /\ row \in RunRows /\ row.status = status /\ row.wake = run[r].wake
      /\ row.session = run[r].session /\ row.report = run[r].report
    BY <1>1 DEF RunRows
<1> HIDE DEF row
<1>3. QED
    BY <1>1, <1>2

\* What is noted about a run changes nothing else of it.
LEMMA RunNoteEffect ==
    ASSUME TypeOK, NEW r \in Runs, NEW more \in SUBSET Wakes, NEW seen \in BOOLEAN,
           \/ run' = [run EXCEPT ![r].pending = more]
           \/ run' = [run EXCEPT ![r].observed = seen]
    PROVE  /\ run' \in [Runs -> RunRows]
           /\ \A q \in Runs : /\ run'[q].status = run[q].status /\ run'[q].wake = run[q].wake
                              /\ run'[q].session = run[q].session /\ run'[q].report = run[q].report
<1>1. run \in [Runs -> RunRows] /\ run[r] \in RunRows
    BY DEF TypeOK
<1>2. PICK row : /\ run' = [run EXCEPT ![r] = row]
                 /\ \/ row = [run[r] EXCEPT !.pending = more]
                    \/ row = [run[r] EXCEPT !.observed = seen]
    OBVIOUS
<1>3. /\ row \in RunRows /\ row.status = run[r].status /\ row.wake = run[r].wake
      /\ row.session = run[r].session /\ row.report = run[r].report
    BY <1>1, <1>2 DEF RunRows
<1>4. QED
    BY <1>1, <1>2, <1>3

LEMMA GotoEffect ==
    ASSUME TypeOK, NEW w \in Wakes, NEW at,
           at \in {"idle", "resolve", "lookup", "act", "coalesced", "checkout", "preflight",
                   "requeue", "attach", "bootstrap", "cancel", "cancelWake"}, Goto(w, at)
    PROVE  /\ task' \in Tasks
           /\ task'[w].at = at /\ task'[w].run = task[w].run /\ task'[w].to = task[w].to
           /\ \A v \in Wakes \ {w} : task'[v] = task[v]
<1> DEFINE state == [task[w] EXCEPT !.at = at]
<1>1. task \in Tasks /\ task[w] \in TaskStates /\ task' = [task EXCEPT ![w] = state]
    BY DEF TypeOK, Goto, Tasks
<1>2. /\ state \in TaskStates
      /\ state.at = at /\ state.run = task[w].run /\ state.to = task[w].to
    BY <1>1 DEF TaskStates
<1> HIDE DEF state
<1>3. QED
    BY <1>1, <1>2 DEF Tasks

LEMMA FinishEffect ==
    ASSUME TypeOK, NEW w \in Wakes, Finish(w)
    PROVE  /\ task' \in Tasks
           /\ task'[w].at = "idle" /\ task'[w].run = 0 /\ task'[w].to = "none"
           /\ \A v \in Wakes \ {w} : task'[v] = task[v]
BY FreshRows DEF TypeOK, Finish, NoTask, Tasks

LEMMA LaunchFailsEffect ==
    ASSUME TypeOK, NEW w \in Wakes, LaunchFails(w)
    PROVE  /\ task' \in Tasks
           /\ task'[w].at = "cancel" /\ task'[w].run = task[w].run /\ task'[w].to = "failed"
           /\ \A v \in Wakes \ {w} : task'[v] = task[v]
<1> DEFINE state == [task[w] EXCEPT !.at = "cancel", !.to = "failed"]
<1>1. task \in Tasks /\ task[w] \in TaskStates /\ task' = [task EXCEPT ![w] = state]
    BY DEF TypeOK, LaunchFails, Tasks
<1>2. /\ state \in TaskStates
      /\ state.at = "cancel" /\ state.run = task[w].run /\ state.to = "failed"
    BY <1>1 DEF TaskStates
<1> HIDE DEF state
<1>3. QED
    BY <1>1, <1>2 DEF Tasks

LEMMA HandleEffect ==
    ASSUME TypeOK, NEW h \in Handlers, NEW at,
           at \in {"rest", "recover", "finalize", "item", "wake", "runtime", "reported",
                   "follow", "clear"}, Handle(h, at)
    PROVE  /\ handler' \in [Handlers -> HandlerStates]
           /\ handler'[h].at = at /\ handler'[h].run = handler[h].run
           /\ \A g \in Handlers \ {h} : handler'[g] = handler[g]
<1> DEFINE state == [handler[h] EXCEPT !.at = at]
<1>1. /\ handler \in [Handlers -> HandlerStates] /\ handler[h] \in HandlerStates
      /\ handler' = [handler EXCEPT ![h] = state]
    BY DEF TypeOK, Handle
<1>2. state \in HandlerStates /\ state.at = at /\ state.run = handler[h].run
    BY <1>1 DEF HandlerStates
<1> HIDE DEF state
<1>3. QED
    BY <1>1, <1>2

LEMMA DoneEffect ==
    ASSUME TypeOK, NEW h \in Handlers, Done(h)
    PROVE  /\ handler' \in [Handlers -> HandlerStates]
           /\ handler'[h].at = "rest"
           /\ \A g \in Handlers \ {h} : handler'[g] = handler[g]
BY FreshRows DEF TypeOK, Done, Rest

LEMMA TaskRowEffect ==
    ASSUME TypeOK, NEW w \in Wakes, NEW state \in TaskStates, task' = [task EXCEPT ![w] = state]
    PROVE  /\ task' \in Tasks
           /\ task'[w] = state
           /\ \A v \in Wakes \ {w} : task'[v] = task[v]
BY DEF TypeOK, Tasks

\* Numbers other than 0 that a row or a state holds name a row.
LEMMA Ranges ==
    ASSUME TypeOK
    PROVE  /\ \A w \in Wakes : task[w].run # 0 => task[w].run \in Runs
           /\ \A r \in Runs : run[r].wake # 0 => run[r].wake \in Wakes
           /\ \A h \in Handlers : handler[h].run # 0 => handler[h].run \in Runs
<1>1. \A w \in Wakes : task[w].run \in 0..MaxRuns
    BY DEF TypeOK, TaskStates
<1>2. \A r \in Runs : run[r].wake \in 0..MaxWakes
    BY DEF TypeOK, RunRows
<1>3. \A h \in Handlers : handler[h].run \in 0..MaxRuns
    BY DEF TypeOK, HandlerStates
<1>4. QED
    BY <1>1, <1>2, <1>3, Bounds DEF Wakes, Runs

-----------------------------------------------------------------------------
\* What every step but a few keeps.

\* No run is created, started again or given to another wakeup.
RunsGoOn ==
    \A r \in Runs :
        /\ run[r].status \notin {"none", "starting"} => run'[r].status \notin {"none", "starting"}
        /\ run[r].status # "none" => run'[r].wake = run[r].wake
        /\ run'[r].status \in {"starting", "running"} => run[r].status \in {"starting", "running"}

\* No wakeup is claimed.
TasksGoOn ==
    \A w \in Wakes :
        /\ ~Processing(w) => ~Processing(w)'
        /\ ~Holds(w) => ~Holds(w)'

\* With the tick where it was, what it builds on stays.
LEMMA TickKept ==
    ASSUME AutomationInv, RunsGoOn, TasksGoOn, UNCHANGED handler
    PROVE  Begun' /\ Recovering' /\ Settling'
<1> DEFINE q == handler[Tick].run
<1>1. TypeOK /\ RunInv /\ Begun /\ Recovering /\ Settling
    BY DEF AutomationInv
<1>2. Begun'
    BY <1>1, Ranges DEF Begun, RunsGoOn
<1>3. handler[Tick].at # "rest" =>
        /\ q \in Runs /\ run[q].wake \in Wakes /\ run'[q].wake = run[q].wake
    <2>1. handler[Tick].at # "rest" => q \in Runs /\ run[q].status # "none"
        BY <1>1, Ranges, Bounds DEF Begun
    <2>2. QED
        BY <1>1, <2>1, Ranges DEF RunsGoOn, RunInv, RunOK
<1>4. \A w \in Wakes : NoActiveRunOf(w) => NoActiveRunOf(w)'
    BY DEF NoActiveRunOf, ActiveRuns, IsActive, RunsGoOn
<1>5. Recovering'
    BY <1>1, <1>3, <1>4 DEF Recovering, TasksGoOn
<1>6. Settling'
    BY <1>1, <1>3 DEF Settling, TasksGoOn
<1>7. QED
    BY <1>2, <1>5, <1>6

\* A step that starts no run leaves a wakeup at most one active run.
LEMMA OneActiveKept ==
    ASSUME OneActiveRun, RunsGoOn PROVE OneActiveRun'
BY DEF OneActiveRun, RunsGoOn, IsActive

-----------------------------------------------------------------------------
\* The steps of a task.

\* A step that only takes the task of a wakeup further.
LEMMA TaskAdvances ==
    ASSUME AutomationInv, TypeOK', NEW w \in Wakes, Processing(w), TaskOK(w)',
           \A v \in Wakes \ {w} : task'[v] = task[v],
           Holds(w)' => Holds(w) /\ task'[w].run = task[w].run,
           UNCHANGED <<wake, handler>>,
           \A r \in Runs : /\ run'[r].status = run[r].status /\ run'[r].wake = run[r].wake
                           /\ run'[r].session = run[r].session /\ run'[r].report = run[r].report,
           \A r \in Runs : approval'[r] = approval[r] \/ (r = task[w].run /\ Starts(w))
    PROVE  AutomationInv'
<1>1. TypeOK /\ TaskInv /\ RunInv /\ OneActiveRun /\ ReportedIsOver
    BY DEF AutomationInv
<1>2. TaskInv'
    <2> SUFFICES ASSUME NEW v \in Wakes \ {w} PROVE TaskOK(v)'
        BY DEF TaskInv
    <2>1. TaskOK(v) /\ TaskOK(w) /\ task'[v] = task[v]
        BY <1>1 DEF TaskInv
    <2>2. task[v].run # 0 => task[v].run \in Runs /\ (task[w].run = task[v].run => v = w)
        BY <1>1, <2>1, Ranges DEF TaskOK
    <2>3. QED
        BY <2>1, <2>2 DEF TaskOK, Processing, Holds, Starts, NoRunYet, IsActive
<1>3. RunInv'
    <2> SUFFICES ASSUME NEW r \in Runs PROVE RunOK(r)'
        BY DEF RunInv
    <2>1. RunOK(r) /\ TaskOK(w)
        BY <1>1 DEF RunInv, TaskInv
    <2>2. approval'[r] = approval[r] \/ run[r].status = "starting"
        BY <2>1 DEF TaskOK
    <2>3. run[r].status # "none" => run[r].wake \in Wakes
        BY <1>1, <2>1, Ranges DEF RunOK
    <2>4. QED
        BY <2>1, <2>2, <2>3 DEF RunOK, Holds, IsActive
<1>4. RunsGoOn /\ TasksGoOn
    BY <1>1 DEF RunsGoOn, TasksGoOn, Processing, Holds
<1>5. ReportedIsOver'
    BY <1>1 DEF ReportedIsOver
<1>6. QED
    BY <1>1, <1>2, <1>3, <1>4, <1>5, TickKept, OneActiveKept DEF AutomationInv

\* A step that ends the task of a wakeup, and may set the wakeup's status.
LEMMA TaskEnds ==
    ASSUME AutomationInv, TypeOK', NEW w \in Wakes, Processing(w), Finish(w),
           \A v \in Wakes \ {w} : wake'[v] = wake[v],
           \/ wake'[w].status = wake[w].status
           \/ wake'[w].status \in {"completed", "failed", "blocked"}
           \/ Holds(w) /\ wake'[w].status \in {"skipped", "coalesced"}
           \/ /\ Holds(w) /\ wake'[w].status = "queued"
              /\ task[w].run = 0 \/ ~IsActive(task[w].run),
           UNCHANGED <<run, approval, handler>>
    PROVE  AutomationInv'
<1>1. TypeOK /\ TaskInv /\ RunInv /\ OneActiveRun /\ ReportedIsOver
    BY DEF AutomationInv
<1>2. /\ task'[w].at = "idle" /\ task'[w].run = 0 /\ task'[w].to = "none"
      /\ \A v \in Wakes \ {w} : task'[v] = task[v]
    BY <1>1, FinishEffect
<1>3. TaskInv'
    BY <1>1, <1>2, Ranges
    DEF TaskInv, TaskOK, Processing, Holds, Starts, NoRunYet, IsActive
<1>4. RunInv'
    <2> SUFFICES ASSUME NEW r \in Runs PROVE RunOK(r)'
        BY DEF RunInv
    <2>1. RunOK(r) /\ TaskOK(w) /\ (run[r].status # "none" => run[r].wake \in Wakes)
        BY <1>1, Ranges DEF RunInv, TaskInv, RunOK
    <2>2. CASE run[r].wake = w
        BY <1>2, <2>1, <2>2, Bounds DEF RunOK, TaskOK, Holds, IsActive
    <2>3. CASE run[r].wake # w
        BY <1>2, <2>1, <2>3 DEF RunOK, Holds, IsActive
    <2>4. QED
        BY <2>2, <2>3
<1>5. RunsGoOn /\ TasksGoOn
    BY <1>1, <1>2 DEF RunsGoOn, TasksGoOn, Processing, Holds
<1>6. ReportedIsOver'
    <2> SUFFICES ASSUME NEW r \in Runs, run[r].report # "none"
                 PROVE  wake'[run[r].wake].status \in {"completed", "failed", "blocked"}
        BY DEF ReportedIsOver
    <2>1. RunOK(r) /\ wake[run[r].wake].status \in {"completed", "failed", "blocked"}
        BY <1>1 DEF RunInv, ReportedIsOver
    <2>2. run[r].wake \in Wakes
        BY <1>1, <2>1, Ranges DEF RunOK
    <2>3. Holds(w) => wake[w].status = "running"
        BY <1>1 DEF TaskInv, TaskOK
    <2>4. QED
        BY <2>1, <2>2, <2>3
<1>7. QED
    BY <1>1, <1>3, <1>4, <1>5, <1>6, TickKept, OneActiveKept DEF AutomationInv

\* What is true of the task of a wakeup that is at work.
LEMMA AtWork ==
    ASSUME AutomationInv, NEW w \in Wakes, task[w].at # "idle"
    PROVE  /\ TypeOK /\ TaskOK(w) /\ Processing(w)
           /\ task[w].at \notin NoRunYet => task[w].run \in Runs
BY Ranges DEF AutomationInv, TaskInv, TaskOK, Processing, NoRunYet

\* Looking for a session to reuse, and for the run that is active.
LEMMA ResolveKeeps ==
    ASSUME AutomationInv, NEW w \in Wakes, Resolve(w) PROVE AutomationInv'
<1> DEFINE live == runtime # 0 /\ online /\ session[runtime] \in {"idle", "busy"}
           busy == live /\ session[runtime] = "busy" /\ MaxParallel = 1
           own == IF live /\ session[runtime] = "idle" THEN runtime ELSE 0
           state == [task[w] EXCEPT !.at = "lookup", !.session = own,
                                    !.full = task[w].full \/ busy]
<1>1. /\ TypeOK /\ TaskOK(w) /\ Processing(w) /\ task[w].at = "resolve"
    BY AtWork DEF Resolve
<1>2. own \in 0..MaxSessions /\ (task[w].full \/ busy) \in BOOLEAN /\ runtime' \in 0..MaxSessions
    BY <1>1, Bounds DEF TypeOK, Resolve
<1>3. task' = [task EXCEPT ![w] = state]
    BY DEF Resolve
<1> HIDE DEF own, busy, live
<1>4. /\ state \in TaskStates
      /\ state.at = "lookup" /\ state.run = task[w].run /\ state.to = task[w].to
    <2>1. task[w] \in TaskStates
        BY <1>1 DEF TypeOK
    <2>2. QED
        BY <1>2, <2>1 DEF TaskStates
<1> HIDE DEF state
<1>5. task' \in Tasks /\ task'[w] = state /\ \A v \in Wakes \ {w} : task'[v] = task[v]
    BY <1>1, <1>3, <1>4, TaskRowEffect
<1>6. UNCHANGED <<wake, run, approval, item, agent, session, online, faults, handler>>
    BY DEF Resolve, outside
<1>7. TypeOK'
    BY <1>1, <1>2, <1>5, <1>6 DEF TypeOK, Tasks
<1>8. TaskOK(w)' /\ Holds(w) /\ task'[w].run = task[w].run
    BY <1>1, <1>4, <1>5, <1>6 DEF TaskOK, Processing, Holds, Starts, NoRunYet
<1>9. QED
    BY <1>1, <1>5, <1>6, <1>7, <1>8, TaskAdvances

LEMMA LookupKeeps ==
    ASSUME AutomationInv, NEW w \in Wakes, Lookup(w) PROVE AutomationInv'
<1> DEFINE found == IF ActiveRuns = {} THEN 0 ELSE First(ActiveRuns)
           state == [task[w] EXCEPT !.at = "act", !.active = found]
<1>1. /\ TypeOK /\ TaskOK(w) /\ Processing(w) /\ task[w].at = "lookup"
    BY AtWork DEF Lookup
<1>2. found \in 0..MaxRuns
    BY Bounds, FirstIsMember DEF ActiveRuns, Runs
<1>3. task' = [task EXCEPT ![w] = state]
    BY DEF Lookup
<1> HIDE DEF found
<1>4. /\ state \in TaskStates
      /\ state.at = "act" /\ state.run = task[w].run /\ state.to = task[w].to
    BY <1>1, <1>2 DEF TypeOK, TaskStates
<1> HIDE DEF state
<1>5. task' \in Tasks /\ task'[w] = state /\ \A v \in Wakes \ {w} : task'[v] = task[v]
    BY <1>1, <1>3, <1>4, TaskRowEffect
<1>6. UNCHANGED <<wake, run, approval, item, runtime, agent, session, online, faults, handler>>
    BY DEF Lookup, tables, outside
<1>7. TypeOK'
    BY <1>1, <1>5, <1>6 DEF TypeOK, Tasks
<1>8. TaskOK(w)' /\ Holds(w) /\ task'[w].run = task[w].run
    BY <1>1, <1>4, <1>5, <1>6 DEF TaskOK, Processing, Holds, Starts, NoRunYet
<1>9. QED
    BY <1>1, <1>5, <1>6, <1>7, <1>8, TaskAdvances

\* A follow-up appended to a run changes nothing else of the run.
LEMMA CoalesceKeeps ==
    ASSUME AutomationInv, NEW w \in Wakes, Coalesce(w) PROVE AutomationInv'
<1> DEFINE a == task[w].active
<1>1. /\ TypeOK /\ TaskOK(w) /\ Processing(w) /\ task[w].at = "act" /\ a \in Runs
    <2>1. a \in 0..MaxRuns /\ a # 0
        BY AtWork DEF Coalesce, TypeOK, TaskStates
    <2>2. QED
        BY <2>1, AtWork, Bounds DEF Coalesce, Runs
<1>2. run' = [run EXCEPT ![a].pending = run[a].pending \cup {w}]
    BY DEF Coalesce
<1>3. run' \in [Runs -> RunRows]
      /\ \A r \in Runs : /\ run'[r].status = run[r].status /\ run'[r].wake = run[r].wake
                         /\ run'[r].session = run[r].session /\ run'[r].report = run[r].report
    <2>1. run[a].pending \cup {w} \in SUBSET Wakes
        BY <1>1 DEF TypeOK, RunRows
    <2>2. QED
        BY <1>1, <1>2, <2>1, RunNoteEffect
<1>4. /\ task' \in Tasks /\ task'[w].at = "coalesced"
      /\ task'[w].run = task[w].run /\ task'[w].to = task[w].to
      /\ \A v \in Wakes \ {w} : task'[v] = task[v]
    BY <1>1, GotoEffect DEF Coalesce
<1>5. UNCHANGED <<wake, approval, item, runtime, agent, session, online, faults, handler>>
    BY DEF Coalesce, outside
<1>6. TypeOK'
    BY <1>1, <1>3, <1>4, <1>5 DEF TypeOK, Tasks
<1>7. TaskOK(w)' /\ Holds(w) /\ task'[w].run = task[w].run
    BY <1>1, <1>3, <1>4, <1>5 DEF TaskOK, Processing, Holds, Starts, NoRunYet
<1>8. QED
    BY <1>1, <1>3, <1>4, <1>5, <1>6, <1>7, TaskAdvances

LEMMA CheckoutKeeps ==
    ASSUME AutomationInv, NEW w \in Wakes, Checkout(w) PROVE AutomationInv'
<1>1. /\ TypeOK /\ TaskOK(w) /\ Processing(w) /\ task[w].at = "checkout"
      /\ task[w].run \in Runs
    BY AtWork DEF Checkout, NoRunYet
<1>2. Candidates(w) \subseteq Items
    BY <1>1 DEF Candidates, TypeOK, WakeRows
<1>3. item' \in [Items -> ItemRows]
    <2>1. CASE \E i \in Candidates(w) :
                   item' = [item EXCEPT ![i] = [status |-> "in_progress", run |-> task[w].run]]
        <3>1. [status |-> "in_progress", run |-> task[w].run] \in ItemRows
            BY <1>1 DEF ItemRows, Runs
        <3>2. QED
            BY <1>1, <1>2, <2>1, <3>1 DEF TypeOK
    <2>2. CASE item' = item
        BY <1>1, <2>2 DEF TypeOK
    <2>3. QED
        BY <2>1, <2>2 DEF Checkout
<1>4. /\ task' \in Tasks /\ task'[w].run = task[w].run
      /\ \/ task'[w].at = "preflight" /\ task'[w].to = task[w].to
         \/ task'[w].at = "cancel" /\ task'[w].to = "skipped"
      /\ \A v \in Wakes \ {w} : task'[v] = task[v]
    <2>1. CASE Goto(w, "preflight")
        BY <1>1, <2>1, GotoEffect
    <2>2. CASE task' = [task EXCEPT ![w].at = "cancel", ![w].to = "skipped"]
        <3> DEFINE state == [task[w] EXCEPT !.at = "cancel", !.to = "skipped"]
        <3>1. task' = [task EXCEPT ![w] = state]
            BY <2>2
        <3>2. /\ state \in TaskStates
              /\ state.at = "cancel" /\ state.run = task[w].run /\ state.to = "skipped"
            BY <1>1 DEF TypeOK, TaskStates
        <3> HIDE DEF state
        <3>3. QED
            BY <1>1, <3>1, <3>2, TaskRowEffect
    <2>3. QED
        BY <2>1, <2>2 DEF Checkout
<1>5. UNCHANGED <<wake, run, approval, runtime, agent, session, online, faults, handler>>
    BY DEF Checkout, outside
<1>6. TypeOK'
    BY <1>1, <1>3, <1>4, <1>5 DEF TypeOK, Tasks
<1>7. TaskOK(w)' /\ Holds(w) /\ task'[w].run = task[w].run
    BY <1>1, <1>4, <1>5 DEF TaskOK, Processing, Holds, Starts, NoRunYet
<1>8. QED
    BY <1>1, <1>4, <1>5, <1>6, <1>7, TaskAdvances

LEMMA LaunchKeeps ==
    ASSUME AutomationInv, NEW w \in Wakes, Launch(w) PROVE AutomationInv'
<1> DEFINE s == First({q \in Sessions : session[q] = "none"})
<1>1. /\ TypeOK /\ TaskOK(w) /\ Processing(w) /\ task[w].at = "preflight"
      /\ task[w].run \in Runs
    BY AtWork DEF Launch, NoRunYet
<1>2. session' \in [Sessions -> {"none", "idle", "busy", "gone"} \cup Ends]
    BY <1>1 DEF TypeOK, Launch
<1>3. /\ task' \in Tasks /\ task'[w].run = task[w].run
      /\ \/ task'[w].at = "attach" /\ task'[w].to = task[w].to
         \/ task'[w].at = "cancel" /\ task'[w].to = "failed"
      /\ \A v \in Wakes \ {w} : task'[v] = task[v]
    <2>1. CASE Goto(w, "attach")
        BY <1>1, <2>1, GotoEffect
    <2>2. CASE /\ \E q \in Sessions : session[q] = "none"
               /\ task' = [task EXCEPT ![w].at = "attach", ![w].session = s]
        <3> DEFINE state == [task[w] EXCEPT !.at = "attach", !.session = s]
        <3>1. s \in 0..MaxSessions
            BY <2>2, Bounds, FirstIsMember DEF Sessions
        <3>2. task' = [task EXCEPT ![w] = state]
            BY <2>2
        <3> HIDE DEF s
        <3>3. /\ state \in TaskStates
              /\ state.at = "attach" /\ state.run = task[w].run /\ state.to = task[w].to
            BY <1>1, <3>1 DEF TypeOK, TaskStates
        <3> HIDE DEF state
        <3>4. QED
            BY <1>1, <3>2, <3>3, TaskRowEffect
    <2>3. CASE LaunchFails(w)
        BY <1>1, <2>3, LaunchFailsEffect
    <2>4. QED
        BY <2>1, <2>2, <2>3 DEF Launch
<1>4. UNCHANGED <<wake, run, approval, item, runtime, agent, online, faults, handler>>
    BY DEF Launch, tables
<1>5. TypeOK'
    BY <1>1, <1>2, <1>3, <1>4 DEF TypeOK, Tasks
<1>6. TaskOK(w)' /\ Holds(w) /\ task'[w].run = task[w].run
    BY <1>1, <1>3, <1>4 DEF TaskOK, Processing, Holds, Starts, NoRunYet
<1>7. QED
    BY <1>1, <1>3, <1>4, <1>5, <1>6, TaskAdvances

\* A decision is asked about a run that its task has not attached.
LEMMA RefusedKeeps ==
    ASSUME AutomationInv, NEW w \in Wakes, Refused(w) PROVE AutomationInv'
<1> DEFINE state == [task[w] EXCEPT !.at = "cancel", !.to = "blocked"]
<1>1. /\ TypeOK /\ TaskOK(w) /\ Processing(w) /\ task[w].at = "preflight"
      /\ task[w].run \in Runs
    BY AtWork DEF Refused, NoRunYet
<1>2. task' = [task EXCEPT ![w] = state]
    BY DEF Refused
<1>3. /\ state \in TaskStates
      /\ state.at = "cancel" /\ state.run = task[w].run /\ state.to = "blocked"
    BY <1>1 DEF TypeOK, TaskStates
<1> HIDE DEF state
<1>4. task' \in Tasks /\ task'[w] = state /\ \A v \in Wakes \ {w} : task'[v] = task[v]
    BY <1>1, <1>2, <1>3, TaskRowEffect
<1>5. /\ approval' \in [Runs -> {"none", "pending", "approved", "denied"}]
      /\ \A r \in Runs : approval'[r] = approval[r] \/ r = task[w].run
    BY <1>1 DEF TypeOK, Refused
<1>6. UNCHANGED <<wake, run, item, runtime, agent, session, online, faults, handler>>
    BY DEF Refused, outside
<1>7. TypeOK'
    BY <1>1, <1>4, <1>5, <1>6 DEF TypeOK, Tasks
<1>8. TaskOK(w)' /\ Starts(w) /\ ~Holds(w)'
    BY <1>1, <1>3, <1>4, <1>6 DEF TaskOK, Processing, Holds, Starts, NoRunYet
<1>9. QED
    BY <1>1, <1>4, <1>5, <1>6, <1>7, <1>8, TaskAdvances

LEMMA BootstrapFailsKeeps ==
    ASSUME AutomationInv, NEW w \in Wakes, BootstrapFails(w) PROVE AutomationInv'
<1>1. /\ TypeOK /\ TaskOK(w) /\ Processing(w) /\ task[w].at = "bootstrap"
      /\ task[w].run \in Runs
    BY AtWork DEF BootstrapFails, NoRunYet
<1>2. /\ task' \in Tasks
      /\ task'[w].at = "cancel" /\ task'[w].run = task[w].run /\ task'[w].to = "failed"
      /\ \A v \in Wakes \ {w} : task'[v] = task[v]
    BY <1>1, LaunchFailsEffect DEF BootstrapFails
<1>3. UNCHANGED <<wake, run, approval, item, runtime, agent, session, online, faults, handler>>
    BY DEF BootstrapFails, tables, outside
<1>4. TypeOK'
    BY <1>1, <1>2, <1>3 DEF TypeOK, Tasks
<1>5. TaskOK(w)' /\ ~Holds(w)'
    BY <1>1, <1>2, <1>3 DEF TaskOK, Processing, Holds, Starts, NoRunYet
<1>6. QED
    BY <1>1, <1>2, <1>3, <1>4, <1>5, TaskAdvances

\* The steps that end a task.
LEMMA BootstrapKeeps ==
    ASSUME AutomationInv, NEW w \in Wakes, Bootstrap(w) PROVE AutomationInv'
<1>1. TypeOK /\ Processing(w) /\ Finish(w) /\ UNCHANGED <<wake, run, approval, handler>>
    BY AtWork DEF Bootstrap
<1>2. task' \in Tasks /\ runtime' \in 0..MaxSessions
    BY <1>1, FinishEffect DEF Bootstrap, TypeOK, TaskStates
<1>3. TypeOK'
    BY <1>1, <1>2 DEF TypeOK, Tasks, Bootstrap, outside
<1>4. QED
    BY <1>1, <1>3, TaskEnds

LEMMA MarkCoalescedKeeps ==
    ASSUME AutomationInv, NEW w \in Wakes, MarkCoalesced(w) PROVE AutomationInv'
<1>1. /\ TypeOK /\ Processing(w) /\ Holds(w) /\ Finish(w) /\ SetWake(w, "coalesced")
      /\ UNCHANGED <<run, approval, item, runtime, outside, handler>>
    BY AtWork DEF MarkCoalesced, Holds
<1>2. /\ task' \in Tasks /\ wake' \in [Wakes -> WakeRows] /\ wake'[w].status = "coalesced"
      /\ \A v \in Wakes \ {w} : wake'[v] = wake[v]
    BY <1>1, FinishEffect, SetWakeEffect
<1>3. TypeOK'
    BY <1>1, <1>2 DEF TypeOK, Tasks, outside
<1>4. QED
    BY <1>1, <1>2, <1>3, TaskEnds

LEMMA DeferKeeps ==
    ASSUME AutomationInv, NEW w \in Wakes, Defer(w) PROVE AutomationInv'
<1> DEFINE status == IF agent.policy = "skip_if_active" THEN "skipped" ELSE "queued"
<1>1. /\ TypeOK /\ TaskOK(w) /\ Processing(w) /\ Holds(w) /\ task[w].at = "act"
      /\ Finish(w) /\ SetWake(w, status)
      /\ UNCHANGED <<run, approval, item, runtime, outside, handler>>
    BY AtWork DEF Defer, Holds
<1>2. /\ task' \in Tasks /\ wake' \in [Wakes -> WakeRows] /\ wake'[w].status = status
      /\ \A v \in Wakes \ {w} : wake'[v] = wake[v]
    BY <1>1, FinishEffect, SetWakeEffect
<1>3. TypeOK'
    BY <1>1, <1>2 DEF TypeOK, Tasks, outside
<1>4. task[w].run = 0
    BY <1>1 DEF TaskOK, NoRunYet
<1>5. QED
    BY <1>1, <1>2, <1>3, <1>4, TaskEnds

LEMMA RequeueOfflineKeeps ==
    ASSUME AutomationInv, NEW w \in Wakes, RequeueOffline(w) PROVE AutomationInv'
<1> DEFINE row == [wake[w] EXCEPT !.status = "queued", !.waits = wake[w].waits + 1]
<1>1. /\ TypeOK /\ TaskOK(w) /\ Processing(w) /\ Holds(w) /\ task[w].at = "requeue"
      /\ wake' = [wake EXCEPT ![w] = row] /\ Finish(w)
      /\ UNCHANGED <<run, approval, item, runtime, outside, handler>>
    BY AtWork DEF RequeueOffline, Holds
<1>2. row \in WakeRows /\ row.status = "queued"
    <2>1. wake[w] \in WakeRows /\ wake[w].waits \in 0..MaxWaits /\ wake[w].waits < MaxWaits
        BY <1>1 DEF TypeOK, WakeRows, TaskOK
    <2>2. wake[w].waits + 1 \in 0..MaxWaits
        BY <2>1, Bounds
    <2>3. QED
        BY <2>1, <2>2 DEF WakeRows
<1> HIDE DEF row
<1>3. /\ wake' \in [Wakes -> WakeRows] /\ wake'[w].status = "queued"
      /\ \A v \in Wakes \ {w} : wake'[v] = wake[v]
    BY <1>1, <1>2 DEF TypeOK
<1>4. task' \in Tasks
    BY <1>1, FinishEffect
<1>5. TypeOK'
    BY <1>1, <1>3, <1>4 DEF TypeOK, Tasks, outside
<1>6. ~IsActive(task[w].run)
    BY <1>1 DEF TaskOK
<1>7. QED
    BY <1>1, <1>3, <1>5, <1>6, TaskEnds

LEMMA CancelWakeKeeps ==
    ASSUME AutomationInv, NEW w \in Wakes, CancelWake(w) PROVE AutomationInv'
<1>1. /\ TypeOK /\ TaskOK(w) /\ Processing(w) /\ task[w].at = "cancelWake"
      /\ Finish(w) /\ SetWake(w, task[w].to)
      /\ UNCHANGED <<run, approval, item, outside, handler>>
    BY AtWork DEF CancelWake
<1>2. task[w].to \in {"skipped", "failed", "blocked"}
    BY <1>1 DEF TypeOK, TaskStates, TaskOK
<1>3. /\ task' \in Tasks /\ wake' \in [Wakes -> WakeRows] /\ wake'[w].status = task[w].to
      /\ \A v \in Wakes \ {w} : wake'[v] = wake[v]
    BY <1>1, <1>2, FinishEffect, SetWakeEffect
<1>4. runtime' \in 0..MaxSessions
    BY <1>1, Bounds DEF TypeOK, CancelWake
<1>5. TypeOK'
    BY <1>1, <1>3, <1>4 DEF TypeOK, Tasks, outside
<1>6. QED
    BY <1>1, <1>2, <1>3, <1>5, TaskEnds DEF Holds

\* A task gives its run up, before it has attached a session or after.
LEMMA RunGivenUp ==
    ASSUME AutomationInv, TypeOK', NEW w \in Wakes, Processing(w), task[w].run \in Runs,
           NEW status \in {"cancelled", "failed", "blocked"}, SetRun(task[w].run, status),
           TaskOK(w)', task'[w].run = task[w].run, Holds(w)' => Holds(w),
           \A v \in Wakes \ {w} : task'[v] = task[v],
           UNCHANGED <<wake, approval, handler>>
    PROVE  AutomationInv'
<1> DEFINE r == task[w].run
<1>1. TypeOK /\ TaskInv /\ RunInv /\ OneActiveRun /\ ReportedIsOver /\ TaskOK(w)
    BY DEF AutomationInv, TaskInv
<1>2. /\ run'[r].status = status /\ run'[r].wake = run[r].wake
      /\ run'[r].session = run[r].session /\ run'[r].report = run[r].report
      /\ \A q \in Runs \ {r} : run'[q] = run[q]
    BY <1>1, SetRunEffect
<1>3. r \in Runs /\ r # 0 /\ run[r].status # "none" /\ run[r].wake = w
    BY <1>1, Bounds DEF TaskOK
<1> HIDE DEF r
<1>4. TaskInv'
    <2> SUFFICES ASSUME NEW v \in Wakes \ {w} PROVE TaskOK(v)'
        BY DEF TaskInv
    <2>1. TaskOK(v) /\ task'[v] = task[v]
        BY <1>1 DEF TaskInv
    <2>2. task[v].run # 0 => task[v].run \in Runs \ {r}
        BY <1>1, <1>3, <2>1, Ranges DEF TaskOK
    <2>3. QED
        BY <1>2, <2>1, <2>2 DEF TaskOK, Processing, Holds, Starts, NoRunYet, IsActive
<1>5. RunInv'
    <2> SUFFICES ASSUME NEW q \in Runs PROVE RunOK(q)'
        BY DEF RunInv
    <2>1. RunOK(q) /\ (run[q].status # "none" => run[q].wake \in Wakes)
        BY <1>1, Ranges DEF RunInv, RunOK
    <2>2. CASE q = r
        BY <1>2, <1>3, <2>1, <2>2 DEF RunOK, IsActive
    <2>3. CASE q # r
        BY <1>2, <2>1, <2>3 DEF RunOK, Holds, IsActive
    <2>4. QED
        BY <2>2, <2>3
<1>6. RunsGoOn /\ TasksGoOn
    BY <1>1, <1>2, <1>3 DEF RunsGoOn, TasksGoOn, Processing, Holds
<1>7. ReportedIsOver'
    BY <1>1, <1>2 DEF ReportedIsOver
<1>8. QED
    BY <1>1, <1>4, <1>5, <1>6, <1>7, TickKept, OneActiveKept DEF AutomationInv

LEMMA HostOfflineKeeps ==
    ASSUME AutomationInv, NEW w \in Wakes, HostOffline(w) PROVE AutomationInv'
<1>1. /\ TypeOK /\ TaskOK(w) /\ Processing(w) /\ task[w].at = "preflight"
      /\ task[w].run \in Runs /\ SetRun(task[w].run, "cancelled") /\ Goto(w, "requeue")
      /\ UNCHANGED <<wake, approval, item, runtime, outside, handler>> /\ wake[w].waits < MaxWaits
    BY AtWork DEF HostOffline, NoRunYet
<1>2. /\ task' \in Tasks
      /\ task'[w].at = "requeue" /\ task'[w].run = task[w].run /\ task'[w].to = task[w].to
      /\ \A v \in Wakes \ {w} : task'[v] = task[v]
    BY <1>1, GotoEffect
<1>3. /\ run' \in [Runs -> RunRows] /\ run'[task[w].run].status = "cancelled"
      /\ run'[task[w].run].wake = run[task[w].run].wake
    BY <1>1, SetRunEffect
<1>4. TypeOK'
    BY <1>1, <1>2, <1>3 DEF TypeOK, Tasks, outside
<1>5. TaskOK(w)' /\ Holds(w)
    BY <1>1, <1>2, <1>3 DEF TaskOK, Processing, Holds, Starts, NoRunYet, IsActive
<1>6. QED
    BY <1>1, <1>2, <1>4, <1>5, RunGivenUp

LEMMA CancelRunKeeps ==
    ASSUME AutomationInv, NEW w \in Wakes, CancelRun(w) PROVE AutomationInv'
<1> DEFINE status == IF task[w].to = "skipped" THEN "cancelled" ELSE task[w].to
<1>1. /\ TypeOK /\ TaskOK(w) /\ Processing(w) /\ task[w].at = "cancel"
      /\ task[w].run \in Runs /\ SetRun(task[w].run, status) /\ Goto(w, "cancelWake")
      /\ UNCHANGED <<wake, approval, item, runtime, outside, handler>>
    BY AtWork DEF CancelRun, NoRunYet
<1>2. status \in {"cancelled", "failed", "blocked"}
    BY <1>1 DEF TypeOK, TaskStates, TaskOK
<1> HIDE DEF status
<1>3. /\ task' \in Tasks
      /\ task'[w].at = "cancelWake" /\ task'[w].run = task[w].run /\ task'[w].to = task[w].to
      /\ \A v \in Wakes \ {w} : task'[v] = task[v]
    BY <1>1, GotoEffect
<1>4. /\ run' \in [Runs -> RunRows] /\ run'[task[w].run].status = status
      /\ run'[task[w].run].wake = run[task[w].run].wake
    BY <1>1, <1>2, SetRunEffect
<1>5. TypeOK'
    BY <1>1, <1>3, <1>4 DEF TypeOK, Tasks, outside
<1>6. TaskOK(w)' /\ (Holds(w)' => Holds(w))
    BY <1>1, <1>2, <1>3, <1>4 DEF TaskOK, Processing, Holds, Starts, NoRunYet, IsActive
<1>7. QED
    BY <1>1, <1>2, <1>3, <1>5, <1>6, RunGivenUp

\* A run that its task attaches has no report and no decision about it yet.
LEMMA AttachKeeps ==
    ASSUME AutomationInv, NEW w \in Wakes, Attach(w) PROVE AutomationInv'
<1> DEFINE r == task[w].run
<1>1. /\ TypeOK /\ TaskOK(w) /\ Processing(w) /\ task[w].at = "attach" /\ r \in Runs
      /\ UNCHANGED <<wake, approval, item, runtime, outside, handler>>
    BY AtWork DEF Attach, NoRunYet
<1>2. CASE Finish(w) /\ UNCHANGED run
    <2>1. task' \in Tasks
        BY <1>1, <1>2, FinishEffect
    <2>2. TypeOK'
        BY <1>1, <1>2, <2>1 DEF TypeOK, Tasks, outside
    <2>3. QED
        BY <1>1, <1>2, <2>2, TaskEnds
<1>3. CASE LaunchFails(w) /\ UNCHANGED run
    <2>1. /\ task' \in Tasks
          /\ task'[w].at = "cancel" /\ task'[w].run = task[w].run /\ task'[w].to = "failed"
          /\ \A v \in Wakes \ {w} : task'[v] = task[v]
        BY <1>1, <1>3, LaunchFailsEffect
    <2>2. TypeOK'
        BY <1>1, <1>3, <2>1 DEF TypeOK, Tasks, outside
    <2>3. TaskOK(w)' /\ ~Holds(w)'
        BY <1>1, <1>3, <2>1 DEF TaskOK, Processing, Holds, Starts, NoRunYet
    <2>4. QED
        BY <1>1, <1>3, <2>1, <2>2, <2>3, TaskAdvances
<1>4. CASE /\ run' = [run EXCEPT ![r].status = "running", ![r].session = task[w].session]
           /\ Goto(w, "bootstrap")
    <2> DEFINE row == [run[r] EXCEPT !.status = "running", !.session = task[w].session]
    <2>1. run' = [run EXCEPT ![r] = row]
        BY <1>4
    <2>2. /\ row \in RunRows /\ row.status = "running"
          /\ row.wake = run[r].wake /\ row.report = run[r].report
        <3>1. run[r] \in RunRows /\ task[w].session \in 0..MaxSessions
            BY <1>1 DEF TypeOK, TaskStates
        <3>2. QED
            BY <3>1 DEF RunRows
    <2> HIDE DEF row
    <2>3. /\ run' \in [Runs -> RunRows] /\ run'[r] = row
          /\ \A q \in Runs \ {r} : run'[q] = run[q]
        BY <1>1, <2>1, <2>2 DEF TypeOK
    <2>4. /\ task' \in Tasks
          /\ task'[w].at = "bootstrap" /\ task'[w].run = r /\ task'[w].to = task[w].to
          /\ \A v \in Wakes \ {w} : task'[v] = task[v]
        BY <1>1, <1>4, GotoEffect
    <2>5. /\ RunOK(r) /\ run[r].wake = w /\ run[r].status = "starting" /\ r # 0
          /\ approval[r] = "none"
        BY <1>1, Bounds DEF AutomationInv, RunInv, TaskOK, Starts
    <2>6. TypeOK'
        BY <1>1, <2>3, <2>4 DEF TypeOK, Tasks, outside
    <2> HIDE DEF r
    <2>7. TaskInv /\ RunInv /\ OneActiveRun /\ ReportedIsOver
        BY DEF AutomationInv
    <2>8. TaskOK(w)' /\ ~Holds(w)'
        BY <1>1, <2>2, <2>3, <2>4, <2>5 DEF TaskOK, Processing, Holds, Starts, NoRunYet
    <2>9. TaskInv'
        <3> SUFFICES ASSUME NEW v \in Wakes \ {w} PROVE TaskOK(v)'
            BY <2>8 DEF TaskInv
        <3>1. TaskOK(v) /\ task'[v] = task[v]
            BY <2>4, <2>7 DEF TaskInv
        <3>2. task[v].run # 0 => task[v].run \in Runs \ {r}
            BY <1>1, <2>5, <3>1, Ranges DEF TaskOK
        <3>3. QED
            BY <1>1, <2>3, <3>1, <3>2 DEF TaskOK, Processing, Holds, Starts, NoRunYet, IsActive
    <2>10. RunInv'
        <3> SUFFICES ASSUME NEW q \in Runs PROVE RunOK(q)'
            BY DEF RunInv
        <3>1. RunOK(q) /\ (run[q].status # "none" => run[q].wake \in Wakes)
            BY <1>1, <2>7, Ranges DEF RunInv, RunOK
        <3>2. CASE q = r
            BY <1>1, <2>2, <2>3, <2>5, <2>8, <3>2 DEF RunOK, IsActive
        <3>3. CASE q # r
            BY <1>1, <2>3, <2>4, <2>8, <3>1, <3>3 DEF RunOK, Holds, IsActive
        <3>4. QED
            BY <3>2, <3>3
    <2>11. RunsGoOn /\ TasksGoOn
        BY <1>1, <2>2, <2>3, <2>4, <2>5, <2>8 DEF RunsGoOn, TasksGoOn, Processing, Holds
    <2>12. ReportedIsOver'
        BY <1>1, <2>2, <2>3, <2>7 DEF ReportedIsOver
    <2>13. QED
        BY <1>1, <2>6, <2>7, <2>9, <2>10, <2>11, <2>12, TickKept, OneActiveKept
        DEF AutomationInv
<1>5. QED
    BY <1>2, <1>3, <1>4 DEF Attach

\* The one step that makes a run: its wakeup has no other that is active.
LEMMA CreateRunKeeps ==
    ASSUME AutomationInv, NEW w \in Wakes, CreateRun(w) PROVE AutomationInv'
<1> DEFINE r == First({q \in Runs : run[q].status = "none"})
           at == IF Items = {} THEN "preflight" ELSE "checkout"
           state == [task[w] EXCEPT !.run = r, !.at = at]
<1>1. /\ TypeOK /\ TaskOK(w) /\ Processing(w) /\ Holds(w) /\ task[w].at = "act"
      /\ task[w].run = 0
      /\ UNCHANGED <<wake, approval, item, runtime, outside, handler>>
    BY AtWork DEF CreateRun, NoRunYet, TaskOK, Holds
<1>2. CASE Finish(w) /\ UNCHANGED run
    <2>1. task' \in Tasks
        BY <1>1, <1>2, FinishEffect
    <2>2. TypeOK'
        BY <1>1, <1>2, <2>1 DEF TypeOK, Tasks, outside
    <2>3. QED
        BY <1>1, <1>2, <2>2, TaskEnds
<1>3. CASE /\ \E q \in Runs : run[q].status = "none"
           /\ run' = [run EXCEPT ![r] = NewRun(w)]
           /\ task' = [task EXCEPT ![w] = state]
    <2>1. r \in Runs /\ run[r].status = "none" /\ r # 0
        <3> DEFINE S == {q \in Runs : run[q].status = "none"}
        <3>1. S \in SUBSET Nat /\ S # {}
            BY <1>3, Bounds
        <3>2. First(S) \in S
            BY <3>1, FirstIsMember
        <3>3. QED
            BY <3>2, Bounds
    <2> HIDE DEF r
    <2>2. at \in {"checkout", "preflight"}
        OBVIOUS
    <2> HIDE DEF at
    <2>3. /\ state \in TaskStates
          /\ state.at \in {"checkout", "preflight"} /\ state.run = r /\ state.to = task[w].to
        <3>1. task[w] \in TaskStates /\ r \in 0..MaxRuns
            BY <1>1, <2>1 DEF TypeOK, Runs
        <3>2. QED
            BY <2>2, <3>1 DEF TaskStates
    <2> HIDE DEF state
    <2>4. task' \in Tasks /\ task'[w] = state /\ \A v \in Wakes \ {w} : task'[v] = task[v]
        BY <1>1, <1>3, <2>3, TaskRowEffect
    <2>5. /\ run' \in [Runs -> RunRows]
          /\ run'[r].status = "starting" /\ run'[r].wake = w /\ run'[r].session = 0
          /\ run'[r].report = "none"
          /\ \A q \in Runs \ {r} : run'[q] = run[q]
        BY <1>1, <1>3, <2>1, FreshRows DEF TypeOK, NewRun
    <2>6. TypeOK'
        BY <1>1, <2>4, <2>5 DEF TypeOK, Tasks, outside
    <2>7. TaskInv /\ RunInv /\ OneActiveRun /\ Begun /\ Recovering /\ Settling /\ ReportedIsOver
        BY DEF AutomationInv
    <2>8. RunOK(r) /\ approval[r] = "none" /\ w # 0
        BY <2>1, <2>7, Bounds DEF RunInv, RunOK
    <2>9. \A q \in Runs : IsActive(q) => run[q].wake # w
        BY <1>1, <2>7, Bounds DEF RunInv, RunOK
    <2>10. TaskOK(w)'
        BY <1>1, <2>1, <2>3, <2>4, <2>5, <2>8
        DEF TaskOK, Processing, Holds, Starts, NoRunYet
    <2>11. TaskInv'
        <3> SUFFICES ASSUME NEW v \in Wakes \ {w} PROVE TaskOK(v)'
            BY <2>10 DEF TaskInv
        <3>1. TaskOK(v) /\ task'[v] = task[v]
            BY <2>4, <2>7 DEF TaskInv
        <3>2. task[v].run # 0 => task[v].run \in Runs \ {r}
            BY <1>1, <2>1, <3>1, Ranges DEF TaskOK
        <3>3. QED
            BY <1>1, <2>5, <3>1, <3>2 DEF TaskOK, Processing, Holds, Starts, NoRunYet, IsActive
    <2>12. RunInv'
        <3> SUFFICES ASSUME NEW q \in Runs PROVE RunOK(q)'
            BY DEF RunInv
        <3>1. RunOK(q) /\ (run[q].status # "none" => run[q].wake \in Wakes)
            BY <1>1, <2>7, Ranges DEF RunInv, RunOK
        <3>2. CASE q = r
            BY <1>1, <2>3, <2>4, <2>5, <2>8, <3>2 DEF RunOK, TaskOK, IsActive
        <3>3. CASE q # r
            BY <1>1, <2>4, <2>5, <2>9, <3>1, <3>3 DEF RunOK, Holds, IsActive
        <3>4. QED
            BY <3>2, <3>3
    <2>13. OneActiveRun'
        BY <2>5, <2>7, <2>9 DEF OneActiveRun, IsActive
    <2>14. Begun'
        BY <1>1, <2>1, <2>5, <2>7, Ranges DEF Begun
    <2>15. Recovering' /\ Settling'
        <3> DEFINE q == handler[Tick].run
        <3> SUFFICES ASSUME handler[Tick].at # "rest" PROVE Recovering' /\ Settling'
            BY <1>1 DEF Recovering, Settling
        <3>1. q \in Runs \ {r} /\ run'[q] = run[q] /\ run[q].wake \in Wakes
            <4>1. q \in Runs \ {r} /\ run[q].status # "none"
                BY <1>1, <2>1, <2>7, Ranges, Bounds DEF Begun
            <4>2. QED
                BY <1>1, <2>5, <2>7, <4>1, Ranges DEF RunInv, RunOK
        <3>2. Recovering'
            <4> SUFFICES ASSUME handler[Tick].at = "recover"
                         PROVE  ~Processing(run[q].wake)' /\ NoActiveRunOf(run[q].wake)'
                BY <1>1, <3>1 DEF Recovering
            <4>1. ~Processing(run[q].wake) /\ NoActiveRunOf(run[q].wake) /\ run[q].wake # w
                BY <1>1, <2>7 DEF Recovering
            <4>2. ~Processing(run[q].wake)'
                BY <1>1, <2>4, <3>1, <4>1 DEF Processing
            <4>3. NoActiveRunOf(run[q].wake)'
                BY <1>1, <2>5, <3>1, <4>1 DEF NoActiveRunOf, ActiveRuns, IsActive
            <4>4. QED
                BY <4>2, <4>3
        <3>3. Settling'
            BY <1>1, <2>4, <2>7, <3>1 DEF Settling, Holds
        <3>4. QED
            BY <3>2, <3>3
    <2>16. ReportedIsOver'
        BY <1>1, <2>5, <2>7 DEF ReportedIsOver
    <2>17. QED
        BY <2>6, <2>11, <2>12, <2>13, <2>14, <2>15, <2>16 DEF AutomationInv
<1>4. QED
    BY <1>2, <1>3 DEF CreateRun

\* A wakeup that is queued has no active run, and none that has reported.
LEMMA ClaimKeeps ==
    ASSUME AutomationInv, NEW w \in Wakes, Claim(w) PROVE AutomationInv'
<1> DEFINE state == [NoTask EXCEPT !.at = "resolve", !.full = Full]
<1>1. /\ TypeOK /\ TaskInv /\ RunInv /\ OneActiveRun /\ Begun /\ ReportedIsOver
      /\ handler[Tick].at = "rest" /\ wake[w].status = "queued" /\ SetWake(w, "running")
      /\ UNCHANGED <<run, approval, item, runtime, outside, handler>>
    BY DEF AutomationInv, Claim, Claimable, Rest
<1>2. state \in TaskStates /\ state.at = "resolve" /\ state.run = 0 /\ state.to = "none"
    <2>1. Full \in BOOLEAN
        BY DEF Full
    <2>2. QED
        BY <2>1, FreshRows DEF TaskStates, NoTask
<1>3. task' = [task EXCEPT ![w] = state]
    BY DEF Claim
<1> HIDE DEF state
<1>4. task' \in Tasks /\ task'[w] = state /\ \A v \in Wakes \ {w} : task'[v] = task[v]
    BY <1>1, <1>2, <1>3, TaskRowEffect
<1>5. /\ wake' \in [Wakes -> WakeRows] /\ wake'[w].status = "running"
      /\ \A v \in Wakes \ {w} : wake'[v] = wake[v]
    BY <1>1, SetWakeEffect
<1>6. TypeOK'
    BY <1>1, <1>4, <1>5 DEF TypeOK, Tasks, outside
<1>7. TaskInv'
    BY <1>1, <1>2, <1>4, <1>5 DEF TaskInv, TaskOK, Processing, Holds, Starts, NoRunYet, IsActive
<1>8. RunInv'
    <2> SUFFICES ASSUME NEW r \in Runs PROVE RunOK(r)'
        BY DEF RunInv
    <2>1. RunOK(r) /\ (run[r].status # "none" => run[r].wake \in Wakes)
        BY <1>1, Ranges DEF RunInv, RunOK
    <2>2. IsActive(r) => run[r].wake # w
        BY <1>1, <2>1 DEF RunOK
    <2>3. QED
        BY <1>1, <1>4, <1>5, <2>1, <2>2 DEF RunOK, Holds, IsActive
<1>9. OneActiveRun' /\ Begun' /\ Recovering' /\ Settling'
    BY <1>1 DEF OneActiveRun, Begun, Recovering, Settling, IsActive
<1>10. ReportedIsOver'
    <2> SUFFICES ASSUME NEW r \in Runs, run[r].report # "none"
                 PROVE  wake'[run[r].wake].status \in {"completed", "failed", "blocked"}
        BY <1>1 DEF ReportedIsOver
    <2>1. RunOK(r) /\ wake[run[r].wake].status \in {"completed", "failed", "blocked"}
        BY <1>1 DEF RunInv, ReportedIsOver
    <2>2. run[r].wake \in Wakes
        BY <1>1, <2>1, Ranges DEF RunOK
    <2>3. QED
        BY <1>1, <1>5, <2>1, <2>2
<1>11. QED
    BY <1>6, <1>7, <1>8, <1>9, <1>10 DEF AutomationInv

-----------------------------------------------------------------------------
\* The steps of the tick, of reports and decisions, and of the outside.

\* What such a step may do to the tables: open a free wakeup, put back one that
\* is running and that nobody works on, settle one that no task holds; settle a
\* run that no task is about to start, note its report, and forget its session.
LEMMA TablesMove ==
    ASSUME AutomationInv, TypeOK', UNCHANGED task,
           \A v \in Wakes :
               \/ wake'[v].status = wake[v].status /\ wake'[v].waits = wake[v].waits
               \/ wake[v].status = "none"
               \/ wake[v].status = "running" /\ ~Processing(v) /\ NoActiveRunOf(v)
               \/ /\ ~Holds(v) /\ wake'[v].waits = wake[v].waits
                  /\ wake'[v].status \in {"completed", "failed", "blocked"},
           \A r \in Runs :
               /\ run'[r].wake = run[r].wake /\ run'[r].session \in {run[r].session, 0}
               /\ \/ run'[r].status = run[r].status
                  \/ /\ run[r].status \notin {"none", "starting"}
                     /\ run'[r].status \notin {"none", "starting", "running"}
                  \/ /\ run[r].status = "starting" /\ ~Processing(run[r].wake)
                     /\ run'[r].status \notin {"none", "starting", "running"}
               /\ \/ run'[r].report = run[r].report
                  \/ /\ run'[r].status \notin {"none", "starting", "running"}
                     /\ wake'[run[r].wake].status \in {"completed", "failed", "blocked"}
               /\ approval'[r] = "none" <=> approval[r] = "none"
    PROVE  /\ TaskInv' /\ RunInv' /\ OneActiveRun' /\ ReportedIsOver'
           /\ RunsGoOn /\ TasksGoOn
<1>1. TypeOK /\ TaskInv /\ RunInv /\ OneActiveRun /\ ReportedIsOver
    BY DEF AutomationInv
<1>2. RunsGoOn
    BY DEF RunsGoOn
<1>3. TasksGoOn
    BY DEF TasksGoOn, Processing, Holds
<1>4. OneActiveRun'
    BY <1>1, <1>2, OneActiveKept
<1>5. TaskInv'
    <2> SUFFICES ASSUME NEW v \in Wakes PROVE TaskOK(v)'
        BY DEF TaskInv
    <2> DEFINE r == task[v].run
    <2>1. TaskOK(v) /\ (r # 0 => r \in Runs)
        BY <1>1, Ranges DEF TaskInv
    <2>2. Processing(v) <=> task[v].at # "idle"
        BY DEF Processing
    <2>3. CASE ~Processing(v)
        BY <1>1, <2>1, <2>2, <2>3
        DEF TaskOK, Processing, Holds, Starts, NoRunYet
    <2>4. CASE Processing(v)
        <3>1. \/ wake'[v].status = wake[v].status /\ wake'[v].waits = wake[v].waits
              \/ /\ ~Holds(v) /\ wake'[v].waits = wake[v].waits
                 /\ wake'[v].status \in {"completed", "failed", "blocked"}
            BY <2>1, <2>4 DEF TaskOK
        <3>2. r # 0 => /\ run'[r].wake = v /\ run'[r].status # "none"
                       /\ (run[r].status = "starting" => run'[r].status = "starting")
                       /\ (~IsActive(r) => ~IsActive(r)') /\ (approval[r] = "none" => approval'[r] = "none")
            BY <2>1, <2>4 DEF TaskOK, IsActive
        <3> HIDE DEF r
        <3>3. task'[v] = task[v]
            OBVIOUS
        <3>4. QED
            BY <2>1, <2>4, <3>1, <3>2, <3>3 DEF r, TaskOK, Processing, Holds, Starts, NoRunYet, IsActive
    <2>5. QED
        BY <2>3, <2>4
<1>6. RunInv'
    <2> SUFFICES ASSUME NEW r \in Runs PROVE RunOK(r)'
        BY DEF RunInv
    <2> DEFINE v == run[r].wake
    <2>1. RunOK(r) /\ (run[r].status # "none" => v \in Wakes)
        BY <1>1, Ranges DEF RunInv, RunOK
    <2>2. run'[r].status \in {"starting", "running"} =>
            run[r].status \in {"starting", "running"} /\ run'[r].status = run[r].status
        OBVIOUS
    <2>3. IsActive(r)' => wake'[v].status \notin {"none", "queued"}
        <3> SUFFICES ASSUME IsActive(r)' PROVE wake'[v].status \notin {"none", "queued"}
            OBVIOUS
        <3>1. IsActive(r) /\ v \in Wakes
            BY <2>1, <2>2 DEF IsActive
        <3>2. ~NoActiveRunOf(v) /\ wake[v].status \notin {"none", "queued"}
            BY <2>1, <3>1 DEF NoActiveRunOf, ActiveRuns, RunOK
        <3>3. QED
            BY <3>1, <3>2
    <2>4. run'[r].wake = v /\ (run[r].session # 0 => approval'[r] = "none")
        BY <2>1 DEF RunOK
    <2>5. IsActive(r)' => ~Holds(v)' \/ task'[v].run = r
        BY <2>1, <2>2 DEF RunOK, IsActive, Holds
    <2>6. /\ run'[r].status = "none" => run'[r].report = "none" /\ approval'[r] = "none"
          /\ run'[r].status # "none" => run'[r].wake # 0
          /\ run'[r].session # 0 => run'[r].status \notin {"none", "starting"}
          /\ run'[r].report # "none" => run'[r].status \notin {"none", "starting", "running"}
        BY <2>1, <2>2 DEF RunOK
    <2>7. QED
        BY <2>1, <2>3, <2>4, <2>5, <2>6 DEF RunOK
<1>7. ReportedIsOver'
    <2> SUFFICES ASSUME NEW r \in Runs, run'[r].report # "none", run'[r].report = run[r].report
                 PROVE  wake'[run[r].wake].status \in {"completed", "failed", "blocked"}
        BY DEF ReportedIsOver
    <2>1. RunOK(r) /\ wake[run[r].wake].status \in {"completed", "failed", "blocked"}
        BY <1>1 DEF RunInv, ReportedIsOver
    <2>2. run[r].wake \in Wakes
        BY <1>1, <2>1, Ranges DEF RunOK
    <2>3. QED
        BY <2>1, <2>2
<1>8. QED
    BY <1>2, <1>3, <1>4, <1>5, <1>6, <1>7

\* What a handler builds on when it goes on or is done.
LEMMA HandlerMoves ==
    ASSUME AutomationInv, RunsGoOn, TasksGoOn, NEW h \in Handlers,
           \A g \in Handlers \ {h} : handler'[g] = handler[g],
           \/ handler'[h].at = "rest"
           \/ /\ handler[h].at # "rest" /\ handler'[h].run = handler[h].run
              /\ handler'[h].at # "recover"
              /\ handler'[h].at \in {"finalize", "item", "wake"} =>
                    handler[h].at \in {"finalize", "item", "wake"}
    PROVE  Begun' /\ Recovering' /\ Settling'
<1> DEFINE q == handler[Tick].run
<1>1. TypeOK /\ RunInv /\ Begun /\ Recovering /\ Settling
    BY DEF AutomationInv
<1>2. Begun'
    BY <1>1, Ranges DEF Begun, RunsGoOn
<1>3. handler'[Tick].at # "rest" =>
        /\ q \in Runs /\ run[q].wake \in Wakes /\ run'[q].wake = run[q].wake
        /\ handler'[Tick].run = q
    <2>1. handler'[Tick].at # "rest" => handler[Tick].at # "rest" /\ handler'[Tick].run = q
        BY <1>1, Bounds DEF Begun
    <2>2. handler'[Tick].at # "rest" => q \in Runs /\ run[q].status # "none"
        BY <1>1, <2>1, Ranges, Bounds DEF Begun
    <2>3. QED
        BY <1>1, <2>1, <2>2, Ranges DEF RunsGoOn, RunInv, RunOK
<1>4. \A w \in Wakes : NoActiveRunOf(w) => NoActiveRunOf(w)'
    BY DEF NoActiveRunOf, ActiveRuns, IsActive, RunsGoOn
<1>5. handler'[Tick].at = "recover" => handler[Tick].at = "recover"
    BY <1>1, Bounds
<1>6. handler'[Tick].at \in {"finalize", "item", "wake"} =>
        handler[Tick].at \in {"finalize", "item", "wake"}
    BY <1>1, Bounds
<1>7. Recovering'
    BY <1>1, <1>3, <1>4, <1>5 DEF Recovering, TasksGoOn
<1>8. Settling'
    BY <1>1, <1>3, <1>6 DEF Settling, TasksGoOn
<1>9. QED
    BY <1>2, <1>7, <1>8

\* What a handler builds on when it takes up a run.
LEMMA HandlerStarts ==
    ASSUME AutomationInv, RunsGoOn, TasksGoOn, NEW h \in Handlers, NEW q \in Runs,
           \A g \in Handlers \ {h} : handler'[g] = handler[g],
           handler'[h].run = q, run'[q].status \notin {"none", "starting"},
           handler'[h].at = "recover" =>
               ~Processing(run[q].wake)' /\ NoActiveRunOf(run[q].wake)',
           handler'[h].at \in {"finalize", "item", "wake"} => ~Holds(run[q].wake)'
    PROVE  Begun' /\ Recovering' /\ Settling'
<1>1. TypeOK /\ RunInv /\ Begun /\ Recovering /\ Settling
    BY DEF AutomationInv
<1>2. Begun'
    BY <1>1, Ranges, Bounds DEF Begun, RunsGoOn
<1>3. CASE h = Tick
    BY <1>2, <1>3 DEF Recovering, Settling
<1>4. CASE h # Tick
    <2> DEFINE p == handler[Tick].run
    <2>1. handler'[Tick] = handler[Tick]
        BY <1>4, Bounds
    <2>2. handler[Tick].at # "rest" => p \in Runs /\ run[p].status # "none"
        BY <1>1, Ranges, Bounds DEF Begun
    <2>3. handler[Tick].at # "rest" =>
            p \in Runs /\ run[p].wake \in Wakes /\ run'[p].wake = run[p].wake
        BY <1>1, <2>2, Ranges DEF RunsGoOn, RunInv, RunOK
    <2>4. \A w \in Wakes : NoActiveRunOf(w) => NoActiveRunOf(w)'
        BY DEF NoActiveRunOf, ActiveRuns, IsActive, RunsGoOn
    <2>5. Recovering'
        BY <1>1, <2>1, <2>3, <2>4 DEF Recovering, TasksGoOn
    <2>6. Settling'
        BY <1>1, <2>1, <2>3 DEF Settling, TasksGoOn
    <2>7. QED
        BY <1>2, <2>5, <2>6
<1>5. QED
    BY <1>2, <1>3, <1>4

\* The run of a handler at work, and its wakeup.
LEMMA HandlersRun ==
    ASSUME AutomationInv, NEW h \in Handlers, handler[h].at # "rest"
    PROVE  /\ TypeOK /\ handler[h].run \in Runs /\ run[handler[h].run].wake \in Wakes
           /\ run[handler[h].run].status \notin {"none", "starting"}
<1>1. TypeOK /\ RunInv /\ Begun
    BY DEF AutomationInv
<1>2. handler[h].run \in Runs /\ run[handler[h].run].status \notin {"none", "starting"}
    BY <1>1, Ranges DEF Begun
<1>3. QED
    BY <1>1, <1>2, Ranges DEF RunInv, RunOK

\* No task holds the wakeup of a run that is active and attached.
LEMMA AttachedIsNotHeld ==
    ASSUME AutomationInv, NEW r \in Runs, IsActive(r), run[r].session # 0
    PROVE  ~Holds(run[r].wake)
<1> DEFINE w == run[r].wake
<1>1. TypeOK /\ TaskInv /\ RunOK(r)
    BY DEF AutomationInv, RunInv
<1>2. w \in Wakes
    BY <1>1, Ranges DEF RunOK
<1>3. TaskOK(w)
    BY <1>1, <1>2 DEF TaskInv
<1>4. Holds(w) => task[w].run = r /\ r # 0
    BY <1>1, Bounds DEF RunOK
<1>5. QED
    BY <1>1, <1>3, <1>4, <1>2 DEF TaskOK, RunOK, Holds, Starts, NoRunYet, TypeOK, TaskStates

\* Where the tables and handlers stay as they are.
LEMMA QuietKeeps ==
    ASSUME AutomationInv, TypeOK', UNCHANGED <<wake, run, approval, task, handler>>
    PROVE  AutomationInv'
<1>1. TaskInv /\ RunInv /\ OneActiveRun /\ Begun /\ Recovering /\ Settling /\ ReportedIsOver
    BY DEF AutomationInv
<1>2. RunsGoOn /\ TasksGoOn
    BY DEF RunsGoOn, TasksGoOn, Processing, Holds
<1>3. Begun' /\ Recovering' /\ Settling'
    BY <1>2, TickKept
<1>4. TaskInv' /\ RunInv' /\ OneActiveRun' /\ ReportedIsOver'
    BY TablesMove
<1>5. QED
    BY <1>3, <1>4 DEF AutomationInv
\* Rows written whole.
LEMMA WakeRowEffect ==
    ASSUME TypeOK, NEW w \in Wakes, NEW row \in WakeRows, wake' = [wake EXCEPT ![w] = row]
    PROVE  /\ wake' \in [Wakes -> WakeRows] /\ wake'[w] = row
           /\ \A v \in Wakes \ {w} : wake'[v] = wake[v]
BY DEF TypeOK

LEMMA RunRowEffect ==
    ASSUME TypeOK, NEW r \in Runs, NEW row \in RunRows, run' = [run EXCEPT ![r] = row]
    PROVE  /\ run' \in [Runs -> RunRows] /\ run'[r] = row
           /\ \A q \in Runs \ {r} : run'[q] = run[q]
BY DEF TypeOK

LEMMA ItemRowEffect ==
    ASSUME TypeOK, NEW i \in Items, NEW row \in ItemRows, item' = [item EXCEPT ![i] = row]
    PROVE  item' \in [Items -> ItemRows]
BY DEF TypeOK

LEMMA HandlerRowEffect ==
    ASSUME TypeOK, NEW h \in Handlers, NEW state \in HandlerStates,
           handler' = [handler EXCEPT ![h] = state]
    PROVE  /\ handler' \in [Handlers -> HandlerStates] /\ handler'[h] = state
           /\ \A g \in Handlers \ {h} : handler'[g] = handler[g]
BY DEF TypeOK

\* A wakeup is opened in a row that was free.
LEMMA OpenedEffect ==
    ASSUME TypeOK, FreeWakes # {}, NEW i \in Items \cup {None}, NEW key \in Keys,
           wake' = [wake EXCEPT ![First(FreeWakes)] = NewWake(i, key)]
    PROVE  /\ wake' \in [Wakes -> WakeRows]
           /\ \A v \in Wakes : wake'[v] = wake[v] \/ wake[v].status = "none"
<1> DEFINE f == First(FreeWakes)
<1>1. f \in Wakes /\ wake[f].status = "none"
    <2>1. FreeWakes \in SUBSET Nat
        BY Bounds DEF FreeWakes
    <2>2. f \in FreeWakes
        BY <2>1, FirstIsMember
    <2>3. QED
        BY <2>2 DEF FreeWakes
<1> HIDE DEF f
<1>2. NewWake(i, key) \in WakeRows
    BY FreshRows
<1>3. QED
    BY <1>1, <1>2, WakeRowEffect DEF f

LEMMA EnqueueKeeps ==
    ASSUME AutomationInv, NEW i \in Items \cup {None}, Enqueue(i) PROVE AutomationInv'
<1>1. TypeOK /\ <<0, 0>> \in Keys
    BY DEF AutomationInv, Keys
<1>2. /\ wake' \in [Wakes -> WakeRows]
      /\ \A v \in Wakes : wake'[v] = wake[v] \/ wake[v].status = "none"
    BY <1>1, OpenedEffect DEF Enqueue
<1>3. UNCHANGED <<run, approval, item, runtime, agent, session, online, faults, task, handler>>
    BY DEF Enqueue, outside
<1>4. TypeOK'
    BY <1>1, <1>2, <1>3 DEF TypeOK
<1>5. TaskInv' /\ RunInv' /\ OneActiveRun' /\ ReportedIsOver' /\ RunsGoOn /\ TasksGoOn
    BY <1>2, <1>3, <1>4, TablesMove
<1>6. Begun' /\ Recovering' /\ Settling'
    BY <1>3, <1>5, TickKept
<1>7. QED
    BY <1>4, <1>5, <1>6 DEF AutomationInv

\* The reaper takes a wakeup that nobody works on.
LEMMA ReapWakeKeeps ==
    ASSUME AutomationInv, NEW w \in Wakes, ReapWake(w) PROVE AutomationInv'
<1> DEFINE row == IF wake[w].stalls < MaxStalls
                  THEN [wake[w] EXCEPT !.status = "queued", !.stalls = wake[w].stalls + 1]
                  ELSE [wake[w] EXCEPT !.status = "failed"]
<1>1. TypeOK /\ wake[w].status = "running" /\ NoActiveRunOf(w) /\ ~Processing(w)
    BY DEF AutomationInv, ReapWake
<1>2. row \in WakeRows
    <2>1. wake[w] \in WakeRows /\ wake[w].stalls \in 0..MaxStalls
        BY <1>1 DEF TypeOK, WakeRows
    <2>2. wake[w].stalls < MaxStalls => wake[w].stalls + 1 \in 0..MaxStalls
        BY <2>1, Bounds
    <2>3. \A n \in 0..MaxStalls :
            [wake[w] EXCEPT !.status = "queued", !.stalls = n] \in WakeRows
        BY <2>1 DEF WakeRows
    <2>4. [wake[w] EXCEPT !.status = "failed"] \in WakeRows
        BY <2>1 DEF WakeRows
    <2>5. QED
        BY <2>2, <2>3, <2>4
<1>3. wake' = [wake EXCEPT ![w] = row]
    BY DEF ReapWake
<1> HIDE DEF row
<1>4. /\ wake' \in [Wakes -> WakeRows] /\ \A v \in Wakes \ {w} : wake'[v] = wake[v]
    BY <1>1, <1>2, <1>3, WakeRowEffect
<1>5. UNCHANGED <<run, approval, item, runtime, agent, session, online, faults, task, handler>>
    BY DEF ReapWake, outside
<1>6. TypeOK'
    BY <1>1, <1>4, <1>5 DEF TypeOK
<1>7. TaskInv' /\ RunInv' /\ OneActiveRun' /\ ReportedIsOver' /\ RunsGoOn /\ TasksGoOn
    BY <1>1, <1>4, <1>5, <1>6, TablesMove
<1>8. Begun' /\ Recovering' /\ Settling'
    BY <1>5, <1>7, TickKept
<1>9. QED
    BY <1>6, <1>7, <1>8 DEF AutomationInv

LEMMA ApproveKeeps ==
    ASSUME AutomationInv, NEW r \in Runs, Approve(r) PROVE AutomationInv'
<1> DEFINE held == {j \in Items : item[j].run = r}
           named == wake[run[r].wake].item
           i == IF named # None \/ held = {} THEN named ELSE CHOOSE j \in held : TRUE
<1>1. TypeOK /\ RunInv /\ <<0, 0>> \in Keys /\ approval[r] = "pending"
    BY DEF AutomationInv, Keys, Approve
<1>2. named \in Items \cup {None}
    <2>1. run[r].wake \in Wakes
        BY <1>1, Ranges DEF RunInv, RunOK
    <2>2. QED
        BY <1>1, <2>1 DEF TypeOK, WakeRows
<1>3. i \in Items \cup {None}
    <2>1. held # {} => (CHOOSE j \in held : TRUE) \in held
        OBVIOUS
    <2>2. held \subseteq Items
        OBVIOUS
    <2> HIDE DEF held, named
    <2>3. QED
        BY <1>2, <2>1, <2>2
<1>4. FreeWakes # {} /\ wake' = [wake EXCEPT ![First(FreeWakes)] = NewWake(i, <<0, 0>>)]
    BY DEF Approve
<1> HIDE DEF i
<1>5. /\ wake' \in [Wakes -> WakeRows]
      /\ \A v \in Wakes : wake'[v] = wake[v] \/ wake[v].status = "none"
    BY <1>1, <1>3, <1>4, OpenedEffect
<1>6. /\ approval' \in [Runs -> {"none", "pending", "approved", "denied"}]
      /\ \A q \in Runs : approval'[q] = "none" <=> approval[q] = "none"
    BY <1>1 DEF TypeOK, Approve
<1>7. UNCHANGED <<run, item, runtime, agent, session, online, faults, task, handler>>
    BY DEF Approve, outside
<1>8. TypeOK'
    BY <1>1, <1>5, <1>6, <1>7 DEF TypeOK
<1>9. TaskInv' /\ RunInv' /\ OneActiveRun' /\ ReportedIsOver' /\ RunsGoOn /\ TasksGoOn
    BY <1>5, <1>6, <1>7, <1>8, TablesMove
<1>10. Begun' /\ Recovering' /\ Settling'
    BY <1>7, <1>9, TickKept
<1>11. QED
    BY <1>8, <1>9, <1>10 DEF AutomationInv

\* A wakeup whose run was given up is put back, if nothing has ended it.
LEMMA RecoverWakeKeeps ==
    ASSUME AutomationInv, RecoverWake PROVE AutomationInv'
<1> DEFINE q == handler[Tick].run
           w == run[q].wake
           again == [wake[w] EXCEPT !.status = "queued", !.requeues = wake[w].requeues + 1]
           over == [wake[w] EXCEPT !.status = "failed"]
           row == IF wake[w].status # "running" THEN wake[w]
                  ELSE IF wake[w].requeues < MaxRequeues THEN again ELSE over
<1>1. handler[Tick].at = "recover" /\ Done(Tick) /\ Tick \in Handlers
    BY Bounds DEF RecoverWake
<1>2. TypeOK /\ w \in Wakes
    BY <1>1, HandlersRun
<1>3. ~Processing(w) /\ NoActiveRunOf(w)
    BY <1>1 DEF AutomationInv, Recovering
<1>4. wake' = IF wake[w].status # "running" THEN wake ELSE [wake EXCEPT ![w] = row]
    BY <1>2 DEF RecoverWake, TypeOK
<1>5. row \in WakeRows
    <2>1. wake[w] \in WakeRows /\ wake[w].requeues \in 0..MaxRequeues
        BY <1>2 DEF TypeOK, WakeRows
    <2>2. wake[w].requeues < MaxRequeues => wake[w].requeues + 1 \in 0..MaxRequeues
        BY <2>1, Bounds
    <2>3. \A n \in 0..MaxRequeues :
            [wake[w] EXCEPT !.status = "queued", !.requeues = n] \in WakeRows
        BY <2>1 DEF WakeRows
    <2>4. over \in WakeRows
        BY <2>1 DEF WakeRows
    <2>5. QED
        BY <2>1, <2>2, <2>3, <2>4
<1> HIDE DEF row, w
<1>6. /\ wake' \in [Wakes -> WakeRows]
      /\ \A v \in Wakes \ {w} : wake'[v] = wake[v]
      /\ wake'[w] = wake[w] \/ wake[w].status = "running"
    <2>1. CASE wake[w].status # "running"
        BY <1>2, <1>4, <2>1 DEF TypeOK
    <2>2. CASE wake[w].status = "running"
        BY <1>2, <1>4, <1>5, <2>2, WakeRowEffect
    <2>3. QED
        BY <2>1, <2>2
<1>7. /\ handler' \in [Handlers -> HandlerStates] /\ handler'[Tick].at = "rest"
      /\ \A g \in Handlers \ {Tick} : handler'[g] = handler[g]
    BY <1>1, <1>2, DoneEffect
<1>8. UNCHANGED <<run, approval, item, runtime, agent, session, online, faults, task>>
    BY DEF RecoverWake, outside
<1>9. TypeOK'
    BY <1>2, <1>6, <1>7, <1>8 DEF TypeOK
<1>10. TaskInv' /\ RunInv' /\ OneActiveRun' /\ ReportedIsOver' /\ RunsGoOn /\ TasksGoOn
    BY <1>2, <1>3, <1>6, <1>8, <1>9, TablesMove
<1>11. Begun' /\ Recovering' /\ Settling'
    BY <1>1, <1>7, <1>10, HandlerMoves
<1>12. QED
    BY <1>9, <1>10, <1>11 DEF AutomationInv

LEMMA FinalizeWakeKeeps ==
    ASSUME AutomationInv, FinalizeWake PROVE AutomationInv'
<1> DEFINE q == handler[Tick].run
           w == run[q].wake
           status == IF run[q].status = "failed" THEN "failed" ELSE "completed"
<1>1. handler[Tick].at = "wake" /\ Handle(Tick, "runtime") /\ Tick \in Handlers
    BY Bounds DEF FinalizeWake
<1>2. TypeOK /\ w \in Wakes /\ ~Holds(w)
    BY <1>1, HandlersRun DEF AutomationInv, Settling
<1>3. SetWake(w, status) /\ status \in {"completed", "failed"}
    BY DEF FinalizeWake
<1> HIDE DEF w, status
<1>4. /\ wake' \in [Wakes -> WakeRows]
      /\ wake'[w].status = status /\ wake'[w].waits = wake[w].waits
      /\ \A v \in Wakes \ {w} : wake'[v] = wake[v]
    BY <1>2, <1>3, SetWakeEffect
<1>5. /\ handler' \in [Handlers -> HandlerStates]
      /\ handler'[Tick].at = "runtime" /\ handler'[Tick].run = handler[Tick].run
      /\ \A g \in Handlers \ {Tick} : handler'[g] = handler[g]
    BY <1>1, <1>2, HandleEffect
<1>6. UNCHANGED <<run, approval, item, runtime, agent, session, online, faults, task>>
    BY DEF FinalizeWake, outside
<1>7. TypeOK'
    BY <1>2, <1>4, <1>5, <1>6 DEF TypeOK
<1>8. TaskInv' /\ RunInv' /\ OneActiveRun' /\ ReportedIsOver' /\ RunsGoOn /\ TasksGoOn
    BY <1>2, <1>3, <1>4, <1>6, <1>7, TablesMove
<1>9. Begun' /\ Recovering' /\ Settling'
    BY <1>1, <1>5, <1>8, HandlerMoves
<1>10. QED
    BY <1>7, <1>8, <1>9 DEF AutomationInv

\* A run that has not been attached is given up when no task works on it.
LEMMA ReapRunKeeps ==
    ASSUME AutomationInv, NEW r \in Runs, ReapRun(r) PROVE AutomationInv'
<1> DEFINE w == run[r].wake
           state == [Rest EXCEPT !.at = "recover", !.run = r]
<1>1. /\ TypeOK /\ RunInv /\ OneActiveRun /\ Tick \in Handlers
      /\ run[r].status = "starting" /\ ~Processing(w) /\ SetRun(r, "failed")
    BY Bounds DEF AutomationInv, ReapRun
<1>2. handler' = [handler EXCEPT ![Tick] = state]
    BY DEF ReapRun
<1>3. state \in HandlerStates /\ state.at = "recover" /\ state.run = r
    <2>1. Rest \in HandlerStates /\ r \in 0..MaxRuns
        BY FreshRows, Bounds DEF Runs
    <2>2. QED
        BY <2>1 DEF HandlerStates
<1> HIDE DEF state
<1>4. /\ handler' \in [Handlers -> HandlerStates] /\ handler'[Tick] = state
      /\ \A g \in Handlers \ {Tick} : handler'[g] = handler[g]
    BY <1>1, <1>2, <1>3, HandlerRowEffect
<1>5. /\ run' \in [Runs -> RunRows]
      /\ run'[r].status = "failed" /\ run'[r].wake = w
      /\ run'[r].session = run[r].session /\ run'[r].report = run[r].report
      /\ \A q \in Runs \ {r} : run'[q] = run[q]
    BY <1>1, SetRunEffect
<1>6. UNCHANGED <<wake, approval, item, runtime, agent, session, online, faults, task>>
    BY DEF ReapRun, outside
<1>7. TypeOK'
    BY <1>1, <1>4, <1>5, <1>6 DEF TypeOK
<1>8. TaskInv' /\ RunInv' /\ OneActiveRun' /\ ReportedIsOver' /\ RunsGoOn /\ TasksGoOn
    BY <1>1, <1>5, <1>6, <1>7, TablesMove
<1>9. Begun' /\ Recovering' /\ Settling'
    <2>1. NoActiveRunOf(w)'
        BY <1>1, <1>5 DEF OneActiveRun, NoActiveRunOf, ActiveRuns, IsActive
    <2>2. ~Processing(w)'
        BY <1>1, <1>5, <1>6 DEF Processing
    <2>3. QED
        BY <1>1, <1>3, <1>4, <1>5, <1>8, <2>1, <2>2, HandlerStarts
<1>10. QED
    BY <1>7, <1>8, <1>9 DEF AutomationInv

\* The tick takes up an active run that is attached.
LEMMA SyncRunKeeps ==
    ASSUME AutomationInv, NEW r \in Runs, SyncRun(r) PROVE AutomationInv'
<1> DEFINE s == run[r].session
           state == [Rest EXCEPT !.at = "finalize", !.run = r, !.reusable = session[s] = "idle"]
<1>1. /\ TypeOK /\ RunInv /\ Tick \in Handlers
      /\ IsActive(r) /\ s # 0
    BY Bounds DEF AutomationInv, SyncRun
<1>2. UNCHANGED <<wake, approval, item, runtime, agent, session, online, faults, task>>
    BY DEF SyncRun, outside
<1>3. CASE handler' = handler /\ \E seen \in BOOLEAN : run' = [run EXCEPT ![r].observed = seen]
    <2>1. /\ run' \in [Runs -> RunRows]
          /\ \A q \in Runs : /\ run'[q].status = run[q].status /\ run'[q].wake = run[q].wake
                             /\ run'[q].session = run[q].session /\ run'[q].report = run[q].report
        BY <1>1, <1>3, RunNoteEffect
    <2>2. TypeOK'
        BY <1>1, <1>2, <1>3, <2>1 DEF TypeOK
    <2>3. TaskInv' /\ RunInv' /\ OneActiveRun' /\ ReportedIsOver' /\ RunsGoOn /\ TasksGoOn
        BY <1>2, <2>1, <2>2, TablesMove
    <2>4. Begun' /\ Recovering' /\ Settling'
        BY <1>3, <2>3, TickKept
    <2>5. QED
        BY <2>2, <2>3, <2>4 DEF AutomationInv
<1>4. CASE run' = run /\ handler' = [handler EXCEPT ![Tick] = state]
    <2>1. state \in HandlerStates /\ state.at = "finalize" /\ state.run = r
        <3>1. (session[s] = "idle") \in BOOLEAN
            OBVIOUS
        <3>2. Rest \in HandlerStates /\ r \in 0..MaxRuns
            BY FreshRows, Bounds DEF Runs
        <3>3. QED
            BY <3>1, <3>2 DEF HandlerStates
    <2> HIDE DEF state
    <2>2. /\ handler' \in [Handlers -> HandlerStates] /\ handler'[Tick] = state
          /\ \A g \in Handlers \ {Tick} : handler'[g] = handler[g]
        BY <1>1, <1>4, <2>1, HandlerRowEffect
    <2>3. TypeOK'
        BY <1>1, <1>2, <1>4, <2>2 DEF TypeOK
    <2>4. TaskInv' /\ RunInv' /\ OneActiveRun' /\ ReportedIsOver' /\ RunsGoOn /\ TasksGoOn
        BY <1>2, <1>4, <2>3, TablesMove
    <2>5. run[r].status \notin {"none", "starting"}
        BY <1>1 DEF RunInv, RunOK
    <2>6. ~Holds(run[r].wake)'
        BY <1>1, <1>2, <1>4, AttachedIsNotHeld DEF Holds
    <2>7. Begun' /\ Recovering' /\ Settling'
        BY <1>1, <1>4, <2>1, <2>2, <2>4, <2>5, <2>6, HandlerStarts
    <2>8. QED
        BY <2>3, <2>4, <2>7 DEF AutomationInv
<1>5. QED
    BY <1>3, <1>4 DEF SyncRun

\* The tick settles the run, unless its report has.
LEMMA FinalizeKeeps ==
    ASSUME AutomationInv, Finalize PROVE AutomationInv'
<1> DEFINE r == handler[Tick].run
           status == FinalStatus(run[r].session)
           state == [handler[Tick] EXCEPT !.at = "runtime", !.pending = run[r].pending]
<1>1. handler[Tick].at = "finalize" /\ Tick \in Handlers
    BY Bounds DEF Finalize
<1>2. TypeOK /\ r \in Runs /\ run[r].status \notin {"none", "starting"}
    BY <1>1, HandlersRun
<1>3. UNCHANGED <<wake, approval, item, runtime, agent, session, online, faults, task>>
    BY DEF Finalize, outside
<1>4. /\ run' \in [Runs -> RunRows]
      /\ run'[r].status = run[r].status \/ run'[r].status \in {"succeeded", "failed", "cancelled"}
      /\ run'[r].wake = run[r].wake
      /\ run'[r].session = run[r].session /\ run'[r].report = run[r].report
      /\ \A q \in Runs \ {r} : run'[q] = run[q]
    <2>1. status \in {"succeeded", "failed", "cancelled"}
        BY DEF FinalStatus
    <2>2. CASE SetRun(r, status)
        <3> HIDE DEF status
        <3>1. QED
            BY <1>2, <2>1, <2>2, SetRunEffect
    <2>3. CASE run' = run
        BY <1>2, <2>3 DEF TypeOK
    <2>4. QED
        BY <2>2, <2>3 DEF Finalize, FinalizeRun
<1>5. /\ handler' \in [Handlers -> HandlerStates]
      /\ handler'[Tick].at \in {"item", "runtime"} /\ handler'[Tick].run = r
      /\ \A g \in Handlers \ {Tick} : handler'[g] = handler[g]
    <2>1. CASE Handle(Tick, "item")
        BY <1>1, <1>2, <2>1, HandleEffect
    <2>2. CASE handler' = [handler EXCEPT ![Tick].at = "runtime",
                                          ![Tick].pending = run[r].pending]
        <3>1. handler' = [handler EXCEPT ![Tick] = state]
            BY <2>2
        <3>2. run[r].pending \in SUBSET Wakes
            BY <1>2 DEF TypeOK, RunRows
        <3>3. state \in HandlerStates /\ state.at = "runtime" /\ state.run = r
            BY <1>1, <1>2, <3>2 DEF TypeOK, HandlerStates
        <3> HIDE DEF state
        <3>4. QED
            BY <1>1, <1>2, <3>1, <3>3, HandlerRowEffect
    <2>3. QED
        BY <2>1, <2>2 DEF Finalize, FinalizeRun
<1>6. TypeOK'
    BY <1>2, <1>3, <1>4, <1>5 DEF TypeOK
<1> HIDE DEF status, state, r
<1>7. TaskInv' /\ RunInv' /\ OneActiveRun' /\ ReportedIsOver' /\ RunsGoOn /\ TasksGoOn
    BY <1>2, <1>3, <1>4, <1>6, TablesMove
<1>8. Begun' /\ Recovering' /\ Settling'
    BY <1>1, <1>5, <1>7, HandlerMoves DEF r
<1>9. QED
    BY <1>6, <1>7, <1>8 DEF AutomationInv

LEMMA FinalizeFailsKeeps ==
    ASSUME AutomationInv, FinalizeFails PROVE AutomationInv'
<1> DEFINE r == handler[Tick].run
<1>1. handler[Tick].at \in {"finalize", "item"} /\ Done(Tick) /\ Tick \in Handlers
    BY Bounds DEF FinalizeFails
<1>2. TypeOK /\ r \in Runs /\ run[r].status \notin {"none", "starting"}
    BY <1>1, HandlersRun
<1>3. UNCHANGED <<wake, approval, item, runtime, agent, session, online, faults, task>>
    BY DEF FinalizeFails, outside
<1>4. /\ run' \in [Runs -> RunRows]
      /\ run'[r].status = run[r].status \/ run'[r].status = "failed"
      /\ run'[r].wake = run[r].wake
      /\ run'[r].session = run[r].session /\ run'[r].report = run[r].report
      /\ \A q \in Runs \ {r} : run'[q] = run[q]
    <2>1. CASE SetRun(r, "failed")
        BY <1>2, <2>1, SetRunEffect
    <2>2. CASE run' = run
        BY <1>2, <2>2 DEF TypeOK
    <2>3. QED
        BY <2>1, <2>2 DEF FinalizeFails
<1>5. /\ handler' \in [Handlers -> HandlerStates] /\ handler'[Tick].at = "rest"
      /\ \A g \in Handlers \ {Tick} : handler'[g] = handler[g]
    BY <1>1, <1>2, DoneEffect
<1>6. TypeOK'
    BY <1>2, <1>3, <1>4, <1>5 DEF TypeOK
<1> HIDE DEF r
<1>7. TaskInv' /\ RunInv' /\ OneActiveRun' /\ ReportedIsOver' /\ RunsGoOn /\ TasksGoOn
    BY <1>2, <1>3, <1>4, <1>6, TablesMove
<1>8. Begun' /\ Recovering' /\ Settling'
    BY <1>1, <1>5, <1>7, HandlerMoves
<1>9. QED
    BY <1>6, <1>7, <1>8 DEF AutomationInv

\* A step of a handler that takes no further run and settles no wakeup.
LEMMA HandlerGoesOn ==
    ASSUME AutomationInv, TypeOK', NEW h \in Handlers, handler[h].at # "rest",
           \A g \in Handlers \ {h} : handler'[g] = handler[g],
           \/ handler'[h].at = "rest"
           \/ /\ handler'[h].run = handler[h].run /\ handler'[h].at # "recover"
              /\ handler'[h].at \in {"finalize", "item", "wake"} =>
                    handler[h].at \in {"finalize", "item", "wake"},
           \A v \in Wakes : wake'[v] = wake[v] \/ wake[v].status = "none",
           \A r \in Runs : /\ run'[r].status = run[r].status /\ run'[r].wake = run[r].wake
                           /\ run'[r].session = run[r].session /\ run'[r].report = run[r].report,
           UNCHANGED <<approval, task>>
    PROVE  AutomationInv'
<1>1. TaskInv' /\ RunInv' /\ OneActiveRun' /\ ReportedIsOver' /\ RunsGoOn /\ TasksGoOn
    BY TablesMove
<1>2. Begun' /\ Recovering' /\ Settling'
    BY <1>1, HandlerMoves
<1>3. QED
    BY <1>1, <1>2 DEF AutomationInv

LEMMA FinalizeItemKeeps ==
    ASSUME AutomationInv, FinalizeItem PROVE AutomationInv'
<1> DEFINE r == handler[Tick].run
           i == wake[run[r].wake].item
           row == [status |-> IF run[r].status = "succeeded" THEN "done" ELSE "blocked",
                   run |-> 0]
           state == [handler[Tick] EXCEPT !.at = "wake", !.pending = run[r].pending]
<1>1. handler[Tick].at = "item" /\ Tick \in Handlers
    BY Bounds DEF FinalizeItem
<1>2. TypeOK /\ r \in Runs /\ run[r].wake \in Wakes
    BY <1>1, HandlersRun
<1>3. i \in Items \cup {None} /\ row \in ItemRows /\ run[r].pending \in SUBSET Wakes
    <2>1. i \in Items \cup {None}
        BY <1>2 DEF TypeOK, WakeRows
    <2>2. row \in ItemRows
        BY Bounds DEF ItemRows
    <2>3. run[r] \in RunRows
        BY <1>2 DEF TypeOK
    <2>4. QED
        BY <2>1, <2>2, <2>3 DEF RunRows
<1>4. item' = IF i = None THEN item ELSE [item EXCEPT ![i] = row]
    BY DEF FinalizeItem
<1>5. handler' = [handler EXCEPT ![Tick] = state]
    BY DEF FinalizeItem
<1>6. state \in HandlerStates /\ state.at = "wake" /\ state.run = r
    BY <1>1, <1>2, <1>3 DEF TypeOK, HandlerStates
<1> HIDE DEF i, row, state
<1>7. item' \in [Items -> ItemRows]
    <2>1. CASE i = None
        BY <1>2, <1>4, <2>1 DEF TypeOK
    <2>2. CASE i # None
        BY <1>2, <1>3, <1>4, <2>2, ItemRowEffect
    <2>3. QED
        BY <2>1, <2>2
<1>8. /\ handler' \in [Handlers -> HandlerStates] /\ handler'[Tick] = state
      /\ \A g \in Handlers \ {Tick} : handler'[g] = handler[g]
    BY <1>1, <1>2, <1>5, <1>6, HandlerRowEffect
<1>9. UNCHANGED <<wake, run, approval, runtime, agent, session, online, faults, task>>
    BY DEF FinalizeItem, outside
<1>10. TypeOK'
    BY <1>2, <1>7, <1>8, <1>9 DEF TypeOK
<1>11. QED
    BY <1>1, <1>6, <1>8, <1>9, <1>10, HandlerGoesOn

LEMMA FinalizeRuntimeKeeps ==
    ASSUME AutomationInv, FinalizeRuntime PROVE AutomationInv'
<1> DEFINE r == handler[Tick].run
           s == run[r].session
<1>1. handler[Tick].at = "runtime" /\ Tick \in Handlers
    BY Bounds DEF FinalizeRuntime
<1>2. TypeOK /\ r \in Runs
    BY <1>1, HandlersRun
<1>3. runtime' \in 0..MaxSessions
    <2>1. s \in 0..MaxSessions /\ runtime \in 0..MaxSessions /\ 0 \in 0..MaxSessions
        <3>1. run[r] \in RunRows /\ runtime \in 0..MaxSessions
            BY <1>2 DEF TypeOK
        <3>2. QED
            BY <3>1, Bounds DEF RunRows
    <2>2. runtime' \in {s, 0, runtime}
        BY DEF FinalizeRuntime
    <2>3. QED
        BY <2>1, <2>2
<1>4. /\ handler' \in [Handlers -> HandlerStates]
      /\ \/ handler'[Tick].at = "rest"
         \/ handler'[Tick].at = "follow" /\ handler'[Tick].run = r
      /\ \A g \in Handlers \ {Tick} : handler'[g] = handler[g]
    <2>1. CASE Done(Tick)
        BY <1>1, <1>2, <2>1, DoneEffect
    <2>2. CASE Handle(Tick, "follow")
        BY <1>1, <1>2, <2>2, HandleEffect
    <2>3. QED
        BY <2>1, <2>2 DEF FinalizeRuntime
<1>5. UNCHANGED <<wake, run, approval, item, agent, session, online, faults, task>>
    BY DEF FinalizeRuntime, outside
<1>6. TypeOK'
    BY <1>2, <1>3, <1>4, <1>5 DEF TypeOK
<1>7. QED
    BY <1>1, <1>4, <1>5, <1>6, HandlerGoesOn

LEMMA QueueFollowupKeeps ==
    ASSUME AutomationInv, NEW h \in Handlers, QueueFollowup(h) PROVE AutomationInv'
<1> DEFINE r == handler[h].run
           pending == handler[h].pending
           key == <<r, Cardinality(pending)>>
<1>1. handler[h].at = "follow"
    BY DEF QueueFollowup
<1>2. TypeOK /\ r \in Runs
    BY <1>1, HandlersRun
<1>3. key \in Keys
    <2>1. pending \in SUBSET Wakes /\ r \in Nat
        BY <1>2, Bounds DEF TypeOK, HandlerStates
    <2>2. IsFiniteSet(Wakes)
        BY Bounds, FS_Interval DEF Wakes
    <2>3. IsFiniteSet(pending)
        BY <2>1, <2>2, FS_Subset
    <2>4. Cardinality(pending) \in Nat
        BY <2>3, FS_CardinalityType
    <2>5. QED
        BY <2>1, <2>4 DEF Keys
<1>4. /\ wake' \in [Wakes -> WakeRows]
      /\ \A v \in Wakes : wake'[v] = wake[v] \/ wake[v].status = "none"
    <2>1. CASE wake' = wake
        BY <1>2, <2>1 DEF TypeOK
    <2>2. CASE FreeWakes # {} /\ wake' = [wake EXCEPT ![First(FreeWakes)] = NewWake(None, key)]
        <3> HIDE DEF key
        <3>1. QED
            BY <1>2, <1>3, <2>2, OpenedEffect
    <2>3. QED
        BY <2>1, <2>2 DEF QueueFollowup
<1>5. /\ handler' \in [Handlers -> HandlerStates]
      /\ \/ handler'[h].at = "rest"
         \/ handler'[h].at = "clear" /\ handler'[h].run = r
      /\ \A g \in Handlers \ {h} : handler'[g] = handler[g]
    <2>1. CASE Done(h)
        BY <1>2, <2>1, DoneEffect
    <2>2. CASE Handle(h, "clear")
        BY <1>2, <2>2, HandleEffect
    <2>3. QED
        BY <2>1, <2>2 DEF QueueFollowup
<1>6. UNCHANGED <<run, approval, item, runtime, agent, session, online, faults, task>>
    BY DEF QueueFollowup, outside
<1>7. TypeOK'
    BY <1>2, <1>4, <1>5, <1>6 DEF TypeOK
<1>8. QED
    BY <1>1, <1>4, <1>5, <1>6, <1>7, HandlerGoesOn

LEMMA ClearFollowupsKeeps ==
    ASSUME AutomationInv, NEW h \in Handlers, ClearFollowups(h) PROVE AutomationInv'
<1> DEFINE r == handler[h].run
<1>1. handler[h].at = "clear" /\ Done(h)
    BY DEF ClearFollowups
<1>2. TypeOK /\ r \in Runs
    BY <1>1, HandlersRun
<1>3. /\ run' \in [Runs -> RunRows]
      /\ \A q \in Runs : /\ run'[q].status = run[q].status /\ run'[q].wake = run[q].wake
                         /\ run'[q].session = run[q].session /\ run'[q].report = run[q].report
    <2>1. run' = [run EXCEPT ![r].pending = {}]
        BY DEF ClearFollowups
    <2>2. QED
        BY <1>2, <2>1, RunNoteEffect
<1>4. /\ handler' \in [Handlers -> HandlerStates] /\ handler'[h].at = "rest"
      /\ \A g \in Handlers \ {h} : handler'[g] = handler[g]
    BY <1>1, <1>2, DoneEffect
<1>5. UNCHANGED <<wake, approval, item, runtime, agent, session, online, faults, task>>
    BY DEF ClearFollowups, outside
<1>6. TypeOK'
    BY <1>2, <1>3, <1>4, <1>5 DEF TypeOK
<1>7. QED
    BY <1>1, <1>3, <1>4, <1>5, <1>6, HandlerGoesOn

LEMMA FinishReportKeeps ==
    ASSUME AutomationInv, NEW r \in Runs, FinishReport(r) PROVE AutomationInv'
<1> DEFINE s == run[r].session
           state == [handler[r] EXCEPT !.at = "follow", !.pending = run[r].pending]
<1>1. TypeOK /\ handler[r].at = "reported" /\ r \in Handlers
    BY DEF AutomationInv, FinishReport, Handlers
<1>2. runtime' \in 0..MaxSessions
    <2>1. s \in 0..MaxSessions /\ runtime \in 0..MaxSessions /\ 0 \in 0..MaxSessions
        BY <1>1, Bounds DEF TypeOK, RunRows
    <2>2. runtime' \in {s, 0, runtime}
        BY DEF FinishReport
    <2>3. QED
        BY <2>1, <2>2
<1>3. handler' = [handler EXCEPT ![r] = state]
    BY DEF FinishReport
<1>4. state \in HandlerStates /\ state.at = "follow" /\ state.run = handler[r].run
    <2>1. run[r].pending \in SUBSET Wakes
        BY <1>1 DEF TypeOK, RunRows
    <2>2. QED
        BY <1>1, <2>1 DEF TypeOK, HandlerStates
<1> HIDE DEF state
<1>5. /\ handler' \in [Handlers -> HandlerStates] /\ handler'[r] = state
      /\ \A g \in Handlers \ {r} : handler'[g] = handler[g]
    BY <1>1, <1>3, <1>4, HandlerRowEffect
<1>6. UNCHANGED <<wake, run, approval, item, agent, session, online, faults, task>>
    BY DEF FinishReport, outside
<1>7. TypeOK'
    BY <1>1, <1>2, <1>5, <1>6 DEF TypeOK
<1>8. QED
    BY <1>1, <1>4, <1>5, <1>6, <1>7, HandlerGoesOn

\* The item that a report or a decision is about.
LEMMA ReportedItemIsItem ==
    ASSUME TypeOK, NEW r \in Runs, run[r].wake \in Wakes
    PROVE  ReportedItem(r) \in Items \cup {None}
<1> DEFINE held == {i \in Items : item[i].run = r}
           named == wake[run[r].wake].item
<1>1. named \in Items \cup {None}
    BY DEF TypeOK, WakeRows
<1>2. ReportedItem(r) =
        IF named # None THEN named ELSE IF held # {} THEN CHOOSE i \in held : TRUE ELSE None
    BY DEF ReportedItem
<1>3. held # {} => (CHOOSE i \in held : TRUE) \in held
    OBVIOUS
<1>4. held \subseteq Items
    OBVIOUS
<1> HIDE DEF held, named
<1>5. QED
    BY <1>1, <1>2, <1>3, <1>4

\* A report settles a run that is attached, or settles it again.
LEMMA ReportKeeps ==
    ASSUME AutomationInv, NEW r \in Runs, NEW outcome \in Outcomes, Report(r, outcome)
    PROVE  AutomationInv'
<1> DEFINE w == run[r].wake
           i == ReportedItem(r)
           itemRow == [status |-> IF outcome = "succeeded" THEN "done" ELSE "blocked", run |-> 0]
           runRow == [run[r] EXCEPT !.status = outcome, !.report = outcome]
           wakeRow == [wake[w] EXCEPT !.status = WakeAfter(outcome), !.item = i]
           state == [Rest EXCEPT !.at = "reported", !.run = r]
<1>1. /\ TypeOK /\ RunOK(r) /\ ReportedIsOver /\ r \in Handlers
      /\ run[r].session # 0
      /\ IsActive(r) \/ (run[r].report = outcome /\ run[r].status = outcome)
    BY DEF AutomationInv, RunInv, Report, Handlers
<1>2. w \in Wakes /\ outcome \in {"succeeded", "failed", "blocked"}
    BY <1>1, Ranges, Bounds DEF RunOK
<1>3. i \in Items \cup {None}
    BY <1>1, <1>2, ReportedItemIsItem
<1>4. ~Holds(w)
    <2>1. CASE IsActive(r)
        BY <1>1, <2>1, AttachedIsNotHeld
    <2>2. CASE run[r].report = outcome
        <3>1. TaskOK(w) /\ run[r].report # "none"
            BY <1>2, <2>2 DEF AutomationInv, TaskInv
        <3>2. wake[w].status \in {"completed", "failed", "blocked"}
            BY <1>1, <3>1 DEF ReportedIsOver
        <3>3. QED
            BY <3>1, <3>2 DEF TaskOK
    <2>3. QED
        BY <1>1, <2>1, <2>2
<1>5. /\ run' = [run EXCEPT ![r] = runRow]
      /\ wake' = [wake EXCEPT ![w] = wakeRow]
      /\ handler' = [handler EXCEPT ![r] = state]
      /\ item' = IF i = None THEN item ELSE [item EXCEPT ![i] = itemRow]
    BY DEF Report
<1>6. UNCHANGED <<approval, runtime, agent, session, online, faults, task>>
    BY DEF Report, outside
<1>7. /\ runRow \in RunRows
      /\ runRow.status = outcome /\ runRow.report = outcome
      /\ runRow.wake = w /\ runRow.session = run[r].session
    <2>1. run[r] \in RunRows
        BY <1>1 DEF TypeOK
    <2>2. QED
        BY <1>2, <2>1 DEF RunRows
<1>8. /\ wakeRow \in WakeRows
      /\ wakeRow.status \in {"completed", "failed", "blocked"}
      /\ wakeRow.waits = wake[w].waits
    <2>1. wake[w] \in WakeRows
        BY <1>1, <1>2 DEF TypeOK
    <2>2. WakeAfter(outcome) \in {"completed", "failed", "blocked"}
        BY <1>2 DEF WakeAfter
    <2> HIDE DEF i
    <2>3. QED
        BY <1>3, <2>1, <2>2 DEF WakeRows
<1>9. state \in HandlerStates /\ state.at = "reported" /\ state.run = r
    <2>1. Rest \in HandlerStates /\ r \in 0..MaxRuns
        BY FreshRows, Bounds DEF Runs
    <2>2. QED
        BY <2>1 DEF HandlerStates
<1>10. itemRow \in ItemRows
    BY Bounds DEF ItemRows
<1> HIDE DEF runRow, wakeRow, state, itemRow, i
<1>11. /\ run' \in [Runs -> RunRows] /\ run'[r] = runRow
       /\ \A q \in Runs \ {r} : run'[q] = run[q]
    BY <1>1, <1>5, <1>7, RunRowEffect
<1>12. /\ handler' \in [Handlers -> HandlerStates] /\ handler'[r] = state
       /\ \A g \in Handlers \ {r} : handler'[g] = handler[g]
    BY <1>1, <1>5, <1>9, HandlerRowEffect
<1>13. item' \in [Items -> ItemRows]
    <2>1. CASE i = None
        BY <1>1, <1>5, <2>1 DEF TypeOK
    <2>2. CASE i # None
        BY <1>1, <1>3, <1>5, <1>10, <2>2, ItemRowEffect
    <2>3. QED
        BY <2>1, <2>2
<1> HIDE DEF w
<1>14. /\ wake' \in [Wakes -> WakeRows] /\ wake'[w] = wakeRow
       /\ \A v \in Wakes \ {w} : wake'[v] = wake[v]
    BY <1>1, <1>2, <1>5, <1>8, WakeRowEffect
<1>15. TypeOK'
    BY <1>1, <1>6, <1>11, <1>12, <1>13, <1>14 DEF TypeOK
<1>16. TaskInv' /\ RunInv' /\ OneActiveRun' /\ ReportedIsOver' /\ RunsGoOn /\ TasksGoOn
    <2>1. run[r].status \notin {"none", "starting"}
        BY <1>1 DEF RunOK
    <2>2. \A v \in Wakes :
            \/ wake'[v].status = wake[v].status /\ wake'[v].waits = wake[v].waits
            \/ /\ ~Holds(v) /\ wake'[v].waits = wake[v].waits
               /\ wake'[v].status \in {"completed", "failed", "blocked"}
        BY <1>4, <1>8, <1>14
    <2>3. \A q \in Runs :
            /\ run'[q].wake = run[q].wake /\ run'[q].session = run[q].session
            /\ \/ run'[q].status = run[q].status
               \/ /\ run[q].status \notin {"none", "starting"}
                  /\ run'[q].status \notin {"none", "starting", "running"}
            /\ \/ run'[q].report = run[q].report
               \/ /\ run'[q].status \notin {"none", "starting", "running"}
                  /\ wake'[run[q].wake].status \in {"completed", "failed", "blocked"}
        BY <1>2, <1>7, <1>8, <1>11, <1>14, <2>1 DEF w
    <2>4. QED
        BY <1>6, <1>15, <2>2, <2>3, TablesMove
<1>17. Begun' /\ Recovering' /\ Settling'
    BY <1>1, <1>2, <1>7, <1>9, <1>11, <1>12, <1>16, HandlerStarts
<1>18. QED
    BY <1>15, <1>16, <1>17 DEF AutomationInv

\* A denial settles a run and a wakeup that are blocked.
LEMMA DenyKeeps ==
    ASSUME AutomationInv, NEW r \in Runs, Deny(r) PROVE AutomationInv'
<1> DEFINE w == run[r].wake
           i == ReportedItem(r)
           itemRow == [status |-> "blocked", run |-> 0]
<1>1. TypeOK /\ RunOK(r) /\ TaskInv /\ approval[r] = "pending"
    BY DEF AutomationInv, RunInv, Deny
<1>2. w \in Wakes
    BY <1>1, Ranges DEF RunOK
<1>3. i \in Items \cup {None} /\ itemRow \in ItemRows
    BY <1>1, <1>2, ReportedItemIsItem, Bounds DEF ItemRows
<1>4. item' = item \/ (i # None /\ item' = [item EXCEPT ![i] = itemRow])
    BY DEF Deny
<1> HIDE DEF i, itemRow
<1>5. item' \in [Items -> ItemRows]
    BY <1>1, <1>3, <1>4, ItemRowEffect DEF TypeOK
<1>6. /\ run' \in [Runs -> RunRows]
      /\ run'[r].status = run[r].status
         \/ (run[r].status = "blocked" /\ run'[r].status = "cancelled")
      /\ run'[r].wake = w
      /\ run'[r].session = run[r].session /\ run'[r].report = run[r].report
      /\ \A q \in Runs \ {r} : run'[q] = run[q]
    <2>1. CASE run[r].status = "blocked"
        <3>1. SetRun(r, "cancelled")
            BY <2>1 DEF Deny, SetRun
        <3>2. QED
            BY <1>1, <2>1, <3>1, SetRunEffect
    <2>2. CASE run[r].status # "blocked"
        BY <1>1, <2>2 DEF TypeOK, Deny
    <2>3. QED
        BY <2>1, <2>2
<1>7. /\ wake' \in [Wakes -> WakeRows]
      /\ wake'[w].status = wake[w].status
         \/ (wake[w].status = "blocked" /\ wake'[w].status = "failed")
      /\ wake'[w].waits = wake[w].waits
      /\ \A v \in Wakes \ {w} : wake'[v] = wake[v]
    <2>1. CASE wake[w].status = "blocked"
        <3>1. SetWake(w, "failed")
            BY <2>1 DEF Deny, SetWake
        <3>2. QED
            BY <1>1, <1>2, <2>1, <3>1, SetWakeEffect
    <2>2. CASE wake[w].status # "blocked"
        BY <1>1, <2>2 DEF TypeOK, Deny
    <2>3. QED
        BY <2>1, <2>2
<1>8. /\ approval' \in [Runs -> {"none", "pending", "approved", "denied"}]
      /\ \A q \in Runs : approval'[q] = "none" <=> approval[q] = "none"
    BY <1>1 DEF TypeOK, Deny
<1>9. UNCHANGED <<runtime, agent, session, online, faults, task, handler>>
    BY DEF Deny, outside
<1>10. TypeOK'
    BY <1>1, <1>5, <1>6, <1>7, <1>8, <1>9 DEF TypeOK
<1>11. wake[w].status = "blocked" => ~Holds(w)
    BY <1>1, <1>2 DEF TaskInv, TaskOK
<1> HIDE DEF w
<1>12. TaskInv' /\ RunInv' /\ OneActiveRun' /\ ReportedIsOver' /\ RunsGoOn /\ TasksGoOn
    <2>1. \A v \in Wakes :
            \/ wake'[v].status = wake[v].status /\ wake'[v].waits = wake[v].waits
            \/ /\ ~Holds(v) /\ wake'[v].waits = wake[v].waits
               /\ wake'[v].status \in {"completed", "failed", "blocked"}
        BY <1>7, <1>11
    <2>2. \A q \in Runs :
            /\ run'[q].wake = run[q].wake /\ run'[q].session = run[q].session
            /\ \/ run'[q].status = run[q].status
               \/ /\ run[q].status \notin {"none", "starting"}
                  /\ run'[q].status \notin {"none", "starting", "running"}
            /\ run'[q].report = run[q].report
        BY <1>6 DEF w
    <2>3. QED
        BY <1>8, <1>9, <1>10, <2>1, <2>2, TablesMove
<1>13. Begun' /\ Recovering' /\ Settling'
    BY <1>9, <1>12, TickKept
<1>14. QED
    BY <1>10, <1>12, <1>13 DEF AutomationInv

-----------------------------------------------------------------------------
\* The sessions, the host, the operator, and restarts.

LEMMA FaultCounted == ASSUME TypeOK, Fault PROVE faults' \in 0..MaxFaults
BY Bounds DEF TypeOK, Fault

LEMMA DeleteSessionKeeps ==
    ASSUME AutomationInv, NEW s \in Sessions, DeleteSession(s) PROVE AutomationInv'
<1>1. TypeOK /\ faults' \in 0..MaxFaults
    BY FaultCounted DEF AutomationInv, DeleteSession
<1>2. /\ run' \in [Runs -> RunRows]
      /\ \A r \in Runs :
           /\ run'[r].status = run[r].status /\ run'[r].wake = run[r].wake
           /\ run'[r].session \in {run[r].session, 0} /\ run'[r].report = run[r].report
    <2>1. \A r \in Runs :
            /\ [run[r] EXCEPT !.session = 0] \in RunRows
            /\ [run[r] EXCEPT !.session = 0].status = run[r].status
            /\ [run[r] EXCEPT !.session = 0].wake = run[r].wake
            /\ [run[r] EXCEPT !.session = 0].report = run[r].report
            /\ [run[r] EXCEPT !.session = 0].session = 0
        <3> SUFFICES ASSUME NEW r \in Runs, NEW row, row = [run[r] EXCEPT !.session = 0]
                     PROVE  /\ row \in RunRows /\ row.status = run[r].status
                            /\ row.wake = run[r].wake /\ row.report = run[r].report
                            /\ row.session = 0
            OBVIOUS
        <3>1. run[r] \in RunRows /\ 0 \in 0..MaxSessions
            BY <1>1, Bounds DEF TypeOK
        <3>2. QED
            BY <3>1 DEF RunRows
    <2>2. \A r \in Runs : run[r] \in RunRows
        BY <1>1 DEF TypeOK
    <2>3. run' = [r \in Runs |->
                     IF run[r].session = s THEN [run[r] EXCEPT !.session = 0] ELSE run[r]]
        BY DEF DeleteSession
    <2>4. \A r \in Runs : run'[r] \in {[run[r] EXCEPT !.session = 0], run[r]}
        BY <2>3
    <2>5. run' \in [Runs -> RunRows]
        BY <2>1, <2>2, <2>3
    <2>6. \A r \in Runs :
           /\ run'[r].status = run[r].status /\ run'[r].wake = run[r].wake
           /\ run'[r].session \in {run[r].session, 0} /\ run'[r].report = run[r].report
        BY <2>1, <2>4
    <2>7. QED
        BY <2>5, <2>6
<1>3. runtime' \in 0..MaxSessions
    BY <1>1, Bounds DEF TypeOK, DeleteSession
<1>4. session' \in [Sessions -> {"none", "idle", "busy", "gone"} \cup Ends]
    BY <1>1 DEF TypeOK, DeleteSession
<1>5. UNCHANGED <<wake, approval, item, agent, online, task, handler>>
    BY DEF DeleteSession
<1>6. TypeOK'
    BY <1>1, <1>2, <1>3, <1>4, <1>5 DEF TypeOK
<1>7. TaskInv' /\ RunInv' /\ OneActiveRun' /\ ReportedIsOver' /\ RunsGoOn /\ TasksGoOn
    BY <1>2, <1>5, <1>6, TablesMove
<1>8. Begun' /\ Recovering' /\ Settling'
    BY <1>5, <1>7, TickKept
<1>9. QED
    BY <1>6, <1>7, <1>8 DEF AutomationInv

\* A restart ends every task and handler; the tables stay.
LEMMA RestartKeeps ==
    ASSUME AutomationInv, Restart PROVE AutomationInv'
<1>1. /\ TypeOK /\ TaskInv /\ RunInv /\ OneActiveRun /\ ReportedIsOver
      /\ faults' \in 0..MaxFaults
    BY FaultCounted DEF AutomationInv, Restart
<1>2. /\ task' \in Tasks /\ handler' \in [Handlers -> HandlerStates]
      /\ \A w \in Wakes : task'[w] = NoTask
      /\ \A h \in Handlers : handler'[h] = Rest
    BY FreshRows DEF Restart, Tasks
<1>3. UNCHANGED <<wake, run, approval, item, runtime, agent, session, online>>
    BY DEF Restart, tables
<1>4. TypeOK'
    BY <1>1, <1>2, <1>3 DEF TypeOK, Tasks
<1>5. \A w \in Wakes : task'[w].at = "idle" /\ task'[w].run = 0 /\ task'[w].to = "none"
    BY <1>2 DEF NoTask
<1>6. TaskInv'
    BY <1>5 DEF TaskInv, TaskOK, Processing, Holds, Starts, NoRunYet
<1>7. RunInv'
    <2> SUFFICES ASSUME NEW r \in Runs PROVE RunOK(r)'
        BY DEF RunInv
    <2>1. RunOK(r) /\ (run[r].status # "none" => run[r].wake \in Wakes)
        BY <1>1, Ranges DEF RunInv, RunOK
    <2>2. QED
        BY <1>3, <1>5, <2>1 DEF RunOK, Holds, IsActive
<1>8. OneActiveRun' /\ ReportedIsOver'
    BY <1>1, <1>3 DEF OneActiveRun, ReportedIsOver, IsActive
<1>9. Begun' /\ Recovering' /\ Settling'
    BY <1>2, Bounds DEF Begun, Recovering, Settling, Rest
<1>10. QED
    BY <1>4, <1>6, <1>7, <1>8, <1>9 DEF AutomationInv

LEMMA OutsideKeeps ==
    ASSUME AutomationInv,
           \/ Reconcile \/ \E i \in Items : OperatorSets(i)
           \/ \E s \in Sessions : SessionMoves(s)
           \/ HostMoves \/ UNCHANGED vars
    PROVE  AutomationInv'
<1>1. TypeOK
    BY DEF AutomationInv
<1>2. CASE Reconcile
    <2>1. UNCHANGED <<wake, run, approval, item, agent, session, online, faults, task, handler>>
        BY <1>2 DEF Reconcile, outside
    <2>2. TypeOK'
        BY <1>1, <1>2, <2>1, Bounds DEF TypeOK, Reconcile
    <2>3. QED
        BY <2>1, <2>2, QuietKeeps
<1>3. ASSUME NEW i \in Items, OperatorSets(i) PROVE AutomationInv'
    <2>1. UNCHANGED <<wake, run, approval, runtime, agent, session, online, task, handler>>
        BY <1>3 DEF OperatorSets
    <2>2. faults' \in 0..MaxFaults
        BY <1>1, <1>3, FaultCounted DEF OperatorSets
    <2>3. item' \in [Items -> ItemRows]
        <3>1. \A row \in ItemRows :
                [row EXCEPT !.status = "queued"] \in ItemRows
            BY DEF ItemRows
        <3>2. item[i] \in ItemRows
            BY <1>1 DEF TypeOK
        <3>3. \A status \in {"done", "blocked"} : [status |-> status, run |-> 0] \in ItemRows
            BY Bounds DEF ItemRows
        <3>4. \E row \in ItemRows : item' = [item EXCEPT ![i] = row]
            BY <1>3, <3>1, <3>2, <3>3 DEF OperatorSets
        <3>5. QED
            BY <1>1, <3>4, ItemRowEffect
    <2>4. TypeOK'
        BY <1>1, <2>1, <2>2, <2>3 DEF TypeOK
    <2>5. QED
        BY <2>1, <2>4, QuietKeeps
<1>4. ASSUME NEW s \in Sessions, SessionMoves(s) PROVE AutomationInv'
    <2>1. UNCHANGED <<wake, run, approval, item, runtime, agent, online, task, handler>>
        BY <1>4 DEF SessionMoves, tables
    <2>2. faults' \in 0..MaxFaults
        BY <1>1, <1>4, FaultCounted DEF SessionMoves, TypeOK
    <2>3. session' \in [Sessions -> {"none", "idle", "busy", "gone"} \cup Ends]
        BY <1>1, <1>4 DEF SessionMoves, TypeOK
    <2>4. TypeOK'
        BY <1>1, <2>1, <2>2, <2>3 DEF TypeOK
    <2>5. QED
        BY <2>1, <2>4, QuietKeeps
<1>5. CASE HostMoves
    <2>1. UNCHANGED <<wake, run, approval, item, runtime, agent, session, task, handler>>
        BY <1>5 DEF HostMoves, tables
    <2>2. faults' \in 0..MaxFaults /\ online' \in BOOLEAN
        BY <1>1, <1>5, FaultCounted DEF HostMoves, TypeOK
    <2>3. TypeOK'
        BY <1>1, <2>1, <2>2 DEF TypeOK
    <2>4. QED
        BY <2>1, <2>3, QuietKeeps
<1>6. CASE UNCHANGED vars
    <2>1. UNCHANGED <<wake, run, approval, item, runtime, agent, session, online, faults,
                      task, handler>>
        BY <1>6 DEF vars, tables, outside
    <2>2. TypeOK'
        BY <1>1, <2>1 DEF TypeOK
    <2>3. QED
        BY <2>1, <2>2, QuietKeeps
<1>7. QED
    BY <1>2, <1>3, <1>4, <1>5, <1>6

-----------------------------------------------------------------------------
\* The invariant is inductive.

LEMMA AutomationStarts == Init => AutomationInv
<1> SUFFICES ASSUME Init PROVE AutomationInv
    OBVIOUS
<1>1. TypeOK
    BY TypeInit
<1>2. /\ \A w \in Wakes : task[w].at = "idle" /\ task[w].run = 0 /\ task[w].to = "none"
      /\ \A r \in Runs : /\ run[r].status = "none" /\ run[r].session = 0
                         /\ run[r].report = "none" /\ approval[r] = "none"
      /\ \A h \in Handlers : handler[h].at = "rest"
    BY DEF Init, NoTask, NoRun, NewRun, Rest
<1>3. TaskInv
    BY <1>2 DEF TaskInv, TaskOK, Processing, Holds, Starts, NoRunYet
<1>4. RunInv /\ OneActiveRun /\ ReportedIsOver
    BY <1>2 DEF RunInv, RunOK, OneActiveRun, ReportedIsOver, IsActive
<1>5. Begun /\ Recovering /\ Settling
    BY <1>2, Bounds DEF Begun, Recovering, Settling
<1>6. QED
    BY <1>1, <1>3, <1>4, <1>5 DEF AutomationInv

LEMMA TaskStepKeeps ==
    ASSUME AutomationInv, NEW w \in Wakes, TaskStep(w) PROVE AutomationInv'
BY ResolveKeeps, LookupKeeps, CoalesceKeeps, MarkCoalescedKeeps, DeferKeeps, CreateRunKeeps,
   CheckoutKeeps, LaunchKeeps, HostOfflineKeeps, RequeueOfflineKeeps, RefusedKeeps, AttachKeeps,
   BootstrapKeeps, BootstrapFailsKeeps, CancelRunKeeps, CancelWakeKeeps
DEF TaskStep

LEMMA TickStepKeeps ==
    ASSUME AutomationInv, TickStep PROVE AutomationInv'
BY RecoverWakeKeeps, FinalizeKeeps, FinalizeFailsKeeps, FinalizeItemKeeps, FinalizeWakeKeeps,
   FinalizeRuntimeKeeps
DEF TickStep

LEMMA AutomationSteps == AutomationInv /\ [Next]_vars => AutomationInv'
<1> SUFFICES ASSUME AutomationInv, [Next]_vars PROVE AutomationInv'
    OBVIOUS
<1>1. CASE \E i \in Items \cup {None} : Enqueue(i)
    BY <1>1, EnqueueKeeps
<1>2. ASSUME NEW w \in Wakes, Claim(w) \/ TaskStep(w) \/ ReapWake(w) PROVE AutomationInv'
    BY <1>2, ClaimKeeps, TaskStepKeeps, ReapWakeKeeps
<1>3. CASE TickStep
    BY <1>3, TickStepKeeps
<1>4. ASSUME NEW r \in Runs,
             ReapRun(r) \/ SyncRun(r) \/ FinishReport(r) \/ Approve(r) \/ Deny(r)
      PROVE  AutomationInv'
    BY <1>4, ReapRunKeeps, SyncRunKeeps, FinishReportKeeps, ApproveKeeps, DenyKeeps
<1>5. ASSUME NEW r \in Runs, NEW outcome \in Outcomes, Report(r, outcome) PROVE AutomationInv'
    BY <1>5, ReportKeeps
<1>6. ASSUME NEW h \in Handlers, HandlerStep(h) PROVE AutomationInv'
    BY <1>6, QueueFollowupKeeps, ClearFollowupsKeeps DEF HandlerStep
<1>7. ASSUME NEW s \in Sessions, DeleteSession(s) PROVE AutomationInv'
    BY <1>7, DeleteSessionKeeps
<1>8. CASE Restart
    BY <1>8, RestartKeeps
<1>9. CASE \/ Reconcile \/ \E i \in Items : OperatorSets(i)
           \/ \E s \in Sessions : SessionMoves(s)
           \/ HostMoves \/ UNCHANGED vars
    BY <1>9, OutsideKeeps
<1>10. QED
    BY <1>1, <1>2, <1>3, <1>4, <1>5, <1>6, <1>7, <1>8, <1>9 DEF Next

LEMMA AutomationInvariant == Spec => []AutomationInv
BY AutomationStarts, AutomationSteps, PTL DEF Spec

-----------------------------------------------------------------------------
\* Theorems.

\* The tables, the tasks and the handlers hold what they may hold, for every
\* number of rows, policy and bound (db/automationMemory.ts).
THEOREM TypeCorrect == Spec => []TypeOK
<1>1. AutomationInv => TypeOK
    BY DEF AutomationInv
<1>2. QED
    BY <1>1, AutomationInvariant, PTL

\* While a task works towards attaching a session, its wakeup stays running,
\* and its run starting, unattached and the wakeup's: no reaper, report,
\* decision or other task of processAutomationWakeup takes them away.
THEOREM ClaimIsKept == Spec => []ClaimKept
<1>1. AutomationInv => ClaimKept
    <2> SUFFICES ASSUME AutomationInv, NEW w \in Wakes
                 PROVE  /\ task[w].at \notin {"idle", "bootstrap", "cancel", "cancelWake"} =>
                               wake[w].status = "running"
                        /\ task[w].at \in {"checkout", "preflight", "attach"} =>
                               /\ run[task[w].run].status = "starting"
                               /\ run[task[w].run].wake = w
                               /\ run[task[w].run].session = 0
        BY DEF ClaimKept
    <2>1. TypeOK /\ TaskOK(w) /\ RunInv
        BY DEF AutomationInv, TaskInv
    <2>2. task[w].at \in {"checkout", "preflight", "attach"} =>
            task[w].run \in Runs /\ RunOK(task[w].run)
        BY <2>1, Ranges DEF TaskOK, NoRunYet, RunInv
    <2>3. QED
        BY <2>1, <2>2 DEF TaskOK, Holds, Starts, NoRunYet, RunOK
<1>2. QED
    BY <1>1, AutomationInvariant, PTL

\* No wakeup ever has two active runs, whatever the concurrency policy: a task
\* creates a run only for a wakeup that it holds (createAutomationRun).
THEOREM OneRunAtATime == Spec => []OneActiveRun
<1>1. AutomationInv => OneActiveRun
    BY DEF AutomationInv
<1>2. QED
    BY <1>1, AutomationInvariant, PTL

\* A wakeup whose run has reported is never put back: neither by the reapers,
\* nor by a redelivered report, nor by a task (finalizeAutomationRunFromReport).
THEOREM ReportsAreOver == Spec => []ReportedIsOver
<1>1. AutomationInv => ReportedIsOver
    BY DEF AutomationInv
<1>2. QED
    BY <1>1, AutomationInvariant, PTL

-----------------------------------------------------------------------------
\* Action properties.

\* A run that has reported is neither active nor about to be started.
LEMMA ReportedIsSettled ==
    ASSUME AutomationInv, NEW r \in Runs, run[r].report # "none"
    PROVE  run[r].status \notin {"none", "starting", "running"}
BY DEF AutomationInv, RunInv, RunOK

\* The launch of the run fails, or its session has been deleted.
Excused(r) ==
    \/ task[run[r].wake].at = "cancel" /\ task[run[r].wake].run = r
    \/ run[r].session = 0

LEMMA ReportWinsStep ==
    ASSUME AutomationInv, [Next]_vars, NEW r \in Runs,
           run[r].report # "none", run'[r].status # run[r].status
    PROVE  Excused(r)
<1>1. TypeOK /\ TaskInv /\ RunOK(r) /\ run[r].status \notin {"none", "starting", "running"}
    BY ReportedIsSettled DEF AutomationInv, RunInv
<1>2. run' # run
    OBVIOUS
<1>3. ASSUME NEW w \in Wakes, TaskStep(w) PROVE Excused(r)
    <2>1. CASE Coalesce(w)
        <3>1. run' = [run EXCEPT ![task[w].active].pending = run[task[w].active].pending \cup {w}]
            BY <2>1 DEF Coalesce
        <3>2. run'[r].status = run[r].status
            BY <1>1, <3>1 DEF TypeOK, RunRows
        <3>3. QED
            BY <3>2
    <2>2. CASE CreateRun(w)
        <3> DEFINE free == {q \in Runs : run[q].status = "none"}
        <3>1. free # {} /\ run' = [run EXCEPT ![First(free)] = NewRun(w)]
            BY <1>2, <2>2 DEF CreateRun
        <3>2. First(free) \in free
            BY <3>1, FirstIsMember, Bounds
        <3>3. First(free) # r
            BY <1>1, <3>2
        <3> HIDE DEF free
        <3>4. run'[r] = run[r]
            BY <1>1, <3>1, <3>3 DEF TypeOK
        <3>5. QED
            BY <3>4
    <2>3. CASE HostOffline(w)
        <3>1. task[w].at = "preflight" /\ SetRun(task[w].run, "cancelled")
            BY <2>3 DEF HostOffline
        <3>2. task[w].run \in Runs /\ run[task[w].run].status = "starting"
            BY <3>1, AtWork DEF TaskOK, Starts, NoRunYet
        <3>3. r # task[w].run /\ run'[r] = run[r]
            BY <1>1, <3>1, <3>2, SetRunEffect
        <3>4. QED
            BY <3>3
    <2>4. CASE Attach(w)
        <3> DEFINE q == task[w].run
        <3>1. /\ run[q].status = "starting"
              /\ run' = [run EXCEPT ![q].status = "running", ![q].session = task[w].session]
            BY <1>2, <2>4 DEF Attach
        <3>2. r # q /\ run'[r] = run[r]
            BY <1>1, <3>1 DEF TypeOK
        <3>3. QED
            BY <3>2
    <2>5. CASE CancelRun(w)
        <3> DEFINE to == IF task[w].to = "skipped" THEN "cancelled" ELSE task[w].to
        <3>1. task[w].at = "cancel" /\ SetRun(task[w].run, to)
            BY <2>5 DEF CancelRun
        <3>2. TaskOK(w) /\ task[w].run \in Runs
            BY <3>1, AtWork DEF NoRunYet
        <3>3. r = task[w].run
            BY <1>1, <3>1, <3>2 DEF SetRun, TypeOK
        <3>4. run[r].wake = w
            BY <3>2, <3>3, Bounds DEF TaskOK
        <3>5. QED
            BY <3>1, <3>3, <3>4 DEF Excused
    <2>6. QED
        BY <1>2, <1>3, <2>1, <2>2, <2>3, <2>4, <2>5
        DEF TaskStep, Resolve, Lookup, MarkCoalesced, Defer, Checkout, Launch, RequeueOffline,
            Refused, Bootstrap, BootstrapFails, CancelWake, tables
<1>4. CASE TickStep
    <2> DEFINE q == handler[Tick].run
    <2>1. CASE Finalize
        <3>1. IsActive(q) /\ SetRun(q, FinalStatus(run[q].session))
            BY <1>2, <2>1 DEF Finalize, FinalizeRun
        <3>2. r # q /\ run'[r] = run[r]
            BY <1>1, <3>1 DEF IsActive, SetRun, TypeOK
        <3>3. QED
            BY <3>2
    <2>2. CASE FinalizeFails
        <3>1. run[q].session = 0 /\ SetRun(q, "failed")
            BY <1>2, <2>2 DEF FinalizeFails
        <3>2. r = q
            BY <1>1, <3>1 DEF SetRun, TypeOK
        <3>3. QED
            BY <3>1, <3>2 DEF Excused
    <2>3. QED
        BY <1>2, <1>4, <2>1, <2>2
        DEF TickStep, RecoverWake, FinalizeItem, FinalizeWake, FinalizeRuntime
<1>5. ASSUME NEW q \in Runs, ReapRun(q) \/ SyncRun(q) \/ FinishReport(q) \/ Approve(q) \/ Deny(q)
      PROVE  Excused(r)
    <2>1. CASE ReapRun(q)
        <3>1. run[q].status = "starting" /\ SetRun(q, "failed")
            BY <2>1 DEF ReapRun
        <3>2. r # q /\ run'[r] = run[r]
            BY <1>1, <3>1, SetRunEffect
        <3>3. QED
            BY <3>2
    <2>2. CASE SyncRun(q)
        <3>1. \E seen \in BOOLEAN : run' = [run EXCEPT ![q].observed = seen]
            BY <1>2, <2>2 DEF SyncRun
        <3>2. run'[r].status = run[r].status
            BY <1>1, <3>1 DEF TypeOK, RunRows
        <3>3. QED
            BY <3>2
    <2>3. CASE Deny(q)
        <3>1. approval[q] = "pending" /\ run' = [run EXCEPT ![q].status = "cancelled"]
            BY <1>2, <2>3 DEF Deny
        <3>2. r = q
            BY <1>1, <3>1 DEF TypeOK
        <3>3. run[r].session = 0
            BY <1>1, <3>1, <3>2 DEF RunOK
        <3>4. QED
            BY <3>3 DEF Excused
    <2>4. QED
        BY <1>2, <1>5, <2>1, <2>2, <2>3 DEF FinishReport, Approve
<1>6. ASSUME NEW q \in Runs, NEW outcome \in Outcomes, Report(q, outcome) PROVE Excused(r)
    <2> DEFINE row == [run[q] EXCEPT !.status = outcome, !.report = outcome]
    <2>1. /\ run' = [run EXCEPT ![q] = row]
          /\ IsActive(q) \/ run[q].status = outcome
        BY <1>6 DEF Report
    <2>2. row.status = outcome
        <3>1. run[q] \in RunRows
            BY <1>1 DEF TypeOK
        <3>2. QED
            BY <3>1 DEF RunRows
    <2> HIDE DEF row
    <2>3. q # r => run'[r] = run[r]
        BY <1>1, <2>1 DEF TypeOK
    <2>4. q = r => run'[r].status = outcome
        BY <1>1, <2>1, <2>2 DEF TypeOK
    <2>5. QED
        BY <1>1, <2>1, <2>3, <2>4 DEF IsActive
<1>7. ASSUME NEW h \in Handlers, HandlerStep(h) PROVE Excused(r)
    <2>1. run' = [run EXCEPT ![handler[h].run].pending = {}]
        BY <1>2, <1>7 DEF HandlerStep, QueueFollowup, ClearFollowups
    <2>2. run'[r].status = run[r].status
        BY <1>1, <2>1 DEF TypeOK, RunRows
    <2>3. QED
        BY <2>2
<1>8. ASSUME NEW s \in Sessions, DeleteSession(s) PROVE Excused(r)
    <2>1. run' = [q \in Runs |->
                     IF run[q].session = s THEN [run[q] EXCEPT !.session = 0] ELSE run[q]]
        BY <1>8 DEF DeleteSession
    <2>2. run'[r].status = run[r].status
        <3>1. run[r] \in RunRows
            BY <1>1 DEF TypeOK
        <3>2. QED
            BY <2>1, <3>1 DEF RunRows
    <2>3. QED
        BY <2>2
<1>9. QED
    <2>1. ~(\E i \in Items \cup {None} : Enqueue(i))
        BY <1>2 DEF Enqueue
    <2>2. ~(\E w \in Wakes : Claim(w) \/ ReapWake(w))
        BY <1>2 DEF Claim, ReapWake
    <2>3. ~(\E i \in Items : OperatorSets(i)) /\ ~(\E s \in Sessions : SessionMoves(s))
        BY <1>2 DEF OperatorSets, SessionMoves, tables
    <2>4. ~Reconcile /\ ~HostMoves /\ ~Restart /\ ~UNCHANGED vars
        BY <1>2 DEF Reconcile, HostMoves, Restart, vars, tables
    <2>5. Next
        BY <2>4
    <2>6. \/ \E w \in Wakes : TaskStep(w)
          \/ TickStep
          \/ \E q \in Runs : ReapRun(q) \/ SyncRun(q) \/ FinishReport(q) \/ Approve(q) \/ Deny(q)
          \/ \E q \in Runs, outcome \in Outcomes : Report(q, outcome)
          \/ \E h \in Handlers : HandlerStep(h)
          \/ \E s \in Sessions : DeleteSession(s)
        BY <2>1, <2>2, <2>3, <2>4, <2>5 DEF Next
    <2>7. QED
        BY <1>3, <1>4, <1>5, <1>6, <1>7, <1>8, <2>6

\* Once a run has reported, only the failure of its own launch still changes
\* its status, or the deletion of its session while the tick settles it, for
\* every number of runs and faults (finalizeAutomationRunFromSession).
THEOREM ReportsWin == Spec => ReportWins
<1>1. AutomationInv /\ [Next]_vars =>
        \A r \in Runs :
          run[r].report # "none" /\ run'[r].status # run[r].status =>
              \/ task[run[r].wake].at = "cancel" /\ task[run[r].wake].run = r
              \/ run[r].session = 0
    BY ReportWinsStep DEF Excused
<1>2. QED
    BY <1>1, AutomationInvariant, PTL DEF Spec, ReportWins

\* The item is no run's any more, by no decision about another run.
GivenBack(i) ==
    /\ item'[i].run = 0
    /\ \A r \in Runs \ {item[i].run} : approval'[r] = approval[r]

LEMMA HeldUntilSettledStep ==
    ASSUME TypeOK, [Next]_vars, NEW i \in Items,
           item[i].run # 0, IsActive(item[i].run), item'[i].run # item[i].run
    PROVE  GivenBack(i)
<1>1. item' # item
    OBVIOUS
\* Whatever the row that is written, the item of the property is the one written.
<1>2. ASSUME NEW j, NEW row, item' = [item EXCEPT ![j] = row]
      PROVE  i = j /\ item'[i] = row
    BY <1>2 DEF TypeOK
<1>3. ASSUME NEW w \in Wakes, TaskStep(w) PROVE GivenBack(i)
    <2>1. Checkout(w)
        BY <1>1, <1>3
        DEF TaskStep, Resolve, Lookup, Coalesce, MarkCoalesced, Defer, CreateRun, Launch,
            HostOffline, RequeueOffline, Refused, Attach, Bootstrap, BootstrapFails, CancelRun,
            CancelWake, tables
    <2>2. PICK j \in Candidates(w) :
            /\ CanCheckOut(j, task[w].run)
            /\ item' = [item EXCEPT ![j] = [status |-> "in_progress", run |-> task[w].run]]
        BY <1>1, <2>1 DEF Checkout
    <2>3. i = j /\ item'[i].run = task[w].run
        BY <1>2, <2>2
    <2>4. FALSE
        BY <2>2, <2>3 DEF CanCheckOut
    <2>5. QED
        BY <2>4
<1>4. CASE TickStep
    <2>1. FinalizeItem
        BY <1>1, <1>4
        DEF TickStep, RecoverWake, Finalize, FinalizeFails, FinalizeWake, FinalizeRuntime
    <2>2. PICK j, status : item' = [item EXCEPT ![j] = [status |-> status, run |-> 0]]
        BY <1>1, <2>1 DEF FinalizeItem
    <2>3. item'[i].run = 0
        BY <1>2, <2>2
    <2>4. approval' = approval
        BY <2>1 DEF FinalizeItem
    <2>5. QED
        BY <2>3, <2>4 DEF GivenBack
<1>5. ASSUME NEW q \in Runs, ReapRun(q) \/ SyncRun(q) \/ FinishReport(q) \/ Approve(q) \/ Deny(q)
      PROVE  GivenBack(i)
    <2>1. Deny(q)
        BY <1>1, <1>5 DEF ReapRun, SyncRun, FinishReport, Approve
    <2>2. PICK j : /\ Releasable(j, q)
                   /\ item' = [item EXCEPT ![j] = [status |-> "blocked", run |-> 0]]
        BY <1>1, <2>1 DEF Deny
    <2>3. i = j /\ item'[i].run = 0
        BY <1>2, <2>2
    <2>4. item[i].run = q
        BY <2>2, <2>3 DEF Releasable
    <2>5. \A r \in Runs \ {q} : approval'[r] = approval[r]
        BY <2>1 DEF Deny, TypeOK
    <2>6. QED
        BY <2>3, <2>4, <2>5 DEF GivenBack
<1>6. ASSUME NEW q \in Runs, NEW outcome \in Outcomes, Report(q, outcome) PROVE GivenBack(i)
    <2>1. \E j, status : item' = [item EXCEPT ![j] = [status |-> status, run |-> 0]]
        BY <1>1, <1>6 DEF Report
    <2>2. item'[i].run = 0 /\ approval' = approval
        BY <1>2, <1>6, <2>1 DEF Report
    <2>3. QED
        BY <2>2 DEF GivenBack
<1>7. ASSUME NEW j \in Items, OperatorSets(j) PROVE GivenBack(i)
    <2>1. CASE item' = [item EXCEPT ![j].status = "queued"]
        <3>1. item'[i].run = item[i].run
            BY <2>1 DEF TypeOK, ItemRows
        <3>2. QED
            BY <3>1
    <2>2. CASE \E status : item' = [item EXCEPT ![j] = [status |-> status, run |-> 0]]
        <3>1. item'[i].run = 0 /\ approval' = approval
            BY <1>2, <1>7, <2>2 DEF OperatorSets
        <3>2. QED
            BY <3>1 DEF GivenBack
    <2>3. QED
        BY <1>7, <2>1, <2>2 DEF OperatorSets
<1>8. QED
    <2>1. ~(\E j \in Items \cup {None} : Enqueue(j))
        BY <1>1 DEF Enqueue
    <2>2. ~(\E w \in Wakes : Claim(w) \/ ReapWake(w))
        BY <1>1 DEF Claim, ReapWake
    <2>3. ~(\E h \in Handlers : HandlerStep(h))
        BY <1>1 DEF HandlerStep, QueueFollowup, ClearFollowups
    <2>4. ~(\E s \in Sessions : SessionMoves(s) \/ DeleteSession(s))
        BY <1>1 DEF SessionMoves, DeleteSession, tables
    <2>5. ~Reconcile /\ ~HostMoves /\ ~Restart /\ ~UNCHANGED vars
        BY <1>1 DEF Reconcile, HostMoves, Restart, vars, tables
    <2>6. Next
        BY <2>5
    <2>7. \/ \E w \in Wakes : TaskStep(w)
          \/ TickStep
          \/ \E q \in Runs : ReapRun(q) \/ SyncRun(q) \/ FinishReport(q) \/ Approve(q) \/ Deny(q)
          \/ \E q \in Runs, outcome \in Outcomes : Report(q, outcome)
          \/ \E j \in Items : OperatorSets(j)
        BY <2>1, <2>2, <2>3, <2>4, <2>5, <2>6 DEF Next
    <2>8. QED
        BY <1>3, <1>4, <1>5, <1>6, <1>7, <2>7

\* The item that an active run has checked out is never handed to another run,
\* nor released by a decision about another, for every number of items
\* (checkoutWorkItem, decideGovernanceApprovalWithOutcome).
THEOREM ItemsAreHeld == Spec => HeldUntilSettled
<1>1. TypeOK /\ [Next]_vars =>
        \A i \in Items :
          item[i].run # 0 /\ IsActive(item[i].run) /\ item'[i].run # item[i].run =>
              /\ item'[i].run = 0
              /\ \A r \in Runs \ {item[i].run} : approval'[r] = approval[r]
    BY HeldUntilSettledStep DEF GivenBack
<1>2. QED
    BY <1>1, TypeCorrect, PTL DEF Spec, HeldUntilSettled

=============================================================================
