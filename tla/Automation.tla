----------------------------- MODULE Automation -----------------------------
(***************************************************************************)
(* The automation service of the control plane (services/automation.ts and *)
(* the automation tables of db/automationMemory.ts), for one automation    *)
(* agent in one scope.                                                     *)
(*                                                                         *)
(* A wakeup is claimed by the tick and processed by a task; the task may   *)
(* coalesce it into the active run, or start a run and attach a session to *)
(* it.  The run is settled by its own report or, when its session idles,   *)
(* by the tick; a run refused by the preflight waits for a governance      *)
(* decision; what a restart leaves behind is recovered by the tick's       *)
(* reapers.  Tasks, report handlers and the tick share the tables and      *)
(* nothing else: every statement that changes a table, and every read that *)
(* is used after an await, is a step of its own.                           *)
(*                                                                         *)
(* A definition placed just before another with the same parameters and no *)
(* use of its own is that definition with a plausible slip.                *)
(***************************************************************************)
EXTENDS Integers, FiniteSets

CONSTANTS
    MaxWakes, MaxRuns, MaxSessions,   \* bounds: rows of each table
    MaxRequests,   \* bound: wakeups that users, webhooks and the schedule request
    Items,         \* work items; none of them if the agent is no worker
    Policies, Repos, \* the concurrency policies and kinds of scope to consider
    Outcomes,      \* the outcomes of reports to consider
    Ends,          \* the ways a session ends to consider
    Concurrency,   \* DEFAULT_WAKEUP_PROCESSING_CONCURRENCY
    MaxParallel,   \* automation_agents.max_parallel_runs
    MaxWaits,      \* waits for an offline host before its TTL has passed
    MaxStalls,     \* MAX_STALE_WAKEUP_RETRIES
    MaxRequeues,   \* MAX_STARTING_RUN_REQUEUES
    MaxFaults,     \* bound: restarts, disconnections, and what users do
    None           \* no work item

ASSUME AutomationAssumption ==
    /\ MaxWakes \in Nat \ {0} /\ MaxRuns \in Nat \ {0} /\ MaxSessions \in Nat
    /\ MaxRequests \in 0..MaxWakes
    /\ None \notin Items /\ IsFiniteSet(Items)
    /\ Policies \subseteq {"coalesce_if_active", "skip_if_active", "always_enqueue"}
    /\ Repos \subseteq BOOLEAN /\ Outcomes \subseteq {"succeeded", "failed", "blocked"}
    /\ Ends \subseteq {"done", "error"}
    /\ Concurrency \in Nat \ {0} /\ MaxParallel \in Nat \ {0} /\ MaxWaits \in Nat
    /\ MaxStalls \in Nat /\ MaxRequeues \in Nat /\ MaxFaults \in Nat

Wakes == 1..MaxWakes        \* in the order of requested_at
Runs == 1..MaxRuns          \* in the order of started_at
Sessions == 1..MaxSessions
Tick == 0                   \* the handler that is not a report's
Handlers == {Tick} \cup Runs

VARIABLES
    agent,     \* its concurrency policy, and whether the scope is a repository
    wake,      \* automation_wakeups
    run,       \* automation_runs
    approval,  \* governance_approvals, by the run they are about
    item,      \* work_items: status and checkout_run_id
    runtime,   \* automation_runtime_states.active_session_id; 0 for NULL
    session,   \* sessions.status; "gone" for a deleted row, to which no row refers
    online,    \* hostPresence.isHostOnline
    task,      \* the task of each wakeup (processAutomationWakeup)
    handler,   \* the tick and the report handler of each run
    faults

tables == <<wake, run, approval, item, runtime>>
outside == <<agent, session, online, faults>>
vars == <<tables, outside, task, handler>>

NewWake(i, key) ==
    [status |-> "queued", item |-> i, key |-> key,
     waits |-> 0, stalls |-> 0, requeues |-> 0]
NoWake == [NewWake(None, <<0, 0>>) EXCEPT !.status = "none"]
NewRun(w) ==
    [status |-> "starting", wake |-> w, session |-> 0, pending |-> {},
     observed |-> FALSE, report |-> "none"]
NoRun == [NewRun(0) EXCEPT !.status = "none"]
NoTask == [at |-> "idle", run |-> 0, active |-> 0, session |-> 0,
           full |-> FALSE, to |-> "none"]
Rest == [at |-> "rest", run |-> 0, pending |-> {}, reusable |-> FALSE]

Init ==
    /\ agent \in [policy : Policies, repo : Repos]
    /\ wake = [w \in Wakes |-> NoWake] /\ run = [r \in Runs |-> NoRun]
    /\ approval = [r \in Runs |-> "none"]
    /\ item = [i \in Items |-> [status |-> "queued", run |-> 0]]
    /\ runtime = 0 /\ session = [s \in Sessions |-> "none"] /\ online = TRUE
    /\ task = [w \in Wakes |-> NoTask]
    /\ handler = [h \in Handlers |-> Rest]
    /\ faults = 0

-----------------------------------------------------------------------------
\* The tables.
First(S) == CHOOSE x \in S : \A y \in S : x <= y

FreeWakes == {w \in Wakes : wake[w].status = "none"}
IsActive(r) == run[r].status \in {"starting", "running"}
ActiveRuns == {r \in Runs : IsActive(r)}
OpenWakes == {w \in Wakes : wake[w].status \in {"queued", "running", "blocked"}}
Processing(w) == task[w].at # "idle"
ReadyIdle(s) == session[s] = "idle"
Ready(s) == session[s] \in {"idle", "done", "error"}

SetWake(w, status) == wake' = [wake EXCEPT ![w].status = status]
SetRun(r, status) == run' = [run EXCEPT ![r].status = status]
Goto(w, at) == task' = [task EXCEPT ![w].at = at]
Finish(w) == task' = [task EXCEPT ![w] = NoTask]
Handle(h, at) == handler' = [handler EXCEPT ![h].at = at]
Done(h) == handler' = [handler EXCEPT ![h] = Rest]

\* A wakeup requested by a user, a webhook or the schedule.
Enqueue(i) ==
    /\ FreeWakes # {} /\ First(FreeWakes) <= MaxRequests
    /\ wake' = [wake EXCEPT ![First(FreeWakes)] = NewWake(i, <<0, 0>>)]
    /\ UNCHANGED <<run, approval, item, runtime, outside, task, handler>>

-----------------------------------------------------------------------------
\* Claiming and the processing of a claimed wakeup.

\* claimNextAutomationWakeup leaves an agent that enqueues alone while it is full.
Full == Cardinality(ActiveRuns) >= MaxParallel
Claimable(w) ==
    wake[w].status = "queued" /\ ~(agent.policy = "always_enqueue" /\ Full)

\* The pool's fill: the tick is at no other of its phases.  A wakeup that
\* waits for its host may not be due yet.
Claim(w) ==
    /\ handler[Tick] = Rest
    /\ Cardinality({v \in Wakes : Processing(v)}) < Concurrency
    /\ Claimable(w)
    /\ \A v \in 1..(w - 1) : ~Claimable(v) \/ wake[v].waits > 0
    /\ SetWake(w, "running")
    /\ task' = [task EXCEPT ![w] = [NoTask EXCEPT !.at = "resolve", !.full = Full]]
    /\ UNCHANGED <<run, approval, item, runtime, outside, handler>>

\* resolveRuntimeContext: keeps a live session of a connected host, else
\* clears it; one that is busy counts as an active run.
Resolve(w) ==
    LET live == runtime # 0 /\ online /\ session[runtime] \in {"idle", "busy"} IN
    /\ task[w].at = "resolve"
    /\ runtime' = IF live THEN runtime ELSE 0
    /\ task' = [task EXCEPT
           ![w].at = "lookup",
           ![w].session = IF live /\ session[runtime] = "idle" THEN runtime ELSE 0,
           ![w].full = @ \/ (live /\ session[runtime] = "busy" /\ MaxParallel = 1)]
    /\ UNCHANGED <<wake, run, approval, item, outside, handler>>

\* getActiveAutomationRunForScope.
Lookup(w) ==
    /\ task[w].at = "lookup"
    /\ task' = [task EXCEPT ![w].at = "act",
                   ![w].active = IF ActiveRuns = {} THEN 0 ELSE First(ActiveRuns)]
    /\ UNCHANGED <<tables, outside, handler>>

\* appendPendingFollowupToRun: whatever the status of the run by now.
Coalesce(w) ==
    /\ task[w].at = "act" /\ task[w].active # 0
    /\ agent.policy = "coalesce_if_active"
    /\ run' = [run EXCEPT ![task[w].active].pending = @ \cup {w}]
    /\ Goto(w, "coalesced")
    /\ UNCHANGED <<wake, approval, item, runtime, outside, handler>>

MarkCoalesced(w) ==
    /\ task[w].at = "coalesced"
    /\ SetWake(w, "coalesced") /\ Finish(w)
    /\ UNCHANGED <<run, approval, item, runtime, outside, handler>>

\* skip_if_active, and always_enqueue or a coalescing agent at its capacity.
Defer(w) ==
    /\ task[w].at = "act"
    /\ \/ /\ task[w].active # 0 /\ agent.policy # "coalesce_if_active"
       \/ /\ task[w].active = 0 /\ task[w].full
    /\ SetWake(w, IF agent.policy = "skip_if_active" THEN "skipped" ELSE "queued")
    /\ Finish(w)
    /\ UNCHANGED <<run, approval, item, runtime, outside, handler>>

\* createAutomationRun.  A second active run of the agent in one repository
\* violates idx_automation_runs_active_repo: the task dies and its wakeup
\* stays running.
CreateRun(w) ==
    LET r == First({q \in Runs : run[q].status = "none"}) IN
    /\ task[w].at = "act" /\ task[w].active = 0 /\ ~task[w].full
    /\ IF agent.repo /\ ActiveRuns # {}
       THEN Finish(w) /\ UNCHANGED run
       ELSE /\ \E q \in Runs : run[q].status = "none"
            /\ run' = [run EXCEPT ![r] = NewRun(w)]
            /\ task' = [task EXCEPT ![w].run = r,
                           ![w].at = IF Items = {} THEN "preflight" ELSE "checkout"]
    /\ UNCHANGED <<wake, approval, item, runtime, outside, handler>>

\* checkoutWorkItem, adoptStaleWorkItemCheckout: a free item, or one that a
\* run left in progress when it ended.
CanCheckOut(i, r) ==
    \/ item[i].status \in {"queued", "blocked"} /\ item[i].run \in {0, r}
    \/ item[i].status = "in_progress" /\ item[i].run # 0 /\ ~IsActive(item[i].run)

\* The item named by the wakeup, or for a wakeup that names none any that
\* claimNextWorkItemForAgent finds queued or blocked.
Candidates(w) ==
    IF wake[w].item # None THEN {wake[w].item}
    ELSE {i \in Items : item[i].status \in {"queued", "blocked"}}

\* A worker without an item goes on only if its wakeup has an objective.
Checkout(w) ==
    LET r == task[w].run IN
    /\ task[w].at = "checkout"
    /\ \/ \E i \in Candidates(w) :
            /\ CanCheckOut(i, r)
            /\ item' = [item EXCEPT ![i] = [status |-> "in_progress", run |-> r]]
            /\ Goto(w, "preflight")
       \/ /\ \/ Candidates(w) = {}
             \/ \E i \in Candidates(w) : ~CanCheckOut(i, r)
          /\ UNCHANGED item
          /\ \/ Goto(w, "preflight")
             \/ task' = [task EXCEPT ![w].at = "cancel", ![w].to = "skipped"]
    /\ UNCHANGED <<wake, run, approval, runtime, outside, handler>>

LaunchFails(w) == task' = [task EXCEPT ![w].at = "cancel", ![w].to = "failed"]

\* evaluateAutomationPreflight passed: reuse the session, or spawn one (the
\* command to the host may fail).
Launch(w) ==
    LET s == First({q \in Sessions : session[q] = "none"}) IN
    /\ task[w].at = "preflight"
    /\ \/ /\ task[w].session # 0 /\ Goto(w, "attach") /\ UNCHANGED session
       \/ /\ task[w].session = 0 /\ online
          /\ \E q \in Sessions : session[q] = "none"
          /\ session' = [session EXCEPT ![s] = "busy"]
          /\ task' = [task EXCEPT ![w].at = "attach", ![w].session = s]
       \/ /\ task[w].session = 0 /\ online /\ UNCHANGED session
          /\ LaunchFails(w)
    /\ UNCHANGED <<tables, agent, online, faults, handler>>

\* requeueUntilHostOnline: cancels the run, then puts the wakeup back.
HostOffline(w) ==
    /\ task[w].at = "preflight" /\ task[w].session = 0 /\ ~online
    /\ wake[w].waits < MaxWaits
    /\ SetRun(task[w].run, "cancelled") /\ Goto(w, "requeue")
    /\ UNCHANGED <<wake, approval, item, runtime, outside, handler>>

RequeueOffline(w) ==
    /\ task[w].at = "requeue"
    /\ wake' = [wake EXCEPT ![w].status = "queued", ![w].waits = @ + 1]
    /\ Finish(w)
    /\ UNCHANGED <<run, approval, item, runtime, outside, handler>>

\* The budget, the working directory or the host refuses the run; all but a
\* host that needs no approval ask for one.
Refused(w) ==
    /\ task[w].at = "preflight"
    /\ \/ approval' = [approval EXCEPT ![task[w].run] = "pending"]
       \/ UNCHANGED approval
    /\ task' = [task EXCEPT ![w].at = "cancel", ![w].to = "blocked"]
    /\ UNCHANGED <<wake, run, item, runtime, outside, handler>>

\* attachAutomationRunSession; it throws if the session has been deleted.
Attach(w) ==
    LET r == task[w].run IN
    /\ task[w].at = "attach"
    /\ IF run[r].status # "starting" \/ run[r].session # 0
       THEN Finish(w) /\ UNCHANGED run
       ELSE IF session[task[w].session] = "gone"
       THEN LaunchFails(w) /\ UNCHANGED run
       ELSE /\ run' = [run EXCEPT ![r].status = "running",
                                  ![r].session = task[w].session]
            /\ Goto(w, "bootstrap")
    /\ UNCHANGED <<wake, approval, item, runtime, outside, handler>>

\* bootstrapSessionMemory, then upsertRuntimeState.
Bootstrap(w) ==
    /\ task[w].at = "bootstrap" /\ session[task[w].session] # "gone"
    /\ runtime' = task[w].session /\ Finish(w)
    /\ UNCHANGED <<wake, run, approval, item, outside, handler>>

BootstrapFails(w) ==
    /\ task[w].at = "bootstrap" /\ LaunchFails(w)
    /\ UNCHANGED <<tables, outside, handler>>

\* cancelRunForWake: the run, then the wakeup; both whatever their status.
CancelRun(w) ==
    /\ task[w].at = "cancel"
    /\ SetRun(task[w].run, IF task[w].to = "skipped" THEN "cancelled" ELSE task[w].to)
    /\ Goto(w, "cancelWake")
    /\ UNCHANGED <<wake, approval, item, runtime, outside, handler>>

\* A failed launch clears the runtime state as well.
CancelWake(w) ==
    /\ task[w].at = "cancelWake"
    /\ SetWake(w, task[w].to) /\ Finish(w)
    /\ runtime' = IF task[w].to = "failed" THEN 0 ELSE runtime
    /\ UNCHANGED <<run, approval, item, outside, handler>>

-----------------------------------------------------------------------------
\* The tick.

\* reconcileRuntimeStates.
Reconcile ==
    /\ handler[Tick] = Rest /\ runtime # 0
    /\ ~online \/ session[runtime] \in {"done", "error"}
    /\ runtime' = 0
    /\ UNCHANGED <<wake, run, approval, item, outside, task, handler>>

\* reapStaleAutomationState, the runs without a session that no task of this
\* process is working on: failStaleStartingAutomationRun, then
\* recoverRunningAutomationWakeup.
ReapRunBlind(r) ==
    /\ handler[Tick] = Rest
    /\ run[r].status = "starting" /\ run[r].session = 0
    /\ SetRun(r, "failed")
    /\ handler' = [handler EXCEPT ![Tick] = [Rest EXCEPT !.at = "recover", !.run = r]]
    /\ UNCHANGED <<wake, approval, item, runtime, outside, task>>
ReapRun(r) ==
    /\ handler[Tick] = Rest
    /\ run[r].status = "starting" /\ run[r].session = 0 /\ ~Processing(run[r].wake)
    /\ SetRun(r, "failed")
    /\ handler' = [handler EXCEPT ![Tick] = [Rest EXCEPT !.at = "recover", !.run = r]]
    /\ UNCHANGED <<wake, approval, item, runtime, outside, task>>

RecoverWake ==
    LET w == run[handler[Tick].run].wake IN
    /\ handler[Tick].at = "recover" /\ Done(Tick)
    /\ wake' = IF wake[w].status # "running" THEN wake
               ELSE IF wake[w].requeues < MaxRequeues
               THEN [wake EXCEPT ![w].status = "queued", ![w].requeues = @ + 1]
               ELSE [wake EXCEPT ![w].status = "failed"]
    /\ UNCHANGED <<run, approval, item, runtime, outside, task>>

\* The running wakeups without an active run.
NoActiveRunOf(w) == \A r \in ActiveRuns : run[r].wake # w
ReapWakeNever(w) == FALSE /\ UNCHANGED vars
ReapWake(w) ==
    /\ handler[Tick] = Rest
    /\ wake[w].status = "running" /\ NoActiveRunOf(w) /\ ~Processing(w)
    /\ wake' = IF wake[w].stalls < MaxStalls
               THEN [wake EXCEPT ![w].status = "queued", ![w].stalls = @ + 1]
               ELSE [wake EXCEPT ![w].status = "failed"]
    /\ UNCHANGED <<run, approval, item, runtime, outside, task, handler>>

\* syncActiveRuns: a session that is idle or over in two ticks (the grace of
\* 15 s) settles its run, one that works again starts afresh.  A run whose
\* session has been deleted has lost its session_id, and is passed over.
SyncRun(r) ==
    LET s == run[r].session IN
    /\ handler[Tick] = Rest /\ IsActive(r) /\ s # 0
    /\ \/ /\ session[s] = "busy" /\ run[r].observed
          /\ run' = [run EXCEPT ![r].observed = FALSE] /\ UNCHANGED handler
       \/ /\ Ready(s) /\ ~run[r].observed
          /\ run' = [run EXCEPT ![r].observed = TRUE] /\ UNCHANGED handler
       \/ /\ Ready(s) /\ run[r].observed /\ UNCHANGED run
          /\ handler' = [handler EXCEPT ![Tick] =
                            [Rest EXCEPT !.at = "finalize", !.run = r,
                                         !.reusable = session[s] = "idle"]]
    /\ UNCHANGED <<wake, approval, item, runtime, outside, task>>

\* finalizeAutomationRunFromSession: the run, if it is still active.
FinalStatus(s) ==
    IF session[s] = "error" THEN "failed"
    ELSE IF session[s] \in {"done", "idle"} THEN "succeeded" ELSE "cancelled"

FinalizeRunBlind(r) ==
    SetRun(r, FinalStatus(run[r].session)) /\ Handle(Tick, "item")
FinalizeRun(r) ==
    IF IsActive(r)
    THEN SetRun(r, FinalStatus(run[r].session)) /\ Handle(Tick, "item")
    ELSE /\ handler' = [handler EXCEPT ![Tick].at = "runtime",
                                       ![Tick].pending = run[r].pending]
         /\ UNCHANGED run

Finalize ==
    /\ handler[Tick].at = "finalize" /\ run[handler[Tick].run].session # 0
    /\ FinalizeRun(handler[Tick].run)
    /\ UNCHANGED <<wake, approval, item, runtime, outside, task>>

\* The session has been deleted since the tick read the run, or the ingestion
\* of the session into memory throws.
FinalizeFails ==
    /\ \/ /\ handler[Tick].at = "finalize"
          /\ run[handler[Tick].run].session = 0
          /\ SetRun(handler[Tick].run, "failed")
       \/ /\ handler[Tick].at = "item" /\ UNCHANGED run
    /\ Done(Tick)
    /\ UNCHANGED <<wake, approval, item, runtime, outside, task>>

\* completeWorkItem for the item the wakeup names, whoever holds it by now.
FinalizeItem ==
    LET r == handler[Tick].run
        i == wake[run[r].wake].item
        status == IF run[r].status = "succeeded" THEN "done" ELSE "blocked"
    IN
    /\ handler[Tick].at = "item"
    /\ item' = IF i = None THEN item
               ELSE [item EXCEPT ![i] = [status |-> status, run |-> 0]]
    /\ handler' = [handler EXCEPT ![Tick].at = "wake", ![Tick].pending = run[r].pending]
    /\ UNCHANGED <<wake, run, approval, runtime, outside, task>>

\* markAutomationWakeupStatus.
FinalizeWake ==
    LET r == handler[Tick].run IN
    /\ handler[Tick].at = "wake" /\ Handle(Tick, "runtime")
    /\ SetWake(run[r].wake, IF run[r].status = "failed" THEN "failed" ELSE "completed")
    /\ UNCHANGED <<run, approval, item, runtime, outside, task>>

\* replaceRuntimeState; it throws if the session has been deleted.
FinalizeRuntime ==
    LET s == run[handler[Tick].run].session IN
    /\ handler[Tick].at = "runtime"
    /\ IF s = 0
       THEN Done(Tick) /\ UNCHANGED runtime
       ELSE /\ runtime' = IF handler[Tick].reusable THEN s ELSE 0
            /\ Handle(Tick, "follow")
    /\ UNCHANGED <<wake, run, approval, item, outside, task>>

-----------------------------------------------------------------------------
\* queueFollowupWake, of the tick and of the report handlers: one wakeup for
\* the follow-ups read before, unless one with the same key is open; then the
\* run's list is emptied.  With no row left the insert fails (bound).
QueueFollowup(h) ==
    LET r == handler[h].run
        pending == handler[h].pending
        key == <<r, Cardinality(pending)>>
        open == \E w \in OpenWakes : wake[w].key = key
    IN
    /\ handler[h].at = "follow"
    /\ IF pending = {} \/ (~open /\ FreeWakes = {})
       THEN Done(h) /\ UNCHANGED wake
       ELSE /\ Handle(h, "clear")
            /\ wake' = IF open THEN wake
                       ELSE [wake EXCEPT ![First(FreeWakes)] = NewWake(None, key)]
    /\ UNCHANGED <<run, approval, item, runtime, outside, task>>

ClearFollowups(h) ==
    /\ handler[h].at = "clear" /\ Done(h)
    /\ run' = [run EXCEPT ![handler[h].run].pending = {}]
    /\ UNCHANGED <<wake, approval, item, runtime, outside, task>>

-----------------------------------------------------------------------------
\* A structured report: finalizeAutomationRunFromReport's transaction.

ReportedItem(r) ==
    LET w == run[r].wake
        held == {i \in Items : item[i].run = r}
    IN IF wake[w].item # None THEN wake[w].item
       ELSE IF held # {} THEN CHOOSE i \in held : TRUE ELSE None

WakeAfterKept(outcome) == "running"
WakeAfter(outcome) ==
    CASE outcome = "succeeded" -> "completed" [] outcome = "failed" -> "failed"
      [] outcome = "blocked" -> "blocked"

\* An active run, or the redelivery of the report that settled it.  The
\* transaction rolls back if the item is no longer the run's.
Report(r, outcome) ==
    LET i == ReportedItem(r)
        status == IF outcome = "succeeded" THEN "done" ELSE "blocked"
    IN
    /\ handler[r] = Rest /\ run[r].session # 0
    /\ IsActive(r) \/ (run[r].report = outcome /\ run[r].status = outcome)
    /\ i # None => item[i].run = r \/ (item[i].run = 0 /\ item[i].status = status)
    /\ run' = [run EXCEPT ![r].status = outcome, ![r].report = outcome]
    /\ item' = IF i = None THEN item
               ELSE [item EXCEPT ![i] = [status |-> status, run |-> 0]]
    /\ wake' = [wake EXCEPT ![run[r].wake].status = WakeAfter(outcome),
                            ![run[r].wake].item = i]
    /\ handler' = [handler EXCEPT ![r] = [Rest EXCEPT !.at = "reported", !.run = r]]
    /\ UNCHANGED <<approval, runtime, outside, task>>

\* finalizeStructuredReport: the run's artifacts, which read the follow-ups,
\* and the runtime state.
FinishReport(r) ==
    LET s == run[r].session IN
    /\ handler[r].at = "reported"
    /\ handler' = [handler EXCEPT ![r].at = "follow", ![r].pending = run[r].pending]
    /\ runtime' = IF s = 0 THEN runtime ELSE IF session[s] \in {"done", "error"} THEN 0 ELSE s
    /\ UNCHANGED <<wake, run, approval, item, outside, task>>

-----------------------------------------------------------------------------
\* decideGovernanceApprovalWithOutcome, one transaction.
Approve(r) ==
    LET w == run[r].wake
        held == {i \in Items : item[i].run = r}
        i == IF wake[w].item # None \/ held = {} THEN wake[w].item
             ELSE CHOOSE j \in held : TRUE
    IN
    /\ approval[r] = "pending" /\ FreeWakes # {}
    /\ approval' = [approval EXCEPT ![r] = "approved"]
    /\ wake' = [wake EXCEPT ![First(FreeWakes)] = NewWake(i, <<0, 0>>)]
    /\ UNCHANGED <<run, item, runtime, outside, task, handler>>

\* A denial gives back an item that is free or its own.
Releasable(i, r) == item[i].run \in {0, r}

Deny(r) ==
    LET w == run[r].wake
        i == ReportedItem(r)
    IN
    /\ approval[r] = "pending"
    /\ approval' = [approval EXCEPT ![r] = "denied"]
    /\ run' = IF run[r].status = "blocked"
              THEN [run EXCEPT ![r].status = "cancelled"] ELSE run
    /\ wake' = IF wake[w].status = "blocked"
               THEN [wake EXCEPT ![w].status = "failed"] ELSE wake
    /\ item' = IF i # None /\ Releasable(i, r)
               THEN [item EXCEPT ![i] = [status |-> "blocked", run |-> 0]] ELSE item
    /\ UNCHANGED <<runtime, outside, task, handler>>

Fault == faults < MaxFaults /\ faults' = faults + 1

\* PATCH /v1/work-items/:id: closing an item clears its checkout, putting it
\* back in the queue does not.
OperatorSets(i) ==
    /\ \/ \E status \in {"done", "blocked"} :
            item' = [item EXCEPT ![i] = [status |-> status, run |-> 0]]
       \/ item' = [item EXCEPT ![i].status = "queued"]
    /\ Fault
    /\ UNCHANGED <<wake, run, approval, runtime, agent, session, online, task, handler>>

-----------------------------------------------------------------------------
\* The sessions, the host and restarts of the control plane.
SessionMoves(s) ==
    /\ \/ /\ session[s] = "idle" /\ Fault
          /\ session' = [session EXCEPT ![s] = "busy"]
       \/ /\ session[s] = "busy" /\ UNCHANGED faults
          /\ session' = [session EXCEPT ![s] = "idle"]
       \/ /\ session[s] \in {"busy", "idle"} /\ UNCHANGED faults
          /\ \E to \in Ends : session' = [session EXCEPT ![s] = to]
    /\ UNCHANGED <<tables, agent, online, task, handler>>

\* deleteSession, bulkDeleteSessions: ON DELETE SET NULL.
DeleteSession(s) ==
    /\ session[s] \notin {"none", "gone"} /\ Fault
    /\ session' = [session EXCEPT ![s] = "gone"]
    /\ run' = [r \in Runs |->
                  IF run[r].session = s THEN [run[r] EXCEPT !.session = 0] ELSE run[r]]
    /\ runtime' = IF runtime = s THEN 0 ELSE runtime
    /\ UNCHANGED <<wake, approval, item, agent, online, task, handler>>

HostMoves ==
    /\ online' = ~online
    /\ IF online THEN Fault ELSE UNCHANGED faults
    /\ UNCHANGED <<tables, agent, session, task, handler>>

Restart ==
    /\ Fault
    /\ task' = [w \in Wakes |-> NoTask]
    /\ handler' = [h \in Handlers |-> Rest]
    /\ UNCHANGED <<tables, agent, session, online>>

TaskStep(w) ==
    \/ Resolve(w) \/ Lookup(w) \/ Coalesce(w) \/ MarkCoalesced(w) \/ Defer(w)
    \/ CreateRun(w) \/ Checkout(w) \/ Launch(w) \/ HostOffline(w)
    \/ RequeueOffline(w) \/ Refused(w) \/ Attach(w) \/ Bootstrap(w)
    \/ BootstrapFails(w) \/ CancelRun(w) \/ CancelWake(w)
TickStep ==
    RecoverWake \/ Finalize \/ FinalizeFails \/ FinalizeItem \/ FinalizeWake
    \/ FinalizeRuntime
HandlerStep(h) == QueueFollowup(h) \/ ClearFollowups(h)

Next ==
    \/ \E i \in Items \cup {None} : Enqueue(i)
    \/ \E w \in Wakes : Claim(w) \/ TaskStep(w) \/ ReapWake(w)
    \/ Reconcile \/ TickStep
    \/ \E r \in Runs :
         \/ ReapRun(r) \/ SyncRun(r) \/ FinishReport(r) \/ Approve(r) \/ Deny(r)
         \/ \E outcome \in Outcomes : Report(r, outcome)
    \/ \E h \in Handlers : HandlerStep(h)
    \/ \E i \in Items : OperatorSets(i)
    \/ \E s \in Sessions : SessionMoves(s) \/ DeleteSession(s)
    \/ HostMoves \/ Restart

Spec == Init /\ [][Next]_vars

\* A task or handler that has started goes on; every tick runs every phase, whatever
\* the others of its phases find to do.
FairSpec ==
    /\ Spec
    /\ WF_vars(TickStep) /\ WF_vars(HandlerStep(Tick))
    /\ \A w \in Wakes : WF_vars(TaskStep(w)) /\ SF_vars(ReapWake(w))
    /\ \A r \in Runs : SF_vars(ReapRun(r)) /\ SF_vars(SyncRun(r))

-----------------------------------------------------------------------------
Keys == Nat \X Nat
WakeRows ==
    [status : {"none", "queued", "running", "completed", "skipped", "blocked", "coalesced",
               "failed"},
     item : Items \cup {None}, key : Keys, waits : 0..MaxWaits,
     stalls : 0..MaxStalls, requeues : 0..MaxRequeues]
RunRows ==
    [status : {"none", "starting", "running", "succeeded", "failed", "blocked", "cancelled"},
     wake : 0..MaxWakes, session : 0..MaxSessions, pending : SUBSET Wakes,
     observed : BOOLEAN, report : {"none"} \cup Outcomes]
ItemRows == [status : {"queued", "in_progress", "done", "blocked"}, run : 0..MaxRuns]
TaskStates ==
    [at : {"idle", "resolve", "lookup", "act", "coalesced", "checkout", "preflight", "requeue",
           "attach", "bootstrap", "cancel", "cancelWake"},
     run : 0..MaxRuns, active : 0..MaxRuns, session : 0..MaxSessions, full : BOOLEAN,
     to : {"none", "skipped", "failed", "blocked"}]
HandlerStates ==
    [at : {"rest", "recover", "finalize", "item", "wake", "runtime", "reported", "follow",
           "clear"},
     run : 0..MaxRuns, pending : SUBSET Wakes, reusable : BOOLEAN]

\* The tables, the tasks and the handlers hold what they may hold.
TypeOK ==
    /\ wake \in [Wakes -> WakeRows] /\ run \in [Runs -> RunRows]
    /\ approval \in [Runs -> {"none", "pending", "approved", "denied"}]
    /\ item \in [Items -> ItemRows] /\ runtime \in 0..MaxSessions
    /\ agent \in [policy : Policies, repo : Repos]
    /\ session \in [Sessions -> {"none", "idle", "busy", "gone"} \cup Ends]
    /\ online \in BOOLEAN /\ faults \in 0..MaxFaults
    /\ task \in [Wakes -> TaskStates] /\ handler \in [Handlers -> HandlerStates]

\* While a task works towards attaching a session, nobody takes its wakeup or
\* its run away: the wakeup stays claimed and the run stays startable, so that
\* no wakeup is launched twice at a time (isProcessing in the reapers, the
\* conditional updates of reports and decisions).
ClaimKept ==
    \A w \in Wakes :
        /\ task[w].at \notin {"idle", "bootstrap", "cancel", "cancelWake"} =>
               wake[w].status = "running"
        /\ task[w].at \in {"checkout", "preflight", "attach"} =>
               LET r == task[w].run IN
               run[r].status = "starting" /\ run[r].wake = w /\ run[r].session = 0

\* A wakeup whose run has reported is never run again: neither the reapers nor
\* a redelivered report nor a task put it back (the report's transaction).
ReportedIsOver ==
    \A r \in Runs : run[r].report # "none" =>
        wake[run[r].wake].status \in {"completed", "failed", "blocked"}

\* Reports are authoritative: once a run has reported, only the failure of its
\* own launch still changes its status, or the deletion of its session while it
\* is settled; the tick's guess never does (finalizeAutomationRunFromSession).
ReportWins ==
    [][\A r \in Runs :
          run[r].report # "none" /\ run'[r].status # run[r].status =>
              \/ task[run[r].wake].at = "cancel" /\ task[run[r].wake].run = r
              \/ run[r].session = 0]_vars

\* The item an active run has checked out is never handed to another run
\* (checkoutWorkItem, adoptStaleWorkItemCheckout) nor released by a decision
\* about another run (decideGovernanceApprovalWithOutcome).
HeldUntilSettled ==
    [][\A i \in Items :
          item[i].run # 0 /\ IsActive(item[i].run) /\ item'[i].run # item[i].run =>
              /\ item'[i].run = 0
              /\ \A r \in Runs \ {item[i].run} : approval'[r] = approval[r]]_vars

\* A claimed wakeup that a restart or a dying task has left behind, and its
\* run, are picked up again or failed (reapStaleAutomationState).
Orphan(w) ==
    /\ wake[w].status = "running" /\ ~Processing(w)
    /\ \A r \in ActiveRuns : run[r].wake = w => run[r].status = "starting"
OrphanRecovered == \A w \in Wakes : Orphan(w) ~> ~Orphan(w)

\* A run whose session is over is settled, if not by its report then by the
\* tick (syncActiveRuns), unless the session is deleted under it.
OverIsSettled ==
    \A r \in Runs :
        IsActive(r) /\ run[r].session # 0 /\ session[run[r].session] \in {"done", "error"}
            ~> ~IsActive(r) \/ run[r].session = 0
=============================================================================
