----------------------------- MODULE Approvals -----------------------------
(***************************************************************************)
(* Permission requests of one Claude session: the hook that waits in       *)
(* agentd (providers/claude.go, main.go), the row that the control plane   *)
(* creates for it (ws/agent.ts, db/index.ts), the operators who decide it  *)
(* (routes/approvals.ts, db/commandOutbox.ts) and the sweep that times it  *)
(* out (services/dataMaintenance.ts).                                      *)
(*                                                                         *)
(* Requests travel on the durable link, at least once and in order         *)
(* (AgentLink); decisions travel at most once (CommandDelivery).  The copy *)
(* of the session's metadata that the control plane keeps for display is   *)
(* left out.                                                               *)
(*                                                                         *)
(* A definition placed just before another with the same parameters and no *)
(* use of its own is that definition with a plausible slip.                *)
(***************************************************************************)
EXTENDS Naturals, Sequences

CONSTANTS
    Requests,      \* permission requests, each with its approval id
    Operators,     \* requests to decide, each one call of the route
    MaxFaults,     \* bound: restarts and lost connections
    None           \* no request

ASSUME ApprovalsAssumption == None \notin Requests /\ MaxFaults \in Nat

VARIABLES
    hook,      \* the waiting HTTP request of each permission request
    handler,   \* the goroutine that handleHook starts for it
    meta,      \* session.Metadata["approval"] in agentd
    recent,    \* a decision is at most five seconds old
    log,       \* approval.requested events that agentd has not forgotten
    done,      \* how many of them the current socket has processed
    serving,   \* handleEventsAppend of the current socket and of a closed one
    row,       \* approvals; "overdue" if pending for APPROVAL_TIMEOUT_MS
    operator,  \* the decide route of each operator
    commands,  \* approvals.decision commands on their way
    faults

agentd == <<hook, handler, meta, recent>>
plane == <<row, operator>>
link == <<log, done, serving>>
vars == <<agentd, plane, link, commands, faults>>

Decisions == {"allow", "deny"}
Sockets == {"current", "closed"}
Idle == [at |-> "idle", request |-> None]
NoOperator == [at |-> "idle", request |-> None, decision |-> "allow"]
Answered == [NoOperator EXCEPT !.at = "done"]

Init ==
    /\ hook = [a \in Requests |-> "none"] /\ handler = [a \in Requests |-> "none"]
    /\ meta = None /\ recent = FALSE
    /\ log = <<>> /\ done = 0 /\ serving = [s \in Sockets |-> Idle]
    /\ row = [a \in Requests |-> "none"]
    /\ operator = [o \in Operators |-> NoOperator]
    /\ commands = {} /\ faults = 0

-----------------------------------------------------------------------------
\* agentd: a hook waits while its goroutine asks the control plane.

\* handleHook for a PermissionRequest.
Hook(a) ==
    /\ hook[a] = "none"
    /\ hook' = [hook EXCEPT ![a] = "waiting"]
    /\ handler' = [handler EXCEPT ![a] = "check"]
    /\ UNCHANGED <<meta, recent, plane, link, commands, faults>>

\* sessionHasPendingApproval: a second request of the session is not sent,
\* unless a decision was made just now.
Suppressed == ~recent /\ meta # None

Check(a) ==
    /\ handler[a] = "check"
    /\ handler' = [handler EXCEPT ![a] = IF Suppressed THEN "done" ELSE "update"]
    /\ UNCHANGED <<hook, meta, recent, plane, link, commands, faults>>

\* updateSessionFromHook.
UpdateSession(a) ==
    /\ handler[a] = "update"
    /\ handler' = [handler EXCEPT ![a] = "send"]
    /\ meta' = a
    /\ UNCHANGED <<hook, recent, plane, link, commands, faults>>

SendRequest(a) ==
    /\ handler[a] = "send"
    /\ handler' = [handler EXCEPT ![a] = "done"]
    /\ log' = Append(log, a)
    /\ UNCHANGED <<hook, meta, recent, plane, done, serving, commands, faults>>

\* Any other hook of the session while it runs.
OtherHook ==
    /\ meta # None /\ meta' = None
    /\ UNCHANGED <<hook, handler, recent, plane, link, commands, faults>>

\* After ten minutes Claude shows its own dialog.
HookTimesOut(a) ==
    /\ hook[a] = "waiting" /\ hook' = [hook EXCEPT ![a] = "dialog"]
    /\ UNCHANGED <<handler, meta, recent, plane, link, commands, faults>>

\* DeliverDecision: to the hook with this id, if it still waits.
DeliveredToAny(c) ==
    [a \in Requests |-> IF hook[a] = "waiting" THEN c.decision ELSE hook[a]]
Delivered(c) ==
    [hook EXCEPT ![c.request] = IF @ = "waiting" THEN c.decision ELSE @]

\* handleApprovalDecision, clearApprovalMetadata.
Receive(c) ==
    /\ c \in commands /\ commands' = commands \ {c}
    /\ hook' = Delivered(c)
    /\ meta' = None /\ recent' = TRUE
    /\ UNCHANGED <<handler, plane, link, faults>>

DecisionAges ==
    /\ recent /\ recent' = FALSE
    /\ UNCHANGED <<hook, handler, meta, plane, link, commands, faults>>

-----------------------------------------------------------------------------
\* The control plane: the row of a request.
Undecided(a) == row[a] \in {"pending", "overdue"}

\* handleEventsAppend of the next event of the current socket.  The events
\* carry no event_id: a redelivered one is handled again.
Take ==
    /\ serving["current"] = Idle /\ done < Len(log)
    /\ serving' = [serving EXCEPT
                     !["current"] = [at |-> "supersede", request |-> log[done + 1]]]
    /\ UNCHANGED <<agentd, plane, log, done, commands, faults>>

\* Each socket counts its own progress.
Counts(s) == s = "current"

\* createApproval: markPendingApprovalsTimedOutForSession for the others, then
\* the insert, which leaves an existing row alone.
OthersKept(a) == row
OthersTimedOut(a) ==
    [b \in Requests |-> IF b # a /\ Undecided(b) THEN "timedout" ELSE row[b]]

Supersede(s) ==
    /\ serving[s].at = "supersede"
    /\ row' = OthersTimedOut(serving[s].request)
    /\ serving' = [serving EXCEPT ![s].at = "insert"]
    /\ UNCHANGED <<agentd, operator, log, done, commands, faults>>

Insert(s) ==
    /\ serving[s].at = "insert"
    /\ row' = [row EXCEPT ![serving[s].request] = IF @ = "none" THEN "pending" ELSE @]
    /\ serving' = [serving EXCEPT ![s] = Idle]
    /\ done' = IF Counts(s) THEN done + 1 ELSE done
    /\ UNCHANGED <<agentd, operator, log, commands, faults>>

\* agentd forgets what has been acknowledged.
Forget ==
    /\ done > 0 /\ log' = Tail(log) /\ done' = done - 1
    /\ UNCHANGED <<agentd, plane, serving, commands, faults>>

Expire(a) ==
    /\ row[a] = "pending" /\ row' = [row EXCEPT ![a] = "overdue"]
    /\ UNCHANGED <<agentd, operator, link, commands, faults>>

\* markExpiredApprovalsTimedOut.
OverdueShown == {a \in Requests : row[a] = "overdue" /\ meta = a}
Overdue == {a \in Requests : row[a] = "overdue"}

Sweep ==
    /\ Overdue # {}
    /\ row' = [a \in Requests |-> IF a \in Overdue THEN "timedout" ELSE row[a]]
    /\ UNCHANGED <<agentd, operator, link, commands, faults>>

-----------------------------------------------------------------------------
\* The control plane: the decide route.

\* What the route reads before it decides.
CheckApproval(o, a, decision) ==
    /\ operator[o].at = "idle"
    /\ row[a] = "pending"
    /\ operator' = [operator EXCEPT
                      ![o] = [at |-> "decide", request |-> a, decision |-> decision]]
    /\ UNCHANGED <<agentd, row, link, commands, faults>>

\* decideApprovalAndEnqueue, one transaction.
DecidableAny(a) == TRUE
Decidable(a) == Undecided(a)

DecideAndEnqueue(o) ==
    LET c == [request |-> operator[o].request, decision |-> operator[o].decision] IN
    /\ operator[o].at = "decide"
    /\ operator' = [operator EXCEPT ![o] = Answered]
    /\ IF Decidable(c.request)
       THEN /\ row' = [row EXCEPT ![c.request] = c.decision]
            /\ commands' = commands \cup {c}
       ELSE UNCHANGED <<row, commands>>
    /\ UNCHANGED <<agentd, link, faults>>

\* A command that expires, or is written to a dead socket.
Lose(c) ==
    /\ c \in commands /\ commands' = commands \ {c}
    /\ UNCHANGED <<agentd, plane, link, faults>>

-----------------------------------------------------------------------------
Fault == faults < MaxFaults /\ faults' = faults + 1

\* The next socket continues after what the persisted cursor says.
ResumesAfterTaken(k) == k = IF serving["current"] = Idle THEN done ELSE done + 1
Resumes(k) == k \in 0..done

\* What the closed socket's handler was doing goes on.
Drop ==
    /\ Fault
    /\ \E k \in 0..Len(log) : Resumes(k) /\ done' = k
    /\ serving["closed"] = Idle
    /\ serving' = [s \in Sockets |-> IF s = "closed" THEN serving["current"] ELSE Idle]
    /\ UNCHANGED <<agentd, plane, log, commands>>

ServerRestart ==
    /\ Fault
    /\ \E k \in 0..Len(log) : Resumes(k) /\ done' = k
    /\ serving' = [s \in Sockets |-> Idle]
    /\ operator' = [o \in Operators |->
                      IF operator[o].at = "decide" THEN Answered ELSE operator[o]]
    /\ UNCHANGED <<agentd, row, log, commands>>

\* The queue file survives; the hooks' connections end.
AgentRestart ==
    /\ Fault
    /\ hook' = [a \in Requests |-> IF hook[a] = "waiting" THEN "dialog" ELSE hook[a]]
    /\ handler' = [a \in Requests |-> IF handler[a] = "none" THEN "none" ELSE "done"]
    /\ meta' = None /\ recent' = FALSE
    /\ UNCHANGED <<plane, link, commands>>

HandlerStep(a) == Check(a) \/ UpdateSession(a) \/ SendRequest(a)
Serve(s) == Supersede(s) \/ Insert(s)

Next ==
    \/ \E a \in Requests : Hook(a) \/ HandlerStep(a) \/ HookTimesOut(a) \/ Expire(a)
    \/ OtherHook \/ DecisionAges
    \/ Take \/ Forget \/ \E s \in Sockets : Serve(s)
    \/ Sweep
    \/ \E o \in Operators :
         \/ \E a \in Requests, decision \in Decisions : CheckApproval(o, a, decision)
         \/ DecideAndEnqueue(o)
    \/ \E c \in commands : Receive(c) \/ Lose(c)
    \/ Drop \/ ServerRestart \/ AgentRestart

Spec == Init /\ [][Next]_vars

\* The connection comes back (AgentLink) and its queue is worked off; the
\* clock passes every deadline, and the sweep's timer keeps firing.
FairSpec ==
    /\ Spec
    /\ WF_vars(Take) /\ \A s \in Sockets : WF_vars(Serve(s))
    /\ WF_vars(Sweep) /\ \A a \in Requests : WF_vars(Expire(a))

-----------------------------------------------------------------------------
\* The variables hold what they may hold.
TypeOK ==
    /\ hook \in [Requests -> {"none", "waiting", "allow", "deny", "dialog"}]
    /\ handler \in [Requests -> {"none", "check", "update", "send", "done"}]
    /\ meta \in Requests \cup {None} /\ recent \in BOOLEAN
    /\ log \in Seq(Requests) /\ done \in 0..Len(log)
    /\ serving \in [Sockets -> [at : {"idle", "supersede", "insert"},
                                request : Requests \cup {None}]]
    /\ row \in [Requests -> {"none", "pending", "overdue", "allow", "deny", "timedout"}]
    /\ operator \in [Operators -> [at : {"idle", "decide", "done"},
                                   request : Requests \cup {None},
                                   decision : Decisions]]
    /\ commands \in SUBSET [request : Requests, decision : Decisions]
    /\ faults \in Nat

\* A session has at most one approval to decide, however often requests are
\* redelivered and handlers of two sockets overlap (createApproval).
AtMostOnePending ==
    \A a, b \in Requests : Undecided(a) /\ Undecided(b) => a = b

\* What Verdict sees of a row.
VerdictOf(a) == IF row[a] = "none" \/ Undecided(a) THEN "open" ELSE row[a]

V == INSTANCE Verdict WITH
         verdict <- [a \in Requests |-> VerdictOf(a)],
         answer <- hook
\* Every request gets one verdict, once, and its hook no other answer: two
\* operators, the sweep, a superseding request, a lost or late decision and
\* restarts of either side notwithstanding.
ImplementsVerdict == V!Spec

\* A request that agentd has queued is offered to the operators, even if the
\* control plane stops between its event and its row (handleEventsAppend).
RequestedIsOffered ==
    \A a \in Requests :
        (\E i \in 1..Len(log) : log[i] = a) ~> row[a] # "none"

\* No approval stays pending for ever (runApprovalTimeoutSweep).
EventuallySettled == \A a \in Requests : Undecided(a) ~> ~Undecided(a)
=============================================================================
