-------------------------- MODULE CommandDelivery --------------------------
(***************************************************************************)
(* Control plane -> agent commands: the command outbox table               *)
(* (db/commandOutbox.ts), the router that dispatches through it            *)
(* (services/commandRouter.ts) and the registry of agent sockets           *)
(* (services/pubsub.ts, ws/agent.ts), for one host.                        *)
(*                                                                         *)
(* Every command is a row.  A dispatch inserts it, claims it (queued ->    *)
(* sent) and writes it to the registered socket; the first inventory on a  *)
(* new socket drains the durable rows that are still queued.  Each query   *)
(* is a step of its own, so dispatches, drains, results, expiry, sockets   *)
(* coming and going and restarts interleave between any two of them.       *)
(*                                                                         *)
(* A definition placed just before another with the same parameters and no *)
(* use of its own is that definition with a plausible slip.                *)
(***************************************************************************)
EXTENDS Integers, Sequences, FiniteSets

CONSTANTS
    Cmds,         \* commands to dispatch
    Durable,      \* those of class durable; the others have a waiting caller
    OneWay,       \* those complete once sent (approvals.decision)
    MaxSockets,   \* agent connections
    MaxHellos,    \* hellos on one socket
    MaxRestarts,  \* control-plane or agentd restarts
    None          \* no command

ASSUME DeliveryAssumption ==
    /\ OneWay \subseteq Durable /\ Durable \subseteq Cmds /\ None \notin Cmds
    /\ MaxSockets \in Nat /\ MaxHellos \in Nat /\ MaxRestarts \in Nat

Sockets == 1..MaxSockets
NoSocket == 0

VARIABLES
    \* the commands table
    status,      \* commands.status; "absent" before, "pruned" after
    due,         \* rows whose expires_at has passed
    order,       \* rows by created_at
    \* the router
    dispatch,    \* where the dispatch of each command is
    drain,       \* where the deliverPending of each socket is; "done" stands for
                 \* AgentState.outboxDelivered
    held,        \* the row that deliverPending has claimed
    waiter,      \* the caller of dispatchAndWait
    \* the sockets
    registered,  \* pubsub.agentConnections: the host's socket
    ready,       \* its readyForCommands
    socket,      \* of each socket: "none", "preauth", "authed" or "helloed"
    open,        \* sockets whose connection is up
    closing,     \* closed sockets whose close event has not fired yet
    nHellos,     \* hellos handled on each socket
    \* agentd
    inbox,       \* commands written to a socket and not yet received
    running,     \* commands accepted by the executor
    results,     \* results in the outbound queue (module AgentLink)
    \* history and bounds
    sent,        \* the commands in the order they were written to a socket
    nRestarts

tableVars == <<status, due, order>>
routerVars == <<dispatch, drain, held, waiter>>
socketVars == <<registered, ready, socket, open, closing, nHellos>>
agentVars == <<inbox, running, results>>
vars == <<tableVars, routerVars, socketVars, agentVars, sent, nRestarts>>

Init ==
    /\ status = [c \in Cmds |-> "absent"] /\ due = {} /\ order = <<>>
    /\ dispatch = [c \in Cmds |-> "none"] /\ waiter = [c \in Cmds |-> "none"]
    /\ drain = [s \in Sockets |-> "idle"] /\ held = [s \in Sockets |-> None]
    /\ registered = NoSocket /\ ready = FALSE
    /\ socket = [s \in Sockets |-> "none"] /\ open = {} /\ closing = {}
    /\ nHellos = [s \in Sockets |-> 0]
    /\ inbox = {} /\ running = {} /\ results = {}
    /\ sent = <<>> /\ nRestarts = 0

-----------------------------------------------------------------------------
\* The outbox's conditional updates (db/commandOutbox.ts).
Live == {"queued", "sent"}
Terminal == {"completed", "failed", "expired"}

SetStatus(c, from, to) ==
    status' = IF status[c] \in from THEN [status EXCEPT ![c] = to] ELSE status

MarkQueuedAlways(c) == SetStatus(c, Live \cup Terminal, "queued")
MarkQueued(c) == SetStatus(c, {"sent"}, "queued")
MarkCompleted(c) == SetStatus(c, Live, "completed")
MarkFailed(c) == SetStatus(c, Live, "failed")

ExpireStale ==
    status' = [c \in Cmds |-> IF c \in due /\ status[c] \in Live THEN "expired" ELSE status[c]]

\* listDeliverable: the oldest queued durable row that has not expired.
DeliverableAnyClass(c) == status[c] = "queued" /\ c \notin due
Deliverable(c) == c \in Durable /\ status[c] = "queued" /\ c \notin due
IsFirst(c) ==
    \E i \in DOMAIN order :
        order[i] = c /\ \A j \in 1..(i - 1) : ~Deliverable(order[j])

\* pubsub.isAgentReady.
Ready == registered # NoSocket /\ ready

\* pubsub.sendToAgent: writing to a socket whose connection is gone succeeds
\* and the command is lost.
Send(c) ==
    /\ sent' = Append(sent, c)
    /\ inbox' = inbox \cup {i \in {[cmd |-> c, on |-> registered]} : registered \in open}

-----------------------------------------------------------------------------
\* A dispatch (dispatchMessageDetailed), query by query.

At(c, step) == dispatch' = [dispatch EXCEPT ![c] = step]

\* Not sent: a durable row stays for a drain, a volatile one is failed.
Unsent(c) == At(c, IF c \in Durable THEN "done" ELSE "refuse")

Enqueue(c) ==
    /\ dispatch[c] = "none" /\ status[c] = "absent"
    /\ status' = [status EXCEPT ![c] = "queued"]
    /\ order' = Append(order, c)
    /\ waiter' = IF c \in Durable THEN waiter ELSE [waiter EXCEPT ![c] = "waiting"]
    /\ At(c, "enqueued")
    /\ UNCHANGED <<due, drain, held, socketVars, agentVars, sent, nRestarts>>

CheckReady(c) ==
    /\ dispatch[c] = "enqueued"
    /\ IF Ready THEN At(c, "claiming") ELSE Unsent(c)
    /\ UNCHANGED <<tableVars, drain, held, waiter, socketVars, agentVars, sent,
                   nRestarts>>

\* markSent.
ClaimUnsettled(c) ==
    IF status[c] \in Live
    THEN status' = [status EXCEPT ![c] = "sent"] /\ At(c, "claimed")
    ELSE Unsent(c) /\ UNCHANGED status
Claim(c) ==
    IF status[c] = "queued"
    THEN status' = [status EXCEPT ![c] = "sent"] /\ At(c, "claimed")
    ELSE Unsent(c) /\ UNCHANGED status

ClaimOwn(c) ==
    /\ dispatch[c] = "claiming"
    /\ Claim(c)
    /\ UNCHANGED <<due, order, drain, held, waiter, socketVars, agentVars, sent,
                   nRestarts>>

SendOwn(c) ==
    /\ dispatch[c] = "claimed"
    /\ IF Ready
       THEN Send(c) /\ At(c, IF c \in OneWay THEN "complete" ELSE "done")
       ELSE At(c, "requeue") /\ UNCHANGED <<inbox, sent>>
    /\ UNCHANGED <<tableVars, drain, held, waiter, socketVars, running, results, nRestarts>>

RequeueOwn(c) ==
    /\ dispatch[c] = "requeue"
    /\ MarkQueued(c)
    /\ Unsent(c)
    /\ UNCHANGED <<due, order, drain, held, waiter, socketVars, agentVars, sent,
                   nRestarts>>

CompleteOwn(c) ==
    /\ dispatch[c] = "complete"
    /\ MarkCompleted(c)
    /\ At(c, "done")
    /\ UNCHANGED <<due, order, drain, held, waiter, socketVars, agentVars, sent,
                   nRestarts>>

\* markFailed for a volatile command, and rejectPending of its caller.
Settle(c, outcome) ==
    waiter' = IF waiter[c] = "waiting" THEN [waiter EXCEPT ![c] = outcome] ELSE waiter

Refuse(c) ==
    /\ dispatch[c] = "refuse"
    /\ MarkFailed(c)
    /\ Settle(c, "refused")
    /\ At(c, "done")
    /\ UNCHANGED <<due, order, drain, held, socketVars, agentVars, sent, nRestarts>>

\* The caller's timer (registerPending).
TimeOut(c) ==
    /\ waiter[c] = "waiting"
    /\ Settle(c, "timedOut")
    /\ UNCHANGED <<tableVars, dispatch, drain, held, socketVars, agentVars, sent,
                   nRestarts>>

-----------------------------------------------------------------------------
\* The agent's sockets (ws/agent.ts, pubsub.ts).

\* agentd has one connection at a time.
Connect(s) ==
    /\ socket[s] = "none" /\ open = {}
    /\ \A t \in 1..(s - 1) : socket[t] # "none"
    /\ socket' = [socket EXCEPT ![s] = "preauth"]
    /\ open' = open \cup {s}
    /\ UNCHANGED <<tableVars, routerVars, registered, ready, closing, nHellos, agentVars, sent,
                   nRestarts>>

Lose(ss) == open' = open \ ss /\ closing' = closing \cup ss

\* addAgentConnection: not ready, and the previous socket is terminated.
Register(s) ==
    /\ registered' = s
    /\ ready' = FALSE
    /\ Lose(open \cap ({registered} \ {s}))

Authenticate(s) ==
    /\ socket[s] = "preauth"
    /\ Register(s)
    /\ socket' = [socket EXCEPT ![s] = "authed"]
    /\ UNCHANGED <<tableVars, routerVars, nHellos, agentVars, sent, nRestarts>>

\* handleAgentHello.  The frames of a socket, buffered ones included, are
\* handled one at a time, whether or not its connection is still up.
Hello(s) ==
    /\ socket[s] \in {"authed", "helloed"} /\ drain[s] \in {"idle", "done"}
    /\ nHellos[s] < MaxHellos
    /\ nHellos' = [nHellos EXCEPT ![s] = @ + 1]
    /\ Register(s)
    /\ socket' = [socket EXCEPT ![s] = "helloed"]
    /\ UNCHANGED <<tableVars, routerVars, agentVars, sent, nRestarts>>

\* The first inventory after the hello opens the socket for commands and
\* starts to drain the outbox (deliverPendingAfterInventory).
InventoryOncePerHost(s) ==
    /\ socket[s] = "helloed" /\ drain[s] = "idle"
    /\ registered = s
    /\ ready' = TRUE
    /\ drain' = [drain EXCEPT ![s] =
                    IF \E t \in Sockets : drain[t] # "idle" THEN "done" ELSE "expire"]
    /\ UNCHANGED <<tableVars, dispatch, held, waiter, registered, socket, open, closing, nHellos,
                   agentVars, sent, nRestarts>>

Inventory(s) ==
    /\ socket[s] = "helloed" /\ drain[s] = "idle"
    /\ registered = s
    /\ ready' = TRUE
    /\ drain' = [drain EXCEPT ![s] = "expire"]
    /\ UNCHANGED <<tableVars, dispatch, held, waiter, registered, socket, open, closing, nHellos,
                   agentVars, sent, nRestarts>>

Disconnect(s) ==
    /\ s \in open
    /\ Lose({s})
    /\ inbox' = {i \in inbox : i.on # s}
    /\ UNCHANGED <<tableVars, routerVars, registered, ready, socket, nHellos, running,
                   results, sent, nRestarts>>

\* The socket's close event, which finds nothing to remove before authentication
\* or once another socket is registered.
CloseSeen(s) ==
    /\ s \in closing
    /\ closing' = closing \ {s}
    /\ IF registered = s
       THEN registered' = NoSocket /\ ready' = FALSE
       ELSE UNCHANGED <<registered, ready>>
    /\ UNCHANGED <<tableVars, routerVars, socket, open, nHellos, agentVars, sent,
                   nRestarts>>

-----------------------------------------------------------------------------
\* deliverPending of the socket s, query by query.

DrainAt(s, step) == drain' = [drain EXCEPT ![s] = step]

DrainExpire(s) ==
    /\ drain[s] = "expire"
    /\ ExpireStale
    /\ DrainAt(s, "list")
    /\ UNCHANGED <<due, order, dispatch, held, waiter, socketVars, agentVars, sent,
                   nRestarts>>

OneRowIsEnough == TRUE
NothingLeft == \A c \in Cmds : ~Deliverable(c)

\* listDeliverable claims one row; with none left the drain is over.
DrainClaim(s) ==
    /\ drain[s] = "list"
    /\ \E c \in Cmds :
        /\ Deliverable(c) /\ IsFirst(c)
        /\ status' = [status EXCEPT ![c] = "sent"]
        /\ held' = [held EXCEPT ![s] = c]
    /\ DrainAt(s, "holding")
    /\ UNCHANGED <<due, order, dispatch, waiter, socketVars, agentVars, sent, nRestarts>>

DrainEnds(s) ==
    /\ drain[s] = "list" /\ NothingLeft
    /\ DrainAt(s, "done")
    /\ UNCHANGED <<tableVars, dispatch, held, waiter, socketVars, agentVars, sent, nRestarts>>

DrainSend(s) ==
    /\ drain[s] = "holding"
    /\ IF Ready
       THEN /\ Send(held[s])
            /\ IF held[s] \in OneWay
               THEN DrainAt(s, "complete") /\ UNCHANGED held
               ELSE DrainAt(s, "list") /\ held' = [held EXCEPT ![s] = None]
       ELSE DrainAt(s, "requeue") /\ UNCHANGED <<held, inbox, sent>>
    /\ UNCHANGED <<tableVars, dispatch, waiter, socketVars, running, results, nRestarts>>

\* A row that could not be sent goes back, and the drain gives up.
DrainRequeue(s) ==
    /\ drain[s] = "requeue"
    /\ MarkQueued(held[s])
    /\ DrainAt(s, "done")
    /\ held' = [held EXCEPT ![s] = None]
    /\ UNCHANGED <<due, order, dispatch, waiter, socketVars, agentVars, sent, nRestarts>>

DrainComplete(s) ==
    /\ drain[s] = "complete"
    /\ MarkCompleted(held[s])
    /\ DrainAt(s, "list")
    /\ held' = [held EXCEPT ![s] = None]
    /\ UNCHANGED <<due, order, dispatch, waiter, socketVars, agentVars, sent,
                   nRestarts>>

-----------------------------------------------------------------------------
\* Time: a row's TTL passes, and maintain() sweeps.

Due(c) ==
    /\ status[c] \in Live /\ c \notin due
    /\ due' = due \cup {c}
    /\ UNCHANGED <<status, order, routerVars, socketVars, agentVars, sent, nRestarts>>

SweepStale ==
    /\ ExpireStale /\ status' # status
    /\ UNCHANGED <<due, order, routerVars, socketVars, agentVars, sent, nRestarts>>

SweepTerminal(c) ==
    /\ status[c] \in Terminal
    /\ status' = [status EXCEPT ![c] = "pruned"]
    /\ UNCHANGED <<due, order, routerVars, socketVars, agentVars, sent, nRestarts>>

-----------------------------------------------------------------------------
\* agentd and the results it sends back.

Receive(i) ==
    /\ i \in inbox
    /\ inbox' = inbox \ {i}
    /\ running' = running \cup {i.cmd}
    /\ UNCHANGED <<tableVars, routerVars, socketVars, results, sent, nRestarts>>

Finish(c) ==
    /\ c \in running
    /\ running' = running \ {c}
    /\ results' = IF c \in OneWay THEN results ELSE results \cup {c}
    /\ UNCHANGED <<tableVars, routerVars, socketVars, inbox, sent, nRestarts>>

\* handleResult, once or, if its message is delivered again, more often: the
\* row is completed or failed and the caller answered, unless the row is gone.
HandleResult(c) ==
    /\ c \in results
    /\ \E s \in Sockets : socket[s] = "helloed" /\ drain[s] \in {"idle", "done"}
    /\ IF status[c] \in {"absent", "pruned"}
       THEN UNCHANGED <<status, waiter>>
       ELSE (MarkCompleted(c) \/ MarkFailed(c)) /\ Settle(c, "resolved")
    /\ results' \in {results, results \ {c}}
    /\ UNCHANGED <<due, order, dispatch, drain, held, socketVars, inbox, running, sent,
                   nRestarts>>

-----------------------------------------------------------------------------
\* Restarts.

\* The control plane: sockets, dispatches, drains and callers are gone.
ServerRestart ==
    /\ nRestarts < MaxRestarts
    /\ nRestarts' = nRestarts + 1
    /\ registered' = NoSocket /\ ready' = FALSE
    /\ open' = {} /\ closing' = {} /\ inbox' = {}
    /\ socket' = [s \in Sockets |-> IF socket[s] = "none" THEN "none" ELSE "closed"]
    /\ dispatch' = [c \in Cmds |-> IF dispatch[c] = "none" THEN "none" ELSE "done"]
    /\ drain' = [s \in Sockets |-> "idle"] /\ held' = [s \in Sockets |-> None]
    /\ waiter' = [c \in Cmds |-> IF waiter[c] = "waiting" THEN "none" ELSE waiter[c]]
    /\ UNCHANGED <<tableVars, nHellos, running, results, sent>>

\* agentd: its connection and the commands it was running are gone.
AgentRestart ==
    /\ nRestarts < MaxRestarts
    /\ nRestarts' = nRestarts + 1
    /\ Lose(open) /\ inbox' = {} /\ running' = {}
    /\ UNCHANGED <<tableVars, routerVars, registered, ready, socket, nHellos, results,
                   sent>>

-----------------------------------------------------------------------------
DispatchNext(c) ==
    \/ Enqueue(c) \/ CheckReady(c) \/ ClaimOwn(c) \/ SendOwn(c) \/ RequeueOwn(c)
    \/ CompleteOwn(c) \/ Refuse(c) \/ TimeOut(c)

SocketNext(s) ==
    \/ Connect(s) \/ Authenticate(s) \/ Hello(s) \/ Inventory(s) \/ Disconnect(s) \/ CloseSeen(s)

DrainNext(s) ==
    \/ DrainExpire(s) \/ DrainClaim(s) \/ DrainEnds(s) \/ DrainSend(s) \/ DrainRequeue(s)
    \/ DrainComplete(s)

Next ==
    \/ \E c \in Cmds :
        DispatchNext(c) \/ Due(c) \/ SweepTerminal(c) \/ Finish(c) \/ HandleResult(c)
    \/ \E s \in Sockets : SocketNext(s) \/ DrainNext(s)
    \/ \E i \in inbox : Receive(i)
    \/ SweepStale \/ ServerRestart \/ AgentRestart

Spec == Init /\ [][Next]_vars

-----------------------------------------------------------------------------
TypeOK ==
    /\ status \in [Cmds -> Live \cup Terminal \cup {"absent", "pruned"}]
    /\ due \subseteq Cmds /\ order \in Seq(Cmds)
    /\ dispatch \in [Cmds -> {"none", "enqueued", "claiming", "claimed", "requeue", "complete",
                              "refuse", "done"}]
    /\ waiter \in [Cmds -> {"none", "waiting", "resolved", "timedOut", "refused"}]
    /\ drain \in [Sockets -> {"idle", "expire", "list", "holding", "requeue", "complete", "done"}]
    /\ held \in [Sockets -> Cmds \cup {None}]
    /\ registered \in Sockets \cup {NoSocket} /\ ready \in BOOLEAN
    /\ socket \in [Sockets -> {"none", "preauth", "authed", "helloed", "closed"}]
    /\ open \subseteq Sockets /\ closing \subseteq Sockets /\ nHellos \in [Sockets -> Nat]
    /\ inbox \subseteq [cmd: Cmds, on: Sockets] /\ running \subseteq Cmds /\ results \subseteq Cmds
    /\ sent \in Seq(Cmds) /\ nRestarts \in Nat

\* A command is written to a socket at most once, whatever dispatches, drains
\* of an old and a new socket, requeues and restarts overlap: agentd before the
\* executor did not recognise a repeated command (commandOutbox.ts, 169).
SentAtMostOnce == \A i, j \in DOMAIN sent : sent[i] = sent[j] => i = j

\* A caller told that the agent is not connected can be sure: the command was
\* not sent, and no drain will send it later.
RefusedNeverSent == \A c \in Cmds : waiter[c] = "refused" => \A i \in DOMAIN sent : sent[i] # c

\* An answered caller finds its command settled: the row cannot be claimed, or
\* expire, once a result has been handed out.
AnsweredIsSettled ==
    \A c \in Cmds : waiter[c] = "resolved" => status[c] \in Terminal \cup {"pruned"}

\* A settled row is never reopened, by a late requeue, result or sweep.
SettledStays ==
    [][\A c \in Cmds :
        status[c] \in Terminal => status'[c] \in {status[c], "pruned"}]_vars

\* A durable row that may be delivered to a ready agent is waited for by a
\* dispatch or a drain that is under way.
NoneWaits ==
    Ready =>
        \A c \in Durable :
            Deliverable(c) =>
                \/ dispatch[c] \notin {"none", "done"}
                \/ \E s \in Sockets : drain[s] \notin {"idle", "done"}

\* The first connection of an agent since the control plane has known it.
FirstConnection == \A s, t \in Sockets : socket[s] # "none" /\ socket[t] # "none" => s = t

\* On an agent's first connection no durable row waits for a reconnection that
\* may never come, whatever dispatches, hellos and drains overlap on it.
NeverStranded == FirstConnection => NoneWaits

\* On any connection, the one thing that leaves a row waiting at a ready agent is
\* a requeue that lands after the drain (commandRouter.ts, 249 and 284), of a
\* command that an earlier socket would not take: no dispatch, drain, close
\* event, second hello or restart does so by itself.
Requeues ==
    \/ \E c \in Cmds : RequeueOwn(c)
    \/ \E s \in Sockets : DrainRequeue(s)
OnlyRequeuesStrand == [][NoneWaits => NoneWaits' \/ Requeues]_vars
=============================================================================
