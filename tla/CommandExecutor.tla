-------------------------- MODULE CommandExecutor --------------------------
(***************************************************************************)
(* agentd's command executor (agents/agentd/internal/commands/executor.go) *)
(* and the control-plane dispatches that feed it: a fixed pool of worker   *)
(* goroutines, one FIFO queue per session key, at most one command of a    *)
(* key in flight, and a condition variable on which idle workers wait.     *)
(* What is done under the executor's mutex is one step; commands run       *)
(* outside it.                                                             *)
(*                                                                         *)
(* A definition placed just before another with the same parameters and no *)
(* use of its own is that definition with a plausible slip.                *)
(***************************************************************************)
EXTENDS Integers, Sequences, FiniteSets

CONSTANTS
    Cmds,          \* command ids
    Keys,          \* session keys; a command without a session has its own
    KeyOf,         \* KeyOf[c]: the key a command is queued under
    Workers,       \* worker goroutines; NewExecutor starts at least one
    MaxDuplicates, \* times the control plane dispatches an id again
    None           \* no command, no key

ASSUME ExecutorAssumption ==
    /\ KeyOf \in [Cmds -> Keys]
    /\ None \notin Cmds \cup Keys /\ Workers # {} /\ IsFiniteSet(Workers)
    /\ MaxDuplicates \in Nat

VARIABLES
    queues,      \* Executor.queues; an absent key has the empty queue
    readyKeys,   \* Executor.readyKeys
    scheduled,   \* Executor.scheduled
    accepted,    \* Executor.accepted
    closed,      \* Executor.closed
    worker,      \* of each worker: "idle", "waiting", "running", "reported", "exited"
    key,         \* the key a worker took
    cmd,         \* the command a worker took
    results,     \* results handed to onResult, in order
    submitted,   \* history: accepted ids in order
    nDuplicates

vars == <<queues, readyKeys, scheduled, accepted, closed, worker, key, cmd, results,
          submitted, nDuplicates>>

Init ==
    /\ queues = [k \in Keys |-> <<>>]
    /\ readyKeys = <<>> /\ scheduled = {} /\ accepted = {} /\ closed = FALSE
    /\ worker = [w \in Workers |-> "idle"]
    /\ key = [w \in Workers |-> None] /\ cmd = [w \in Workers |-> None]
    /\ results = <<>> /\ submitted = <<>> /\ nDuplicates = 0

-----------------------------------------------------------------------------
\* cond.Signal wakes one waiting worker, if there is one.
SignalLost(ws) == worker' = ws
Signal(ws) ==
    \/ \E w \in Workers : ws[w] = "waiting" /\ worker' = [ws EXCEPT ![w] = "idle"]
    \/ (\A w \in Workers : ws[w] # "waiting") /\ worker' = ws

\* Put a key with work at the end of the ready list.
MakeReady(k, ws) ==
    /\ readyKeys' = Append(readyKeys, k)
    /\ Signal(ws)

\* Submit refuses an id it has accepted before, and everything once closed.
AcceptsDuplicate(c) == ~closed
Accepts(c) == ~closed /\ c \notin accepted

EnqueueFirst(k, c) == queues' = [queues EXCEPT ![k] = <<c>> \o @]
Enqueue(k, c) == queues' = [queues EXCEPT ![k] = Append(@, c)]

NeverScheduled(k) == FALSE
IsScheduled(k) == k \in scheduled

Submit(c) ==
    /\ Accepts(c)
    /\ accepted' = accepted \cup {c}
    /\ submitted' = Append(submitted, c)
    /\ Enqueue(KeyOf[c], c)
    /\ IF IsScheduled(KeyOf[c])
       THEN UNCHANGED <<scheduled, readyKeys, worker>>
       ELSE /\ scheduled' = scheduled \cup {KeyOf[c]}
            /\ MakeReady(KeyOf[c], worker)
    /\ UNCHANGED <<closed, key, cmd, results, nDuplicates>>

SubmitRefused(c) ==
    /\ ~Accepts(c)
    /\ nDuplicates < MaxDuplicates
    /\ nDuplicates' = nDuplicates + 1
    /\ UNCHANGED <<queues, readyKeys, scheduled, accepted, closed, worker, key, cmd, results,
                   submitted>>

\* Close, at shutdown; it then waits for the workers.
Close ==
    /\ ~closed
    /\ closed' = TRUE
    /\ worker' = [w \in Workers |-> IF worker[w] = "waiting" THEN "idle" ELSE worker[w]]
    /\ UNCHANGED <<queues, readyKeys, scheduled, accepted, key, cmd, results, submitted,
                   nDuplicates>>

-----------------------------------------------------------------------------
\* next, entered or woken up in: wait, take the first ready key, or exit.
Wait(w) ==
    /\ worker[w] = "idle" /\ readyKeys = <<>> /\ ~closed
    /\ worker' = [worker EXCEPT ![w] = "waiting"]
    /\ UNCHANGED <<queues, readyKeys, scheduled, accepted, closed, key, cmd, results,
                   submitted, nDuplicates>>

Took(w, k, c) == key' = [key EXCEPT ![w] = k] /\ cmd' = [cmd EXCEPT ![w] = c]

Take(w) ==
    /\ worker[w] = "idle" /\ readyKeys # <<>>
    /\ Took(w, Head(readyKeys), Head(queues[Head(readyKeys)]))
    /\ readyKeys' = Tail(readyKeys)
    /\ worker' = [worker EXCEPT ![w] = "running"]
    /\ UNCHANGED <<queues, scheduled, accepted, closed, results, submitted, nDuplicates>>

ExitsAtOnce(w) == worker[w] = "idle" /\ closed
MayExit(w) == worker[w] = "idle" /\ closed /\ readyKeys = <<>>

Exit(w) ==
    /\ MayExit(w)
    /\ worker' = [worker EXCEPT ![w] = "exited"]
    /\ UNCHANGED <<queues, readyKeys, scheduled, accepted, closed, key, cmd, results,
                   submitted, nDuplicates>>

\* execute, whose handler succeeds, fails or panics, and onResult.
Report(w) ==
    /\ worker[w] = "running"
    /\ results' = Append(results, cmd[w])
    /\ worker' = [worker EXCEPT ![w] = "reported"]
    /\ UNCHANGED <<queues, readyKeys, scheduled, accepted, closed, key, cmd, submitted,
                   nDuplicates>>

LastButOneOf(k) == Len(queues[k]) <= 2
LastOf(k) == Len(queues[k]) = 1

\* complete: the command leaves its queue only now.
Complete(w) ==
    /\ worker[w] = "reported"
    /\ queues' = [queues EXCEPT ![key[w]] = Tail(@)]
    /\ IF LastOf(key[w])
       THEN /\ scheduled' = scheduled \ {key[w]}
            /\ worker' = [worker EXCEPT ![w] = "idle"]
            /\ UNCHANGED readyKeys
       ELSE /\ MakeReady(key[w], [worker EXCEPT ![w] = "idle"])
            /\ UNCHANGED scheduled
    /\ key' = [key EXCEPT ![w] = None]
    /\ cmd' = [cmd EXCEPT ![w] = None]
    /\ UNCHANGED <<accepted, closed, results, submitted, nDuplicates>>

Next ==
    \/ \E c \in Cmds : Submit(c) \/ SubmitRefused(c)
    \/ Close
    \/ \E w \in Workers : Wait(w) \/ Take(w) \/ Exit(w) \/ Report(w) \/ Complete(w)

Spec == Init /\ [][Next]_vars

\* Every goroutine that can run does; a command's handler returns.
Fairness ==
    \A w \in Workers :
        WF_vars(Wait(w)) /\ WF_vars(Take(w)) /\ WF_vars(Exit(w)) /\ WF_vars(Report(w))
            /\ WF_vars(Complete(w))

FairSpec == Spec /\ Fairness

-----------------------------------------------------------------------------
Busy(w) == worker[w] \in {"running", "reported"}
Before(s, a, b) == \E i, j \in DOMAIN s : i < j /\ s[i] = a /\ s[j] = b
Contains(s, x) == \E i \in DOMAIN s : s[i] = x

TypeOK ==
    /\ queues \in [Keys -> Seq(Cmds)] /\ readyKeys \in Seq(Keys)
    /\ scheduled \subseteq Keys /\ accepted \subseteq Cmds /\ closed \in BOOLEAN
    /\ worker \in [Workers -> {"idle", "waiting", "running", "reported", "exited"}]
    /\ key \in [Workers -> Keys \cup {None}] /\ cmd \in [Workers -> Cmds \cup {None}]
    /\ results \in Seq(Cmds) /\ submitted \in Seq(Cmds) /\ nDuplicates \in Nat

\* Commands of one session never run at the same time.
OneInFlightPerKey ==
    \A v, w \in Workers : Busy(v) /\ Busy(w) /\ key[v] = key[w] => v = w

\* A session's commands take effect in the order they were dispatched: a result
\* is out for every earlier one before a later one starts.
SessionOrder ==
    \A w \in Workers :
        Busy(w) =>
            \A c \in accepted :
                KeyOf[c] = key[w] /\ Before(submitted, c, cmd[w]) => Contains(results, c)

\* An accepted id produces no second result.
NoSecondResult ==
    \A i, j \in DOMAIN results : results[i] = results[j] => i = j

\* No lost wake-up: while a worker sleeps, every ready key has another worker
\* that is about to take it, so that a long command of one session never holds
\* up another session while a worker is free.
NoLostWakeup ==
    (\E w \in Workers : worker[w] = "waiting")
        => Cardinality({w \in Workers : worker[w] = "idle"}) >= Len(readyKeys)

\* Close returns only after every accepted command has its result.
CloseDrains ==
    (\A w \in Workers : worker[w] = "exited") => \A c \in accepted : Contains(results, c)

\* Every accepted command produces a result, whatever the other sessions do.
EventuallyReported ==
    \A c \in Cmds : c \in accepted ~> Contains(results, c)
=============================================================================
