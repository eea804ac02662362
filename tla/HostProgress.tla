---------------------------- MODULE HostProgress ----------------------------
(***************************************************************************)
(* The control plane's batched progress writer for one host                *)
(* (services/hostProgress.ts): every processed agent message records its   *)
(* number in memory, and a timer writes the highest one to                 *)
(* hosts.last_acked_seq.  A flush writes last_seen_at and last_acked_seq   *)
(* with two concurrent queries and gives up as soon as one of them fails,  *)
(* while the other may still be on its way to the database.                *)
(*                                                                         *)
(* This is the inside of AgentLink's Persist, so its names are kept apart  *)
(* from AgentLink's: one proof module extends both.                        *)
(*                                                                         *)
(* A definition placed just before another with the same parameters and no *)
(* use of its own is that definition with a plausible slip.                *)
(***************************************************************************)
EXTENDS Integers, FiniteSets

CONSTANTS
    MaxSeq,       \* numbers recorded
    MaxFailures,  \* queries the database may fail
    MaxCloses,    \* socket closes, each of which flushes
    MaxRestarts,  \* control-plane restarts
    MaxWaiters    \* flush calls that may await one flush at a time

ASSUME ProgressAssumption ==
    /\ MaxSeq \in Nat /\ MaxFailures \in Nat /\ MaxCloses \in Nat /\ MaxRestarts \in Nat
    /\ MaxWaiters \in Nat

Null == 0

\* What a flush took: ackedSeq, and which of its two queries are unanswered.
NoFlight == [seq |-> Null, waiting |-> {}]
Flights == [seq: 0..MaxSeq, waiting: SUBSET {"seen", "acked"}]

VARIABLES
    lastSeen,   \* progress.lastSeen: the last-seen time is due
    ackedSeq,   \* progress.ackedSeq (Null: null)
    timer,      \* progress.timer is set
    flight,     \* progress.flushing (NoFlight: null)
    waiters,    \* flush calls awaiting progress.flushing
    strays,     \* acked numbers whose query outlived its flush
    hostAcked,  \* hosts.last_acked_seq
    recorded,   \* the highest number recorded that no restart has erased
    nFailures, nCloses, nRestarts

batcherVars == <<lastSeen, ackedSeq, timer, flight, waiters, strays, hostAcked, recorded,
                 nFailures, nCloses, nRestarts>>

Greatest(a, b) == IF a >= b THEN a ELSE b

\* The entry of the host has something to write.
Pending == lastSeen \/ ackedSeq # Null

BatcherInit ==
    /\ lastSeen = FALSE /\ ackedSeq = Null /\ timer = FALSE
    /\ flight = NoFlight /\ waiters = 0 /\ strays = {}
    /\ hostAcked = 0 /\ recorded = 0
    /\ nFailures = 0 /\ nCloses = 0 /\ nRestarts = 0

-----------------------------------------------------------------------------
\* record(hostId, seq) for a processed message; record(hostId) for a redelivery.
Record ==
    /\ \E n \in {Null} \cup 1..MaxSeq :
        /\ ackedSeq' = Greatest(ackedSeq, n)
        /\ recorded' = Greatest(recorded, n)
    /\ lastSeen' = TRUE
    /\ timer' = TRUE
    /\ UNCHANGED <<flight, waiters, strays, hostAcked, nFailures, nCloses, nRestarts>>

\* flush with no flush in progress takes what is pending and sends its queries.
TakeFlight ==
    flight' = [seq |-> ackedSeq,
               waiting |-> {q \in {"seen"} : lastSeen} \cup {q \in {"acked"} : ackedSeq # Null}]

StartFlush ==
    IF Pending
    THEN /\ TakeFlight
         /\ lastSeen' = FALSE /\ ackedSeq' = Null
    ELSE UNCHANGED <<lastSeen, ackedSeq, flight>>

\* flush: one in progress is awaited first.
Flush ==
    IF flight # NoFlight
    THEN /\ waiters < MaxWaiters
         /\ waiters' = waiters + 1
         /\ UNCHANGED <<lastSeen, ackedSeq, flight>>
    ELSE StartFlush /\ UNCHANGED waiters

TimerFires ==
    /\ timer
    /\ timer' = FALSE
    /\ Flush
    /\ UNCHANGED <<strays, hostAcked, recorded, nFailures, nCloses, nRestarts>>

\* The socket closes (ws/agent.ts): flush now.  A flush that starts clears the
\* timer; one that has to wait leaves it.
SocketCloses ==
    /\ nCloses < MaxCloses
    /\ nCloses' = nCloses + 1
    /\ Flush
    /\ timer' = (timer /\ flight # NoFlight)
    /\ UNCHANGED <<strays, hostAcked, recorded, nFailures, nRestarts>>

\* updateHostAckedSeq: GREATEST of the column and the number.
BlindUpdate(n) == hostAcked' = n
UpdateHostAckedSeq(n) == hostAcked' = Greatest(hostAcked, n)

\* The last query of a flush succeeded.  A waiting flush goes on at once and
\* takes what was recorded meanwhile, the others waiting for it in turn; with
\* nothing recorded the entry is deleted and they all return.  With nobody
\* waiting, whatever is pending gets a timer.
FinishWithoutTimer ==
    IF waiters > 0
    THEN /\ IF Pending THEN TakeFlight /\ waiters' = waiters - 1
                       ELSE flight' = NoFlight /\ waiters' = 0
         /\ lastSeen' = FALSE /\ ackedSeq' = Null
         /\ timer' = FALSE
    ELSE /\ flight' = NoFlight
         /\ timer' = FALSE
         /\ UNCHANGED <<lastSeen, ackedSeq, waiters>>
FinishFlush ==
    IF waiters > 0
    THEN /\ IF Pending THEN TakeFlight /\ waiters' = waiters - 1
                       ELSE flight' = NoFlight /\ waiters' = 0
         /\ lastSeen' = FALSE /\ ackedSeq' = Null
         /\ timer' = FALSE
    ELSE /\ flight' = NoFlight
         /\ timer' = (timer \/ Pending)
         /\ UNCHANGED <<lastSeen, ackedSeq, waiters>>

QueryLands(q) ==
    /\ q \in flight.waiting
    /\ IF q = "acked" THEN UpdateHostAckedSeq(flight.seq) ELSE UNCHANGED hostAcked
    /\ IF flight.waiting = {q}
       THEN FinishFlush
       ELSE /\ flight' = [flight EXCEPT !.waiting = @ \ {q}]
            /\ UNCHANGED <<lastSeen, ackedSeq, timer, waiters>>
    /\ UNCHANGED <<strays, recorded, nFailures, nCloses, nRestarts>>

\* A query failed: the flush merges what it took back into what is pending,
\* sets a timer and rejects, and so does every flush that waited for it.  The
\* other query, if unanswered, goes on by itself.
OverwritePending(seen, n) ==
    /\ lastSeen' = (lastSeen \/ seen)
    /\ ackedSeq' = n
KeepForRetry(seen, n) ==
    /\ lastSeen' = (lastSeen \/ seen)
    /\ ackedSeq' = Greatest(ackedSeq, n)

\* lastSeen was TRUE whenever a flush started: record always sets it.
QueryFails(q) ==
    /\ q \in flight.waiting
    /\ nFailures < MaxFailures
    /\ nFailures' = nFailures + 1
    /\ KeepForRetry(TRUE, flight.seq)
    /\ strays' = strays \cup {n \in {flight.seq} : q = "seen" /\ "acked" \in flight.waiting}
    /\ flight' = NoFlight
    /\ waiters' = 0
    /\ timer' = TRUE
    /\ UNCHANGED <<hostAcked, recorded, nCloses, nRestarts>>

\* A query whose flush has already failed, or whose process has died, is
\* executed or not.
StrayEnds ==
    /\ \E n \in strays :
        /\ strays' = strays \ {n}
        /\ UpdateHostAckedSeq(n) \/ UNCHANGED hostAcked
    /\ UNCHANGED <<lastSeen, ackedSeq, timer, flight, waiters, recorded, nFailures, nCloses,
                   nRestarts>>

\* The control plane restarts: memory is gone, queries already sent are not.
Restart ==
    /\ nRestarts < MaxRestarts
    /\ nRestarts' = nRestarts + 1
    /\ strays' = strays \cup {n \in {flight.seq} : "acked" \in flight.waiting}
    /\ lastSeen' = FALSE /\ ackedSeq' = Null /\ timer' = FALSE
    /\ flight' = NoFlight /\ waiters' = 0
    /\ \E n \in {hostAcked} \cup strays' :
        /\ \A m \in {hostAcked} \cup strays' : m <= n
        /\ recorded' = n
    /\ UNCHANGED <<hostAcked, nFailures, nCloses>>

BatcherNext ==
    \/ Record \/ TimerFires \/ SocketCloses
    \/ \E q \in {"seen", "acked"} : QueryLands(q) \/ QueryFails(q)
    \/ StrayEnds \/ Restart

BatcherSpec == BatcherInit /\ [][BatcherNext]_batcherVars

\* Timers fire and the database answers.
BatcherFairSpec ==
    /\ BatcherSpec
    /\ WF_batcherVars(TimerFires)
    /\ \A q \in {"seen", "acked"} : WF_batcherVars(QueryLands(q))

-----------------------------------------------------------------------------
BatcherTypeOK ==
    /\ lastSeen \in BOOLEAN /\ timer \in BOOLEAN
    /\ ackedSeq \in 0..MaxSeq /\ hostAcked \in 0..MaxSeq /\ recorded \in 0..MaxSeq
    /\ flight \in Flights /\ strays \subseteq 1..MaxSeq
    /\ waiters \in Nat /\ nFailures \in Nat /\ nCloses \in Nat /\ nRestarts \in Nat

\* The highest recorded number is never forgotten short of a restart: it is in
\* the database, pending, or in the flush in progress, however flushes fail,
\* overlap and wait for each other.
ProgressKept ==
    nRestarts = 0 => recorded \in {hostAcked, ackedSeq, flight.seq}

\* Something pending always has a flush or a timer that will write it.
NeverStranded == Pending => timer \/ flight # NoFlight

\* What the agent link builds on (AgentLink's Persist): whatever order its
\* queries end in, this writer keeps the promise of PersistedCursor.
BatcherCursor == INSTANCE PersistedCursor WITH noted <- recorded, stored <- hostAcked
BatcherImplementsCursor == BatcherCursor!Spec

\* A recorded number is eventually persisted, unless a restart erases it.
EventuallyPersisted ==
    \A n \in 1..MaxSeq : recorded = n ~> (hostAcked >= n \/ nRestarts > 0)
=============================================================================
