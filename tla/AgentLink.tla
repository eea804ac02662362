------------------------------ MODULE AgentLink ------------------------------
(***************************************************************************)
(* The agent -> control plane message link: agentd's outbound queue and    *)
(* WebSocket client (agents/agentd/internal/queue, internal/ws), the       *)
(* control plane's agent socket (services/control-plane/src/ws/agent.ts)   *)
(* and its batched progress writer (services/hostProgress.ts).             *)
(*                                                                         *)
(* agentd numbers every outbound message.  A durable message is fsynced to *)
(* the outbound queue before it is written to the socket; a volatile one   *)
(* (terminal output, console chunks, snapshots) takes a number but is      *)
(* never queued.  The control plane processes the frames of one socket one *)
(* at a time, acknowledges each number, and persists the highest processed *)
(* number lazily.  An acknowledgement is cumulative: agentd forgets every  *)
(* queued message at or below it.  On reconnect a goroutine says hello and *)
(* replays what is still queued.                                           *)
(*                                                                         *)
(* A definition placed just before another with the same parameters and no *)
(* use of its own (ShiftedOntoFloor before Shifted) is that definition    *)
(* with a plausible slip: substituting it must break the property it is    *)
(* named for in PROJECT.json.                                              *)
(***************************************************************************)
EXTENDS Integers, Sequences, FiniteSets

CONSTANTS
    MaxId,        \* durable messages the agent may produce
    MaxVolatile,  \* volatile sequenced messages it may produce
    MaxFaults,    \* environment faults in a behaviour
    Faults,       \* the kinds of fault the environment may inflict
    QueueCap,     \* storage.outbound_queue_max
    AuthBuffer,   \* MAX_PENDING_MESSAGES
    Legacy        \* messages left in the queue file by an older agentd

FaultKinds == {"drop", "handler", "agent", "server"}

ASSUME LinkAssumption ==
    /\ MaxId \in Nat /\ MaxVolatile \in Nat /\ MaxFaults \in Nat
    /\ Faults \subseteq FaultKinds
    /\ QueueCap \in Nat \ {0}
    /\ AuthBuffer \in Nat
    /\ Legacy \in 0..MaxId

\* Every connection but the last is ended by a fault, so these suffice.
Conns == 1..(MaxFaults + 1)
None == 0

VARIABLES
    \* agentd, in memory
    seq,        \* Client.seq: the last sequence number taken
    queue,      \* Queue.messages
    lastAcked,  \* Client.lastAckedSeq
    saving,     \* the ack the reader is about to save (None: not saving)
    conn,       \* Client.conn
    ready,      \* Client.ready
    nHello,     \* onConnect goroutines about to call SendHello
    nResend,    \* onConnect goroutines about to call ResendQueued
    replaying,  \* a goroutine is inside ResendQueued, holding sendMu
    todo,       \* the snapshot entries it has still to write
    replayOn,   \* the connection it wrote its first entry to
    \* agentd, on disk
    disk,       \* outbound-queue.jsonl
    ackedFile,  \* acked-seq
    \* the network
    c2s,        \* frames on their way to the control plane
    s2c,        \* acknowledgements on their way to agentd
    \* control plane, in memory
    phase,      \* of each socket: "none", "preauth", "open" or "failed"
    lastProc,   \* AgentState.lastProcessedSeq
    inHandler,  \* number of the frame whose handler has run but not returned
    noted,      \* the highest number hostProgress.record was given
    \* control plane, in the database
    dbAcked,    \* hosts.last_acked_seq
    applied,    \* the durable messages whose effects are in the database
    \* bounds and history
    nextId,     \* durable messages produced so far
    nVolatile,  \* volatile messages produced so far
    nConn,      \* connections opened so far
    nFaults,    \* faults so far
    evicted,    \* messages a full queue has dropped
    forgot,     \* messages agentd forgot as acknowledged before they were applied
    suspect     \* events after which an acknowledgement may cover an unapplied message

agentVars == <<seq, queue, lastAcked, saving, conn, ready, nHello, nResend,
               replaying, todo, replayOn, disk, ackedFile>>
serverVars == <<phase, lastProc, inHandler, noted, dbAcked, applied>>
historyVars == <<nextId, nVolatile, nConn, nFaults, evicted, forgot, suspect>>
vars == <<agentVars, c2s, s2c, serverVars, historyVars>>

-----------------------------------------------------------------------------
Larger(a, b) == IF a >= b THEN a ELSE b

Entry == [seq: Nat, id: 1..MaxId]
Hello == [kind: {"hello"}, seq: Nat, resume: Nat]
Data == [kind: {"data"}, seq: Nat, id: 0..MaxId]
Frame == Hello \cup Data

Ids(entries) == {m.id : m \in entries}
Above(entries, n) == {m \in entries : m.seq > n}

\* Queue.messages[0]: entries are appended in increasing order of seq.
AnyEntry(m, entries) == m \in entries
IsOldest(m, entries) == m \in entries /\ \A o \in entries : m.seq <= o.seq

\* n is the highest sequence number of the entries (Queue.MaxSeq), None if
\* there is none.
Seqs(entries) == {m.seq : m \in entries} \cup {None}
IsMaxSeq(n, entries) ==
    \/ entries = {} /\ n = None
    \/ /\ \E m \in entries : m.seq = n
       /\ \A m \in entries : m.seq <= n

\* kept is what Queue.RebaseAbove(floor) makes of the entries: all of them
\* shifted by the same amount when the oldest is not above floor already.
ShiftedOntoFloor(entries, offset) == {[m EXCEPT !.seq = @ + offset - 1] : m \in entries}
Shifted(entries, offset) == {[m EXCEPT !.seq = @ + offset] : m \in entries}
RebaseAbove(entries, floor, kept) ==
    \/ /\ \A m \in entries : m.seq > floor
       /\ kept = entries
    \/ \E m \in entries :
        /\ IsOldest(m, entries) /\ m.seq <= floor
        /\ kept = Shifted(entries, floor + 1 - m.seq)

DataFrame(m) == [kind |-> "data", seq |-> m.seq, id |-> m.id]
HelloFrame == [kind |-> "hello", seq |-> Larger(lastAcked, 1), resume |-> lastAcked]

\* Some number above n was, or may yet be, processed by the control plane.
ServerReaches(n) ==
    \/ dbAcked > n \/ noted > n
    \/ \E c \in Conns : inHandler[c] > n \/ (\E i \in DOMAIN c2s[c] : c2s[c][i].seq > n)

-----------------------------------------------------------------------------
\* The counter's first value: above every number the files mention (Run).
CounterFromCursor(inFile, inQueue, acked) == Larger(acked, 1)
FirstCounter(inFile, inQueue, acked) == Larger(Larger(inFile, inQueue), Larger(acked, 1))

\* agentd start-up (Run): load the queue file and the saved cursor, forget the
\* acknowledged entries, and put what is left above the hello's number.  The
\* counter starts above everything the files mention.  Forgetting entries may
\* rewrite the file (maybeCompact, by file size and age); a rebase always does.
Startup(file, acked) ==
    LET live == Above(file, acked)
        offsets == {Larger(acked, 1) + 1 - m.seq : m \in live} \cap Nat
    IN \E kept \in {live} \cup {Shifted(live, n) : n \in offsets} :
        /\ RebaseAbove(live, Larger(acked, 1), kept)
        /\ queue' = kept
        /\ IF kept = live THEN disk' \in {file, live} ELSE disk' = kept
        /\ \E n \in Seqs(file), k \in Seqs(kept) :
            /\ IsMaxSeq(n, file) /\ IsMaxSeq(k, kept)
            /\ seq' = FirstCounter(n, k, acked)
        /\ lastAcked' = acked
        /\ ackedFile' = acked
        /\ forgot' = forgot \cup (Ids(file \ live) \ applied)

\* An older agentd left Legacy messages numbered from 1 and saved no cursor;
\* start-up moves them above the hello.  The control plane may have applied any
\* prefix of them.
LegacyFile == {[seq |-> i, id |-> i] : i \in 1..Legacy}

Init ==
    /\ queue \in {LegacyFile, Shifted(LegacyFile, 1)}
    /\ RebaseAbove(LegacyFile, 1, queue)
    /\ disk = queue
    /\ seq = Legacy + 1
    /\ lastAcked = 0 /\ ackedFile = 0 /\ saving = None
    /\ conn = None /\ ready = FALSE
    /\ nHello = 0 /\ nResend = 0
    /\ replaying = FALSE /\ todo = {} /\ replayOn = None
    /\ c2s = [c \in Conns |-> <<>>] /\ s2c = [c \in Conns |-> <<>>]
    /\ phase = [c \in Conns |-> "none"]
    /\ lastProc = [c \in Conns |-> 0]
    /\ inHandler = [c \in Conns |-> None]
    /\ dbAcked \in 0..Legacy /\ noted = dbAcked
    /\ applied \in {1..n : n \in dbAcked..Legacy}
    /\ nextId = Legacy /\ nVolatile = 0 /\ nConn = 0 /\ nFaults = 0
    /\ evicted = {} /\ forgot = {} /\ suspect = {}

-----------------------------------------------------------------------------
\* agentd

\* The socket write at the end of Send: nothing leaves before the replay on
\* the current connection is over.
WriteIfReady(frame) ==
    IF conn # None /\ ready
    THEN c2s' = [c2s EXCEPT ![conn] = Append(@, frame)]
    ELSE UNCHANGED c2s

\* Send of a durable message: Queue.Push, then the write.  A full queue first
\* drops its oldest entry and then rewrites the file.
SendDurable ==
    /\ nextId < MaxId /\ ~replaying
    /\ LET m == [seq |-> seq + 1, id |-> nextId + 1]
       IN /\ IF Cardinality(queue) >= QueueCap
             THEN \E old \in queue :
                    /\ IsOldest(old, queue)
                    /\ queue' = (queue \ {old}) \cup {m}
                    /\ disk' = queue'
                    /\ evicted' = evicted \cup ({old.id} \ applied)
             ELSE /\ queue' = queue \cup {m}
                  /\ disk' = disk \cup {m}
                  /\ UNCHANGED evicted
          /\ WriteIfReady(DataFrame(m))
    /\ seq' = seq + 1
    /\ nextId' = nextId + 1
    /\ UNCHANGED <<lastAcked, saving, conn, ready, nHello, nResend, replaying, todo,
                   replayOn, ackedFile, s2c, serverVars, nVolatile, nConn, nFaults,
                   forgot, suspect>>

\* Send of a volatile message: a number is taken even when nobody is connected.
SendVolatile ==
    /\ nVolatile < MaxVolatile /\ ~replaying
    /\ WriteIfReady([kind |-> "data", seq |-> seq + 1, id |-> 0])
    /\ seq' = seq + 1
    /\ nVolatile' = nVolatile + 1
    /\ UNCHANGED <<queue, lastAcked, saving, conn, ready, nHello, nResend, replaying,
                   todo, replayOn, disk, ackedFile, s2c, serverVars, nextId, nConn,
                   nFaults, evicted, forgot, suspect>>

\* Connect, from Run or from the reader's reconnect loop: a new socket, not
\* ready, and a goroutine that will say hello and replay.
Connect ==
    /\ conn = None /\ saving = None
    /\ nConn + 1 \in Conns
    /\ nConn' = nConn + 1
    /\ conn' = nConn + 1
    /\ ready' = FALSE
    /\ nHello' = nHello + 1
    /\ phase' = [phase EXCEPT ![nConn + 1] = "preauth"]
    /\ UNCHANGED <<seq, queue, lastAcked, saving, nResend, replaying, todo, replayOn,
                   disk, ackedFile, c2s, s2c, lastProc, inHandler, noted, dbAcked, applied,
                   nextId, nVolatile, nFaults, evicted, forgot, suspect>>

\* SendHello writes to whatever connection is current; with none, onConnect
\* gives up before replaying.
SendHello ==
    /\ nHello > 0 /\ ~replaying
    /\ nHello' = nHello - 1
    /\ IF conn = None
       THEN UNCHANGED <<nResend, c2s>>
       ELSE /\ nResend' = nResend + 1
            /\ c2s' = [c2s EXCEPT ![conn] = Append(@, HelloFrame)]
    /\ UNCHANGED <<seq, queue, lastAcked, saving, conn, ready, replaying, todo, replayOn,
                   disk, ackedFile, s2c, serverVars, historyVars>>

\* ResendQueued takes sendMu and a snapshot of the queue ...
StartReplay ==
    /\ nResend > 0 /\ ~replaying
    /\ nResend' = nResend - 1
    /\ replaying' = TRUE /\ todo' = queue /\ replayOn' = None
    /\ UNCHANGED <<seq, queue, lastAcked, saving, conn, ready, nHello, disk, ackedFile,
                   c2s, s2c, serverVars, historyVars>>

\* The connection is not the one the replay began on.
Straddles == replayOn \notin {None, conn} /\ conn # None

\* ... writes it in order to whatever connection is current ...
ReplayEntry ==
    /\ replaying /\ conn # None
    /\ \E m \in todo :
        /\ IsOldest(m, todo)
        /\ todo' = todo \ {m}
        /\ c2s' = [c2s EXCEPT ![conn] = Append(@, DataFrame(m))]
    /\ replayOn' = IF replayOn = None THEN conn ELSE replayOn
    /\ suspect' = suspect \cup {x \in {"straddle"} : Straddles}
    /\ UNCHANGED <<seq, queue, lastAcked, saving, conn, ready, nHello, nResend, replaying,
                   disk, ackedFile, s2c, serverVars, nextId, nVolatile, nConn, nFaults,
                   evicted, forgot>>

\* ... and then opens it for live traffic; a write with no connection fails
\* and ends the replay without doing so.
EndReplay ==
    /\ replaying
    /\ \/ /\ todo = {}
          /\ ready' = (conn # None)
          /\ suspect' = suspect \cup {x \in {"straddle"} : Straddles}
       \/ /\ todo # {} /\ conn = None
          /\ UNCHANGED <<ready, suspect>>
    /\ replaying' = FALSE /\ todo' = {} /\ replayOn' = None
    /\ UNCHANGED <<seq, queue, lastAcked, saving, conn, nHello, nResend, disk, ackedFile,
                   c2s, s2c, serverVars, nextId, nVolatile, nConn, nFaults, evicted, forgot>>

\* The reader handles an ack: advance the cursor and forget what it covers
\* (AckUpto), rewriting the file or not (maybeCompact) ...
RecvAck ==
    /\ conn # None /\ saving = None
    /\ s2c[conn] # <<>>
    /\ LET ack == Head(s2c[conn])
           kept == Above(queue, ack)
       IN /\ lastAcked' = Larger(lastAcked, ack)
          /\ queue' = kept
          /\ disk' \in {disk} \cup {d \in {kept} : kept # queue}
          /\ saving' = ack
          /\ forgot' = forgot \cup (Ids(queue \ kept) \ applied)
    /\ s2c' = [s2c EXCEPT ![conn] = Tail(@)]
    /\ UNCHANGED <<seq, conn, ready, nHello, nResend, replaying, todo, replayOn, ackedFile,
                   c2s, serverVars, nextId, nVolatile, nConn, nFaults, evicted, suspect>>

\* ... and then overwrite the cursor file (SaveAckedSeq) with that ack.
SaveCounter ==
    /\ saving # None
    /\ ackedFile' = seq
    /\ saving' = None
    /\ UNCHANGED <<seq, queue, lastAcked, conn, ready, nHello, nResend, replaying, todo,
                   replayOn, disk, c2s, s2c, serverVars, historyVars>>
SaveAck ==
    /\ saving # None
    /\ ackedFile' = saving
    /\ saving' = None
    /\ UNCHANGED <<seq, queue, lastAcked, conn, ready, nHello, nResend, replaying, todo,
                   replayOn, disk, c2s, s2c, serverVars, historyVars>>

-----------------------------------------------------------------------------
\* Control plane

\* The token has been validated.  The n frames that arrived meanwhile were
\* buffered, and those that did not fit were dropped; the rest arrive later.
Authenticate(c) ==
    /\ phase[c] = "preauth"
    /\ phase' = [phase EXCEPT ![c] = "open"]
    /\ \E n \in 0..Len(c2s[c]) :
        IF n <= AuthBuffer
        THEN UNCHANGED <<c2s, suspect>>
        ELSE /\ c2s' = [c2s EXCEPT ![c] = SubSeq(@, 1, AuthBuffer) \o SubSeq(@, n + 1, Len(@))]
             /\ suspect' = suspect \cup {"authBuffer"}
    /\ UNCHANGED <<agentVars, s2c, lastProc, inHandler, noted, dbAcked, applied, nextId,
                   nVolatile, nConn, nFaults, evicted, forgot>>

\* An ack reaches the agent only on its current connection.
SendAck(c, n) ==
    IF c = conn THEN s2c' = [s2c EXCEPT ![c] = Append(@, n)] ELSE UNCHANGED s2c

NextFrame(c) == Head(c2s[c])
TakeFrame(c) == c2s' = [c2s EXCEPT ![c] = Tail(@)]

CanHandle(c) == phase[c] = "open" /\ inHandler[c] = None /\ c2s[c] # <<>>

\* A data frame at or below the socket's cursor is a redelivery: acknowledged,
\* not processed.
RedeliveredOrNext(c) == NextFrame(c).kind = "data" /\ NextFrame(c).seq <= lastProc[c] + 1
Redelivered(c) == NextFrame(c).kind = "data" /\ NextFrame(c).seq <= lastProc[c]

SwallowRedelivery(c) ==
    /\ CanHandle(c) /\ Redelivered(c)
    /\ TakeFrame(c)
    /\ UNCHANGED <<agentVars, s2c, serverVars, historyVars>>
AckRedelivery(c) ==
    /\ CanHandle(c) /\ Redelivered(c)
    /\ TakeFrame(c)
    /\ SendAck(c, NextFrame(c).seq)
    /\ UNCHANGED <<agentVars, serverVars, historyVars>>

\* The handler's database work.  Hello: the socket's cursor starts at the
\* larger of the persisted cursor and the agent's (handleAgentHello).
Handle(c) ==
    /\ CanHandle(c) /\ ~Redelivered(c)
    /\ TakeFrame(c)
    /\ LET f == NextFrame(c)
       IN /\ inHandler' = [inHandler EXCEPT ![c] = f.seq]
          /\ IF f.kind = "hello"
             THEN /\ lastProc' = [lastProc EXCEPT ![c] = Larger(dbAcked, f.resume)]
                  /\ UNCHANGED applied
             ELSE /\ applied' = applied \cup ({f.id} \ {0})
                  /\ UNCHANGED lastProc
    /\ UNCHANGED <<agentVars, s2c, phase, noted, dbAcked, historyVars>>

\* The handler returns: acknowledge, advance the cursor, note the progress.
FinishHandler(c) ==
    /\ inHandler[c] # None
    /\ SendAck(c, inHandler[c])
    /\ IF inHandler[c] > lastProc[c]
       THEN /\ lastProc' = [lastProc EXCEPT ![c] = inHandler[c]]
            /\ noted' = Larger(noted, inHandler[c])
       ELSE UNCHANGED <<lastProc, noted>>
    /\ inHandler' = [inHandler EXCEPT ![c] = None]
    /\ UNCHANGED <<agentVars, c2s, phase, dbAcked, applied, historyVars>>

\* hostProgress writes the noted numbers behind the sockets' backs, in batches
\* that may fail and be retried (module HostProgress): the persisted cursor
\* rises to some number it was given.
PersistAnyNoted ==
    /\ \E n \in 0..noted : dbAcked' = n
    /\ UNCHANGED <<agentVars, c2s, s2c, phase, lastProc, inHandler, noted, applied,
                   historyVars>>
Persist ==
    /\ \E n \in (dbAcked + 1)..noted : dbAcked' = n
    /\ UNCHANGED <<agentVars, c2s, s2c, phase, lastProc, inHandler, noted, applied,
                   historyVars>>

-----------------------------------------------------------------------------
\* Faults

Fault(kind) ==
    /\ kind \in Faults /\ nFaults < MaxFaults
    /\ nFaults' = nFaults + 1

\* Only a prefix of what was written to a lost connection reaches the other side.
LoseFrames(c) ==
    \E n \in 0..Len(c2s[c]) : c2s' = [c2s EXCEPT ![c] = SubSeq(@, 1, n)]

\* The agent's side of connection c ends: the reader closes it.
ConnectionKept(c) ==
    /\ s2c' = [s2c EXCEPT ![c] = <<>>]
    /\ UNCHANGED <<conn, ready>>
Disconnected(c) ==
    IF c = conn
    THEN conn' = None /\ ready' = FALSE /\ s2c' = [s2c EXCEPT ![c] = <<>>]
    ELSE UNCHANGED <<conn, ready, s2c>>

Drop ==
    /\ conn # None /\ Fault("drop")
    /\ LoseFrames(conn)
    /\ Disconnected(conn)
    /\ UNCHANGED <<seq, queue, lastAcked, saving, nHello, nResend, replaying, todo,
                   replayOn, disk, ackedFile, serverVars, nextId, nVolatile, nConn,
                   evicted, forgot, suspect>>

\* A handler throws, before or after its effects: no ack, and nothing further
\* from this socket is processed.
HandlerFails(c) ==
    /\ Fault("handler") /\ phase[c] = "open"
    /\ inHandler[c] # None \/ (CanHandle(c) /\ ~Redelivered(c))
    /\ phase' = [phase EXCEPT ![c] = "failed"]
    /\ inHandler' = [inHandler EXCEPT ![c] = None]
    /\ c2s' = [c2s EXCEPT ![c] = <<>>]
    /\ Disconnected(c)
    /\ UNCHANGED <<seq, queue, lastAcked, saving, nHello, nResend, replaying, todo,
                   replayOn, disk, ackedFile, lastProc, noted, dbAcked, applied, nextId,
                   nVolatile, nConn, evicted, forgot, suspect>>

\* The control plane restarts: its sockets and unpersisted progress are gone,
\* except for a write the database had already been sent.
ServerRestart ==
    /\ Fault("server")
    /\ phase' = [c \in Conns |-> IF phase[c] = "none" THEN "none" ELSE "failed"]
    /\ c2s' = [c \in Conns |-> <<>>] /\ s2c' = [c \in Conns |-> <<>>]
    /\ inHandler' = [c \in Conns |-> None]
    /\ lastProc' = [c \in Conns |-> 0]
    /\ noted' \in dbAcked..noted
    /\ conn' = None /\ ready' = FALSE
    /\ UNCHANGED <<seq, queue, lastAcked, saving, nHello, nResend, replaying, todo,
                   replayOn, disk, ackedFile, dbAcked, applied, nextId, nVolatile, nConn,
                   evicted, forgot, suspect>>

\* agentd is killed and started again.  A cursor file caught mid-write is
\* empty, which LoadAckedSeq reads as 0.
AgentRestart ==
    /\ Fault("agent")
    /\ IF conn = None THEN UNCHANGED c2s ELSE LoseFrames(conn)
    /\ s2c' = [c \in Conns |-> <<>>]
    /\ \E acked \in {ackedFile} \cup {n \in {0} : saving # None} : Startup(disk, acked)
    /\ conn' = None /\ ready' = FALSE /\ saving' = None
    /\ nHello' = 0 /\ nResend' = 0
    /\ replaying' = FALSE /\ todo' = {} /\ replayOn' = None
    /\ suspect' = suspect \cup {x \in {"reuse"} : ServerReaches(seq')}
    /\ UNCHANGED <<serverVars, nextId, nVolatile, nConn, evicted>>

-----------------------------------------------------------------------------
AgentNext ==
    \/ SendDurable \/ SendVolatile \/ Connect \/ SendHello
    \/ StartReplay \/ ReplayEntry \/ EndReplay \/ RecvAck \/ SaveAck

ServerNext ==
    \/ \E c \in Conns :
        Authenticate(c) \/ AckRedelivery(c) \/ Handle(c) \/ FinishHandler(c)
    \/ Persist

FaultNext ==
    \/ Drop \/ ServerRestart \/ AgentRestart
    \/ \E c \in Conns : HandlerFails(c)

Next == AgentNext \/ ServerNext \/ FaultNext

Spec == Init /\ [][Next]_vars

\* agentd's goroutines and the control plane's event loop keep running; what
\* the producers and the environment do is up to them.
Fairness ==
    /\ WF_vars(Connect) /\ WF_vars(SendHello)
    /\ WF_vars(StartReplay) /\ WF_vars(ReplayEntry) /\ WF_vars(EndReplay)
    /\ WF_vars(RecvAck) /\ WF_vars(SaveAck)
    /\ \A c \in Conns :
        /\ WF_vars(Authenticate(c)) /\ WF_vars(AckRedelivery(c))
        /\ WF_vars(Handle(c)) /\ WF_vars(FinishHandler(c))
    /\ WF_vars(Persist)

FairSpec == Spec /\ Fairness

-----------------------------------------------------------------------------
\* Properties

TypeOK ==
    /\ seq \in Nat /\ lastAcked \in Nat /\ ackedFile \in Nat /\ saving \in Nat
    /\ queue \subseteq Entry /\ disk \subseteq Entry /\ todo \subseteq Entry
    /\ conn \in Conns \cup {None} /\ replayOn \in Conns \cup {None}
    /\ ready \in BOOLEAN /\ replaying \in BOOLEAN
    /\ nHello \in Nat /\ nResend \in Nat
    /\ c2s \in [Conns -> Seq(Frame)] /\ s2c \in [Conns -> Seq(Nat)]
    /\ phase \in [Conns -> {"none", "preauth", "open", "failed"}]
    /\ lastProc \in [Conns -> Nat] /\ inHandler \in [Conns -> Nat]
    /\ noted \in Nat /\ dbAcked \in Nat
    /\ applied \subseteq 1..MaxId /\ evicted \subseteq 1..MaxId /\ forgot \subseteq 1..MaxId
    /\ nextId \in 0..MaxId /\ nVolatile \in Nat /\ nConn \in Nat /\ nFaults \in Nat
    /\ suspect \subseteq {"straddle", "authBuffer", "reuse"}

\* A number agentd takes is above every number its queue, its queue file and
\* its saved cursor mention: a restart never issues two entries with one number
\* and never issues one its own cursor already covers.
CounterAboveLocal ==
    /\ lastAcked <= seq /\ ackedFile <= seq /\ saving <= seq
    /\ \A m \in queue \cup disk \cup todo : m.seq <= seq

\* What the agent forgets as acknowledged has been applied, whatever drops,
\* handler failures and restarts came before, unless a replay straddled two
\* connections, a frame was dropped during authentication, or a restart took
\* numbers the control plane had already seen.
AckedMeansApplied == suspect = {} => forgot = {}

\* Every durable message agentd accepted and that is not applied is still in
\* its queue, so that the next replay sends it, and in its queue file above the
\* saved cursor, so that a killed agentd finds it again.
NothingLost ==
    suspect = {} =>
        \A id \in 1..nextId :
            id \in applied \cup evicted
                \cup (Ids(queue) \cap Ids(Above(disk, ackedFile)))

\* The cursor a restarted control plane would resume from, and the one its
\* pending writes would set, never covers a queued message it has not applied.
CursorBehindEffects ==
    suspect = {} =>
        \A m \in queue :
            m.id \notin applied => m.seq > noted

\* A durable message is eventually applied (faults are finitely many).
EventuallyApplied ==
    \A id \in 1..MaxId :
        (id <= nextId) ~> (id \in applied \cup evicted \/ suspect # {})

\* An idle link forgets everything it sent: every queued message is eventually
\* acknowledged, lost acks notwithstanding.
QueueDrains == <>[](queue = {} \/ suspect # {})

\* docs/architecture.md: reconnection is "disruptive but not lossy".
NotLossy == forgot = {}

\* What agentd promises its producers, with its queue as the retained messages
\* and the control plane's database as the far end.
Channel == INSTANCE DurableChannel WITH
    Messages <- 1..MaxId,
    accepted <- 1..nextId,
    retained <- Ids(queue),
    delivered <- applied,
    dropped <- evicted,
    intact <- suspect = {}

\* The link implements that promise step by step, through every fault.
ImplementsChannel == Channel!Spec

\* The cursor a restarted control plane resumes from never goes back and never
\* passes the processed numbers, however late an older socket's progress comes.
Cursor == INSTANCE PersistedCursor WITH stored <- dbAcked
ImplementsCursor == Cursor!Spec
=============================================================================
