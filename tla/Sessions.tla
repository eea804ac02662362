------------------------------ MODULE Sessions ------------------------------
(***************************************************************************)
(* The sessions of one host: its tmux panes, what agentd keeps of them     *)
(* (cmd/agentd/main.go, orchestrator_api.go) and the rows of the control   *)
(* plane (db/index.ts), between them the durable queue of AgentLink as far *)
(* as it matters here: in order, with messages repeated from a cursor that *)
(* may lag, and a handler that fails stopping everything behind it.        *)
(*                                                                         *)
(* agentd compares the panes with its sessions at every poll, and reports  *)
(* what is new, changed or gone; commands, hooks and local spawns report   *)
(* sessions in between.  topologyMu keeps the poll apart from commands     *)
(* that make panes, but hooks, kills and renames build their report under  *)
(* a lock and send it later.  A prune names the sessions that have panes,  *)
(* and every reconnection has the whole inventory sent again.              *)
(*                                                                         *)
(* A definition placed just before another with the same parameters and no *)
(* use of its own is that definition with a plausible slip.                *)
(***************************************************************************)
EXTENDS Integers, Sequences, FiniteSets

CONSTANTS
    MaxPanes,      \* bound: panes that one tmux server opens
    None,          \* no session, no pane, no row
    Unused, Closed,     \* a pane id that has not been used, or no longer is
    Killed, Gone, Kept, \* what a report may say in place of a pane
    MaxSessions,   \* bound: sessions ever made
    MaxQueue,      \* bound: messages queued or unacknowledged
    MaxMoves       \* bound: hooks, faults, and what users do

ASSUME SessionsAssumption ==
    /\ MaxPanes \in Nat /\ MaxSessions \in Nat /\ MaxQueue \in Nat /\ MaxMoves \in Nat
    /\ {None, Unused, Closed, Killed, Gone, Kept} \cap Nat = {}
    /\ None \notin {Unused, Closed, Killed, Gone, Kept} /\ Unused # Closed
    /\ Killed \notin {Gone, Kept} /\ Gone # Kept

Panes == 1..MaxPanes
Ids == 1..MaxSessions
Rows == [archived : BOOLEAN, pane : Panes \cup {None, Killed}]

ASSUME RowAssumption == None \notin Rows

VARIABLES
    pane,      \* tmux: the session option of each open pane, or None
    parent,    \* the parent option, of the pane of each session
    known,     \* agentd: a.sessions, the pane of each; Killed for an empty one
    unmanaged, \* agentd: the sessions found in panes that users opened
    synced,    \* agentd: sessions as sessionUpsertState has them
    force,     \* agentd: forceSessionSync
    pruned,    \* agentd: lastPruneAt has been set since it started
    flight,    \* agentd: the reports built and not sent yet
    queue,     \* messages sent and not acknowledged
    done,      \* how many of them have been processed
    row,       \* control plane: the sessions table
    spawns,    \* spawn_session commands that have not been executed
    hidden,    \* sessions a user has hidden and agentd has not reported since
    made,      \* how many sessions have been made
    moves

tmux == <<pane, parent>>
agentd == <<known, unmanaged, synced, force, pruned, flight>>
link == <<queue, done>>
server == <<row, spawns, hidden>>
vars == <<tmux, agentd, link, server, made, moves>>

\* What a message says of the pane of a session: a pane, or that it has been
\* killed (the empty string), is gone (null, archived) or keeps its pane (omitted).
Upsert(of) == [type |-> "upsert", of |-> of]
Prune(keep) == [type |-> "prune", keep |-> keep]
Event(s) == [type |-> "event", id |-> s]
Shown(p) == [archived |-> FALSE, pane |-> p]
Archived(p) == [archived |-> TRUE, pane |-> p]

Init ==
    /\ pane = [p \in Panes |-> Unused] /\ parent = [s \in Ids |-> None]
    /\ known = [s \in Ids |-> None] /\ unmanaged = {} /\ synced = {}
    /\ force = TRUE /\ pruned = FALSE /\ flight = {}
    /\ queue = <<>> /\ done = 0
    /\ row = [s \in Ids |-> None] /\ spawns = {} /\ hidden = {}
    /\ made = 0 /\ moves = 0

IsOpen(p) == pane[p] \notin {Unused, Closed}
Open == {p \in Panes : IsOpen(p)}
Known == {s \in Ids : known[s] # None}
LivesIn(s, p) == pane[p] = s
Live(s) == \E p \in Panes : LivesIn(s, p)

\* Bound: an id is left for every pane that has none.
SpareId == made + Cardinality({p \in Open : pane[p] = None}) < MaxSessions
Move == moves < MaxMoves /\ moves' = moves + 1
Send(ms) ==
    /\ Len(queue) + Len(ms) <= MaxQueue
    /\ queue' = queue \o ms /\ UNCHANGED done

\* sessionUpsert, and that of the parent if it is known.
Report(s, at) ==
    [t \in {s} \cup ({parent[s]} \cap Known) |-> IF t = s THEN at ELSE known[t]]

-----------------------------------------------------------------------------
\* tmux.  Its pane ids count up, until the server is started again.
IsNext(p) == pane[p] = Unused /\ \A q \in 1..(p - 1) : pane[q] # Unused

UserOpens(p) ==
    /\ IsNext(p) /\ SpareId /\ pane' = [pane EXCEPT ![p] = None] /\ Move
    /\ UNCHANGED <<parent, agentd, link, server, made>>

Close(p) ==
    /\ IsOpen(p) /\ pane' = [pane EXCEPT ![p] = Closed]
    /\ UNCHANGED <<parent, agentd, link, server, made, moves>>

TmuxRestarts ==
    /\ pane' = [p \in Panes |-> Unused] /\ Move
    /\ UNCHANGED <<parent, agentd, link, server, made>>

-----------------------------------------------------------------------------
\* agentd.

\* The session of each pane: the one of its option, or for a pane without
\* the unmanaged one that agentd has for this pane id, or a new one.
Named(name) ==
    \A p \in Open :
        IF pane[p] # None THEN name[p] = pane[p]
        ELSE LET old == {s \in unmanaged : known[s] = p} IN
             IF old # {} THEN name[p] \in old
             ELSE /\ name[p] > made
                  /\ \A q \in Open \ {p} : name[q] # name[p]

Active(name) == {name[p] : p \in Open}
At(name) ==
    [s \in Ids |-> IF s \in Active(name) THEN CHOOSE p \in Open : name[p] = s
                   ELSE known[s]]
Stale(at) == {s \in Ids : at[s] # None /\ at[s] \notin Open}

\* What syncPanes reports: the sessions that are new or changed, which a new
\* process in the pane is too, and those whose pane is gone.
Unchanged(at) ==
    IF force THEN {} ELSE {s \in synced : at[s] \in Open /\ pane[at[s]] = s}
Changes(at, active) ==
    [s \in (active \ Unchanged(at)) \cup Stale(at) |->
        IF s \in active THEN at[s] ELSE Gone]

\* sessions.prune goes out at the first poll and then every five minutes
\* (bound: one at a time).
PruneDue(prune) ==
    /\ prune \in IF pruned THEN BOOLEAN ELSE {TRUE}
    /\ prune => \A i \in 1..Len(queue) : queue[i].type # "prune"

\* reconcileTmux: the poll.
Sync(prune) ==
    /\ PruneDue(prune) /\ force' = FALSE /\ pruned' = TRUE
    /\ UNCHANGED <<parent, flight, row, spawns, moves>>
    /\ \E name \in [Open -> Ids] :
         LET active == Active(name)
             at == At(name)
             of == Changes(at, active)
         IN
         /\ Named(name)
         /\ pane' = [p \in Panes |-> IF p \in Open THEN name[p] ELSE pane[p]]
         /\ known' = [s \in Ids |-> IF s \in Stale(at) THEN None ELSE at[s]]
         /\ unmanaged' = (unmanaged \cup {s \in active : s > made}) \ Stale(at)
         /\ made' \in made..MaxSessions
         /\ {s \in active : s > made} = (made + 1)..made'
         /\ synced' = (synced \cup active) \ Stale(at)
         /\ hidden' = hidden \ DOMAIN of
         /\ Send((IF DOMAIN of = {} THEN <<>> ELSE <<Upsert(of)>>)
                 \o (IF prune THEN <<Prune(active)>> ELSE <<>>))

\* Output or a new status: the next poll finds the session changed.
Changed(s) ==
    /\ known[s] # None /\ s \in synced /\ synced' = synced \ {s} /\ Move
    /\ UNCHANGED <<tmux, known, unmanaged, force, pruned, flight, link, server, made>>

\* executeSpawnSessionInteractive, executeSpawnSessionWorktree: the pane and
\* the report of its session under topologyMu, or an error and nothing.
Spawn(s, p) ==
    /\ s \in spawns /\ IsNext(p)
    /\ pane' = [pane EXCEPT ![p] = s] /\ known' = [known EXCEPT ![s] = p]
    /\ LET of == Report(s, p) IN
       Send(<<Upsert(of)>>) /\ hidden' = hidden \ {t \in DOMAIN of : of[t] \in Panes}
    /\ synced' = synced \ {s} /\ spawns' = spawns \ {s}
    /\ UNCHANGED <<parent, unmanaged, force, pruned, flight, row, made, moves>>

SpawnFails(s) ==
    /\ s \in spawns /\ spawns' = spawns \ {s}
    /\ UNCHANGED <<tmux, agentd, link, row, hidden, made, moves>>

\* agentOrchestratorBackend.Spawn, executeFork: a session of which the control
\* plane learns by its report.  The parent's pane may be gone, or (in a fork) its
\* session killed: agentd's record of it is enough.
SpawnChild(s, p) ==
    LET c == made + 1
        of == [t \in {s, c} |-> IF t = c THEN p ELSE known[s]]
    IN
    /\ s \in Known
    /\ IsNext(p) /\ SpareId
    /\ pane' = [pane EXCEPT ![p] = c] /\ parent' = [parent EXCEPT ![c] = s]
    /\ known' = [known EXCEPT ![c] = p] /\ made' = c
    /\ Send(<<Upsert(of)>>) /\ hidden' = {t \in hidden : t = s => known[s] \notin Panes}
    /\ UNCHANGED <<unmanaged, synced, force, pruned, flight, row, spawns, moves>>

\* executeAdoptPane: a session that agentd has for this pane id, or a new one.
Adopt(p) ==
    LET owners == {s \in Ids : known[s] = p} IN
    /\ IsOpen(p) /\ Move
    /\ owners # {} \/ pane[p] = None \/ SpareId
    /\ \E s \in IF owners # {} THEN owners ELSE {made + 1} \cap Ids :
         /\ pane' = [pane EXCEPT ![p] = s] /\ known' = [known EXCEPT ![s] = p]
         /\ unmanaged' = unmanaged \ {s} /\ synced' = synced \ {s}
         /\ made' = IF s > made THEN s ELSE made
         /\ Send(<<Upsert([t \in {s} |-> p])>>) /\ hidden' = hidden \ {s}
    /\ UNCHANGED <<parent, force, pruned, flight, row, spawns>>

\* executeKillSession.
Kill(s) ==
    /\ known[s] \in Open /\ flight = {} /\ Move
    /\ pane' = [pane EXCEPT ![known[s]] = Closed]
    /\ known' = [known EXCEPT ![s] = Killed] /\ synced' = synced \ {s}
    /\ flight' = {Report(s, Killed)}
    /\ UNCHANGED <<parent, unmanaged, force, pruned, link, server, made>>

\* updateSessionFromHook, and executeRenameSession, which omits the pane.
Hook(s) ==
    /\ known[s] # None /\ flight = {} /\ Move
    /\ flight' \in {{Report(s, known[s])}, {[t \in {s} |-> Kept]}}
    /\ synced' = synced \ {s}
    /\ UNCHANGED <<tmux, known, unmanaged, force, pruned, link, server, made>>

\* The report is sent, after whatever has happened since it was built.
Land ==
    /\ flight # {} /\ flight' = {}
    /\ \E of \in flight :
         /\ Send(<<Upsert(of)>>)
         /\ hidden' = hidden \ {s \in DOMAIN of : of[s] \in Panes}
    /\ UNCHANGED <<tmux, known, unmanaged, synced, force, pruned, row, spawns, made, moves>>

\* events.append of a hook.
Emit(s) ==
    /\ known[s] # None /\ Move /\ Send(<<Event(s)>>)
    /\ UNCHANGED <<tmux, agentd, server, made>>

AgentRestarts ==
    /\ known' = [s \in Ids |-> None] /\ unmanaged' = {} /\ synced' = {}
    /\ force' = TRUE /\ pruned' = FALSE /\ flight' = {} /\ Move
    /\ done' \in 0..done
    /\ UNCHANGED <<tmux, queue, server, made>>

-----------------------------------------------------------------------------
\* The link and the handlers of ws/agent.ts.

Ack ==
    /\ done > 0 /\ queue' = Tail(queue) /\ done' = done - 1
    /\ UNCHANGED <<tmux, agentd, server, made, moves>>

\* A new connection starts from a cursor that may lag, and has agentd send
\* its inventory again.
Reconnects ==
    /\ force' = TRUE /\ done' \in 0..done /\ Move
    /\ UNCHANGED <<tmux, known, unmanaged, synced, pruned, flight, queue, server, made>>

HasNext == done < Len(queue)
NextMessage == queue[done + 1]
Processed == done' = done + 1 /\ UNCHANGED force
\* The socket is closed without acknowledgement.
Failed == done' \in 0..done /\ force' = TRUE

\* upsertSession: a pane brings an archived session back, also the empty
\* one of a killed session, whose archived_at is overridden.
SavedArchived(old, at) ==
    IF at = Gone THEN Archived(None)
    ELSE IF at = Kept THEN IF old = None THEN Shown(None) ELSE old
    ELSE IF old = None THEN Shown(at) ELSE [old EXCEPT !.pane = at]
Saved(old, at) ==
    IF at = Gone THEN Archived(None)
    ELSE IF at = Kept THEN IF old = None THEN Shown(None) ELSE old
    ELSE Shown(at)

\* The parents named in the metadata, which comes with the pane.
Parents(of) ==
    {parent[s] : s \in {t \in DOMAIN of : of[t] \notin {Gone, Kept}}} \ {None}
Missing(of) == {q \in Parents(of) : row[q] = None}

\* handleSessionsUpsert: the rows of all of them, whatever fails; the edge to
\* a parent without a row does, unless its row comes before in the message.
HandleUpsert ==
    LET of == NextMessage.of IN
    /\ HasNext /\ NextMessage.type = "upsert"
    /\ row' = [s \in Ids |-> IF s \in DOMAIN of THEN Saved(row[s], of[s]) ELSE row[s]]
    /\ \/ Missing(of) \subseteq DOMAIN of /\ Processed
       \/ Missing(of) # {} /\ Failed
    /\ UNCHANGED <<tmux, known, unmanaged, synced, pruned, flight, queue,
                   spawns, hidden, made, moves>>

\* A query that fails: the rows of some of them.
HandlerFails ==
    /\ HasNext /\ Failed /\ Move
    /\ \/ UNCHANGED row
       \/ /\ NextMessage.type = "upsert"
          /\ \E some \in SUBSET DOMAIN NextMessage.of :
               row' = [s \in Ids |-> IF s \in some THEN Saved(row[s], NextMessage.of[s])
                                     ELSE row[s]]
    /\ UNCHANGED <<tmux, known, unmanaged, synced, pruned, flight, queue,
                   spawns, hidden, made>>

\* pruneHostSessions: also a row whose spawn is still on its way.
PrunedWithPane(s, keep) ==
    IF row[s] = None \/ s \in keep \/ row[s].pane = None THEN row[s]
    ELSE Archived(None)
Pruned(s, keep) ==
    IF row[s] = None \/ s \in keep \/ row[s].archived THEN row[s]
    ELSE Archived(None)
HandlePrune ==
    /\ HasNext /\ NextMessage.type = "prune" /\ Processed
    /\ row' = [s \in Ids |-> Pruned(s, NextMessage.keep)]
    /\ UNCHANGED <<tmux, known, unmanaged, synced, pruned, flight, queue,
                   spawns, hidden, made, moves>>

\* handleEventsAppend throws for a session without a row.
HandleEvent ==
    /\ HasNext /\ NextMessage.type = "event"
    /\ IF row[NextMessage.id] = None THEN Failed ELSE Processed
    /\ UNCHANGED <<tmux, known, unmanaged, synced, pruned, flight, queue,
                   server, made, moves>>

Handle == HandleUpsert \/ HandlePrune \/ HandleEvent

-----------------------------------------------------------------------------
\* The routes.

\* spawnSessionOnHost: the row, then the command, which may not come about.
RequestSpawn ==
    LET s == made + 1 IN
    /\ SpareId /\ made' = s /\ Move
    /\ row' = [row EXCEPT ![s] = Shown(None)]
    /\ parent' \in {parent} \cup {[parent EXCEPT ![s] = t] : t \in {u \in Ids : row[u] # None}}
    /\ spawns' \in {spawns, spawns \cup {s}}
    /\ UNCHANGED <<pane, agentd, link, hidden>>

Hide(s, as) == row' = [row EXCEPT ![s] = as] /\ hidden' = hidden \cup {s}

\* bulkArchiveSessions and archiveSessions; bulkUnarchiveSessions;
\* deleteSession and bulkDeleteSessions.
UserArchives(s) ==
    /\ row[s] # None /\ ~row[s].archived /\ Hide(s, Archived(row[s].pane)) /\ Move
    /\ UNCHANGED <<tmux, agentd, link, spawns, made>>
UserUnarchives(s) ==
    /\ row[s] # None /\ row[s].archived /\ Move
    /\ row' = [row EXCEPT ![s].archived = FALSE]
    /\ UNCHANGED <<tmux, agentd, link, spawns, hidden, made>>
UserDeletes(s) ==
    /\ row[s] # None /\ Hide(s, None) /\ Move
    /\ UNCHANGED <<tmux, agentd, link, spawns, made>>

-----------------------------------------------------------------------------
Next ==
    \/ \E p \in Panes : UserOpens(p) \/ Close(p) \/ Adopt(p)
    \/ TmuxRestarts \/ AgentRestarts
    \/ \E prune \in BOOLEAN : Sync(prune)
    \/ \E s \in Ids :
         \/ Changed(s) \/ SpawnFails(s) \/ Kill(s) \/ Hook(s) \/ Emit(s)
         \/ UserArchives(s) \/ UserUnarchives(s) \/ UserDeletes(s)
         \/ \E p \in Panes : Spawn(s, p) \/ SpawnChild(s, p)
    \/ Land \/ Ack \/ Reconnects \/ RequestSpawn
    \/ Handle \/ HandlerFails

Spec == Init /\ [][Next]_vars

\* The poll comes round to a prune again and again, the link works and comes
\* back, and a report that has been built is sent.
FairSpec ==
    /\ Spec
    /\ SF_vars(Sync(TRUE)) /\ WF_vars(Land) /\ WF_vars(Ack) /\ WF_vars(Handle)

-----------------------------------------------------------------------------
Reports == UNION {[some -> Panes \cup {Killed, Gone, Kept}] : some \in SUBSET Ids}
Messages ==
    [type : {"upsert"}, of : Reports] \cup [type : {"prune"}, keep : SUBSET Ids]
        \cup [type : {"event"}, id : Ids]

\* Every part of the state has its type.
TypeOK ==
    /\ pane \in [Panes -> Ids \cup {None, Unused, Closed}]
    /\ parent \in [Ids -> Ids \cup {None}]
    /\ known \in [Ids -> Panes \cup {None, Killed}]
    /\ unmanaged \subseteq Ids /\ synced \subseteq Ids
    /\ force \in BOOLEAN /\ pruned \in BOOLEAN
    /\ flight \subseteq Reports
    /\ queue \in Seq(Messages) /\ done \in 0..Len(queue)
    /\ row \in [Ids -> {None} \cup Rows]
    /\ spawns \subseteq Ids /\ hidden \subseteq Ids
    /\ made \in 0..MaxSessions /\ moves \in 0..MaxMoves

\* The handler of the next message fails every time: the row it needs is gone,
\* and what would make it again is behind it.
Blocked ==
    /\ HasNext
    /\ \/ NextMessage.type = "event" /\ row[NextMessage.id] = None
       \/ NextMessage.type = "upsert" /\ ~(Missing(NextMessage.of) \subseteq DOMAIN NextMessage.of)

IsShown(s) == row[s] # None /\ ~row[s].archived
ShownIn(s, p) == row[s] = Shown(p)

Shows(m, s, p) == m.type = "upsert" /\ s \in DOMAIN m.of /\ m.of[s] = p
Hides(m, s, p) ==
    \/ m.type = "prune" /\ s \notin m.keep
    \/ m.type = "upsert" /\ s \in DOMAIN m.of /\ m.of[s] \notin {p, Kept}
LastWord(s, p) ==
    \/ /\ ShownIn(s, p)
       /\ \A i \in (done + 1)..Len(queue) : ~Hides(queue[i], s, p)
    \/ \E i \in (done + 1)..Len(queue) :
         /\ Shows(queue[i], s, p)
         /\ \A j \in (i + 1)..Len(queue) : ~Hides(queue[j], s, p)

\* Whatever polls, prunes, spawns, repeats and late reports do to each other,
\* the last word of the queue on a session with a pane is that it is there,
\* unless a user has hidden it or the next poll says it again.
LiveIsComing ==
    \A s \in Ids, p \in Panes :
        LivesIn(s, p) /\ known[s] = p /\ s \in synced /\ ~force /\ s \notin hidden
            => LastWord(s, p)

\* The list comes right again and again: every session with a pane is shown
\* with it, unless a user has hidden it since it was last reported, and no
\* session without one, whatever has put it back; unless the link is blocked.
Agrees(s) ==
    IF Live(s) THEN s \in hidden \/ \E p \in Panes : LivesIn(s, p) /\ ShownIn(s, p)
    ELSE ~IsShown(s)
ListComesRight == []<>(Blocked \/ \A s \in Ids : Agrees(s))
=============================================================================
