--------------------------- MODULE SessionsProofs ---------------------------
(***************************************************************************)
(* Proofs about Sessions: its types, and that the last word on a session   *)
(* that lives is that it is there (LiveIsComing).                          *)
(*                                                                         *)
(* LiveIsComing looks at the row and the messages behind it, so a report   *)
(* that is late must not contradict them.  What makes this so is that a    *)
(* session has one pane in its life, and that nothing is said of its end   *)
(* before it is over: HomeInv and EndInv say it of tmux, of agentd's       *)
(* memory and of every report that is waiting or has not been forgotten.   *)
(***************************************************************************)
EXTENDS Sessions, FiniteSetTheorems, SequenceTheorems, TLAPS

\* The reports that are queued, and the one that is about to be.
Queued == {queue[i].of : i \in {j \in 1..Len(queue) : queue[j].type = "upsert"}}
Words == flight \cup Queued

\* Nothing has been said of a session that has not been made, or spawned.
Untouched(s) ==
    /\ known[s] = None /\ \A p \in Panes : pane[p] # s
    /\ \A of \in Words : s \notin DOMAIN of
FreshInv ==
    /\ \A s \in spawns : s <= made
    /\ \A s \in Ids : s > made \/ s \in spawns => Untouched(s)

\* A session has one pane, wherever it is named.
In(s, p) == pane[p] = s \/ known[s] = p
HomeInv ==
    \A s \in Ids, p, q \in Panes : In(s, p) =>
        /\ In(s, q) => p = q
        /\ \A of \in Words : s \in DOMAIN of /\ of[s] = q => p = q

\* A session whose end has been noted or reported has no pane, and will have none.
Over(s) ==
    /\ s <= made /\ s \notin spawns
    /\ \A p \in Panes : ~In(s, p)
EndInv ==
    /\ \A s \in Ids : known[s] = Killed => Over(s)
    /\ \A of \in Words, s \in Ids : s \in DOMAIN of /\ of[s] \in {Killed, Gone} => Over(s)

SyncedIsKnown == \A s \in synced : known[s] # None

NameInv == FreshInv /\ HomeInv /\ EndInv /\ SyncedIsKnown
Inv == TypeOK /\ NameInv /\ LiveIsComing

-----------------------------------------------------------------------------
\* Messages and reports.

Said == Panes \cup {Killed, Gone, Kept}

LEMMA ReportHas ==
    ASSUME NEW of \in Reports
    PROVE  DOMAIN of \subseteq Ids /\ \A s \in DOMAIN of : of[s] \in Said
    BY DEF Reports, Said

LEMMA ReportIs ==
    ASSUME NEW some \in SUBSET Ids, NEW of \in [some -> Said]
    PROVE  of \in Reports
    BY DEF Reports, Said

LEMMA UpsertIs == ASSUME NEW of \in Reports PROVE Upsert(of) \in Messages
    BY DEF Upsert, Messages

LEMMA MessageKinds ==
    ASSUME NEW m \in Messages
    PROVE  /\ m.type = "upsert" => m.of \in Reports
           /\ m.type = "prune" => m.keep \subseteq Ids
           /\ m.type = "event" => m.id \in Ids
           /\ m.type \in {"upsert", "prune", "event"}
    BY DEF Messages

LEMMA ValuesDiffer ==
    /\ \A p \in Panes : p \notin {None, Unused, Closed, Killed, Gone, Kept}
    /\ \A s \in Ids : s \notin {None, Unused, Closed, Killed, Gone, Kept}
    /\ Panes \subseteq Nat /\ Ids \subseteq Nat
    BY SessionsAssumption DEF Panes, Ids

\* sessionUpsert, with its parent, is a report.
LEMMA ReportTypes ==
    ASSUME TypeOK, NEW s \in Ids, NEW at \in Said
    PROVE  Report(s, at) \in Reports
<1> DEFINE some == {s} \cup ({parent[s]} \cap Known)
<1>1. some \in SUBSET Ids
    BY DEF Known
<1>2. \A t \in some : (IF t = s THEN at ELSE known[t]) \in Said
    BY DEF Known, TypeOK, Said
<1>3. Report(s, at) \in [some -> Said]
    BY <1>2 DEF Report
<1> QED BY <1>1, <1>3, ReportIs

\* Sending appends.
LEMMA SendTypes ==
    ASSUME TypeOK, NEW ms \in Seq(Messages), Send(ms)
    PROVE  /\ queue' \in Seq(Messages) /\ done' \in 0..Len(queue')
           /\ done' = done /\ queue' = queue \o ms
           /\ Len(queue') = Len(queue) + Len(ms)
           /\ \A i \in 1..Len(queue) : queue'[i] = queue[i]
           /\ \A i \in 1..Len(ms) : queue'[Len(queue) + i] = ms[i]
    BY DEF TypeOK, Send

LEMMA OneTypes ==
    ASSUME TypeOK, NEW m \in Messages, Send(<<m>>)
    PROVE  /\ queue' \in Seq(Messages) /\ done' \in 0..Len(queue')
           /\ done' = done /\ Len(queue') = Len(queue) + 1
           /\ \A i \in 1..Len(queue) : queue'[i] = queue[i]
           /\ queue'[Len(queue) + 1] = m
<1>1. <<m>> \in Seq(Messages) /\ Len(<<m>>) = 1 /\ <<m>>[1] = m
    OBVIOUS
<1> HIDE DEF TypeOK
<1>2. /\ queue' \in Seq(Messages) /\ done' \in 0..Len(queue')
      /\ done' = done /\ Len(queue') = Len(queue) + Len(<<m>>)
      /\ \A i \in 1..Len(queue) : queue'[i] = queue[i]
      /\ \A i \in 1..Len(<<m>>) : queue'[Len(queue) + i] = <<m>>[i]
    BY <1>1, SendTypes
<1> QED BY <1>1, <1>2

-----------------------------------------------------------------------------
\* Types.

\* A session may be made while there is room for it.
LEMMA SpareMeans == ASSUME TypeOK, SpareId PROVE made + 1 \in Ids
<1> DEFINE bare == {p \in Open : pane[p] = None}
<1>1. IsFiniteSet(Panes)
    BY SessionsAssumption, FS_Interval DEF Panes
<1>2. IsFiniteSet(bare)
    BY <1>1, FS_Subset DEF Open
<1>3. Cardinality(bare) \in Nat
    BY <1>2, FS_CardinalityType
<1> QED BY <1>3, SessionsAssumption DEF SpareId, TypeOK, Ids

Row == {None} \cup Rows

LEMMA SavedTypes ==
    ASSUME NEW old \in Row, NEW at \in Said
    PROVE  Saved(old, at) \in Row
<1>1. CASE at = Gone
    BY <1>1 DEF Row, Rows, Saved, Archived
<1>2. CASE at = Kept
    BY <1>2, SessionsAssumption DEF Row, Rows, Saved, Shown
<1>3. CASE at \in Panes \cup {Killed}
    BY <1>3, ValuesDiffer, SessionsAssumption DEF Row, Rows, Saved, Shown
<1> QED BY <1>1, <1>2, <1>3 DEF Said

LEMMA TypeInit == Init => TypeOK
<1> SUFFICES ASSUME Init PROVE TypeOK
    OBVIOUS
<1>1. queue \in Seq(Messages) /\ done \in 0..Len(queue)
    BY DEF Init
<1>2. row \in [Ids -> {None} \cup Rows]
    BY DEF Init
<1>3. made \in 0..MaxSessions /\ moves \in 0..MaxMoves
    BY SessionsAssumption DEF Init
<1> QED BY <1>1, <1>2, <1>3 DEF Init, TypeOK

\* The steps of tmux and of the users, and those of agentd that send nothing.
QuietNext ==
    \/ TmuxRestarts \/ AgentRestarts
    \/ \E p \in Panes : UserOpens(p) \/ Close(p)
    \/ \E s \in Ids :
         \/ Changed(s) \/ SpawnFails(s) \/ Kill(s) \/ Hook(s)
         \/ UserArchives(s) \/ UserUnarchives(s) \/ UserDeletes(s)
    \/ RequestSpawn

LEMMA QuietTypes == ASSUME TypeOK, QuietNext PROVE TypeOK'
<1> USE DEF tmux, agentd, link, server, Move
<1>0. queue \in Seq(Messages) /\ Len(queue) \in Nat /\ done \in 0..Len(queue)
    BY DEF TypeOK
<1>1. CASE TmuxRestarts
    BY <1>1, SessionsAssumption DEF TmuxRestarts, TypeOK
<1>2. CASE AgentRestarts
    <2>1. done' \in 0..Len(queue') /\ queue' \in Seq(Messages) /\ moves' \in 0..MaxMoves
        BY <1>0, <1>2, SessionsAssumption DEF AgentRestarts, TypeOK
    <2>2. /\ known' \in [Ids -> Panes \cup {None, Killed}] /\ flight' \subseteq Reports
          /\ unmanaged' \subseteq Ids /\ synced' \subseteq Ids
          /\ force' \in BOOLEAN /\ pruned' \in BOOLEAN
        BY <1>2 DEF AgentRestarts
    <2> QED BY <1>2, <2>1, <2>2 DEF AgentRestarts, TypeOK
<1>3. ASSUME NEW p \in Panes, UserOpens(p) \/ Close(p) PROVE TypeOK'
    BY <1>3, SessionsAssumption DEF UserOpens, Close, TypeOK
<1>4. ASSUME NEW s \in Ids, Changed(s) \/ SpawnFails(s) PROVE TypeOK'
    BY <1>4, SessionsAssumption DEF Changed, SpawnFails, TypeOK
<1>5. ASSUME NEW s \in Ids, Kill(s) PROVE TypeOK'
    <2>1. Report(s, Killed) \in Reports
        BY ReportTypes DEF Said
    <2>2. known[s] \in Panes
        BY <1>5 DEF Kill, Open
    <2> QED BY <1>5, <2>1, <2>2, SessionsAssumption DEF Kill, TypeOK
<1>6. ASSUME NEW s \in Ids, Hook(s) PROVE TypeOK'
    <2>1. known[s] \in Said
        BY <1>6 DEF Hook, TypeOK, Said
    <2>2. Report(s, known[s]) \in Reports
        BY <2>1, ReportTypes
    <2>3. [t \in {s} |-> Kept] \in Reports
        BY ReportIs, [t \in {s} |-> Kept] \in [{s} -> Said] DEF Said
    <2> QED BY <1>6, <2>2, <2>3, SessionsAssumption DEF Hook, TypeOK
<1>7. ASSUME NEW s \in Ids, UserArchives(s) \/ UserUnarchives(s) \/ UserDeletes(s)
      PROVE  TypeOK'
    <2>1. row \in [Ids -> Row]
        BY DEF TypeOK, Row
    <2>2. row[s] # None => row[s] \in Rows
        BY <2>1 DEF Row
    <2>3. CASE UserArchives(s)
        <3>1. Archived(row[s].pane) \in Row
            BY <2>2, <2>3 DEF UserArchives, Archived, Row, Rows
        <3>2. row' \in [Ids -> Row]
            BY <2>1, <2>3, <3>1 DEF UserArchives, Hide
        <3> QED BY <2>3, <3>2, SessionsAssumption DEF UserArchives, Hide, TypeOK, Row
    <2>4. CASE UserUnarchives(s)
        <3>1. [row[s] EXCEPT !.archived = FALSE] \in Row
            BY <2>2, <2>4 DEF UserUnarchives, Row, Rows
        <3>2. row' \in [Ids -> Row]
            BY <2>1, <2>4, <3>1 DEF UserUnarchives
        <3> QED BY <2>4, <3>2, SessionsAssumption DEF UserUnarchives, TypeOK, Row
    <2>5. CASE UserDeletes(s)
        <3>1. row' \in [Ids -> Row]
            BY <2>1, <2>5 DEF UserDeletes, Hide, Row
        <3> QED BY <2>5, <3>1, SessionsAssumption DEF UserDeletes, Hide, TypeOK, Row
    <2> QED BY <1>7, <2>3, <2>4, <2>5
<1>8. CASE RequestSpawn
    <2>1. made + 1 \in Ids
        BY <1>8, SpareMeans DEF RequestSpawn
    <2>2. made' \in 0..MaxSessions
        BY <1>8, <2>1, SessionsAssumption DEF RequestSpawn, Ids
    <2>3. parent' \in [Ids -> Ids \cup {None}]
        BY <1>8, <2>1 DEF RequestSpawn, TypeOK
    <2>4. row' \in [Ids -> Row]
        BY <1>8, <2>1 DEF RequestSpawn, TypeOK, Row, Rows, Shown
    <2>5. spawns' \subseteq Ids
        BY <1>8, <2>1 DEF RequestSpawn, TypeOK
    <2> QED BY <1>8, <2>2, <2>3, <2>4, <2>5, SessionsAssumption DEF RequestSpawn, TypeOK, Row
<1> QED BY <1>1, <1>2, <1>3, <1>4, <1>5, <1>6, <1>7, <1>8 DEF QuietNext

\* The steps of the link and its handlers.
HandlerNext == Ack \/ Reconnects \/ Handle \/ HandlerFails

LEMMA StepTypes ==
    ASSUME TypeOK, HasNext, Processed \/ Failed
    PROVE  done' \in 0..Len(queue) /\ force' \in BOOLEAN
<1>1. Len(queue) \in Nat /\ done \in 0..Len(queue) /\ force \in BOOLEAN
    BY DEF TypeOK
<1>2. CASE Processed
    BY <1>1, <1>2 DEF Processed, HasNext
<1>3. CASE Failed
    BY <1>1, <1>3 DEF Failed
<1> QED BY <1>2, <1>3

LEMMA HandlerTypes == ASSUME TypeOK, HandlerNext PROVE TypeOK'
<1> USE DEF tmux, agentd, link, server, Move
<1>0. queue \in Seq(Messages) /\ Len(queue) \in Nat /\ done \in 0..Len(queue)
    BY DEF TypeOK
<1>1. CASE Ack
    <2>1. queue' \in Seq(Messages) /\ Len(queue') = Len(queue) - 1
        BY <1>0, <1>1 DEF Ack
    <2> QED BY <1>0, <1>1, <2>1 DEF Ack, TypeOK
<1>2. CASE Reconnects
    BY <1>0, <1>2, SessionsAssumption DEF Reconnects, TypeOK
<1>3. HasNext => NextMessage \in Messages
    BY <1>0 DEF HasNext, NextMessage
<1>4. ASSUME HasNext, NextMessage.type = "upsert", NEW some \in SUBSET DOMAIN NextMessage.of
      PROVE  [s \in Ids |-> IF s \in some THEN Saved(row[s], NextMessage.of[s]) ELSE row[s]]
                 \in [Ids -> Row]
    <2>1. NextMessage.of \in Reports
        BY <1>3, <1>4, MessageKinds
    <2> QED BY <1>4, <2>1, ReportHas, SavedTypes DEF TypeOK, Row
<1>5. CASE HandleUpsert
    <2>1. row' \in [Ids -> Row]
        BY <1>4, <1>5 DEF HandleUpsert
    <2>2. done' \in 0..Len(queue) /\ force' \in BOOLEAN
        BY <1>5, StepTypes DEF HandleUpsert
    <2> QED BY <1>5, <2>1, <2>2 DEF HandleUpsert, TypeOK, Row
<1>6. CASE HandlerFails
    <2>1. row' \in [Ids -> Row]
        BY <1>4, <1>6 DEF HandlerFails, TypeOK, Row
    <2>2. done' \in 0..Len(queue) /\ force' \in BOOLEAN
        BY <1>6, StepTypes DEF HandlerFails
    <2> QED BY <1>6, <2>1, <2>2, SessionsAssumption DEF HandlerFails, TypeOK, Row
<1>7. CASE HandlePrune
    <2>1. row' \in [Ids -> Row]
        BY <1>7 DEF HandlePrune, Pruned, Archived, TypeOK, Row, Rows
    <2>2. done' \in 0..Len(queue) /\ force' \in BOOLEAN
        BY <1>7, StepTypes DEF HandlePrune
    <2> QED BY <1>7, <2>1, <2>2 DEF HandlePrune, TypeOK, Row
<1>8. CASE HandleEvent
    <2>1. done' \in 0..Len(queue) /\ force' \in BOOLEAN
        BY <1>8, StepTypes DEF HandleEvent
    <2> QED BY <1>8, <2>1 DEF HandleEvent, TypeOK
<1> QED BY <1>1, <1>2, <1>5, <1>6, <1>7, <1>8 DEF HandlerNext, Handle

\* The steps that send.
LEMMA SendingTypes ==
    ASSUME TypeOK, queue' \in Seq(Messages), done' \in 0..Len(queue'),
           pane' \in [Panes -> Ids \cup {None, Unused, Closed}],
           parent' \in [Ids -> Ids \cup {None}],
           known' \in [Ids -> Panes \cup {None, Killed}],
           unmanaged' \subseteq Ids, synced' \subseteq Ids,
           force' \in BOOLEAN, pruned' \in BOOLEAN, flight' \subseteq Reports,
           spawns' \subseteq Ids, hidden' \subseteq Ids,
           made' \in 0..MaxSessions, moves' \in 0..MaxMoves, row' = row
    PROVE  TypeOK'
    BY DEF TypeOK

LEMMA ChildReport ==
    ASSUME TypeOK, NEW s \in Ids, NEW c \in Ids, NEW p \in Panes, s \in Known
    PROVE  [t \in {s, c} |-> IF t = c THEN p ELSE known[s]] \in Reports
<1>1. [t \in {s, c} |-> IF t = c THEN p ELSE known[s]] \in [{s, c} -> Said]
    BY DEF Said, TypeOK, Known
<1> QED BY <1>1, ReportIs

LEMMA OneReport ==
    ASSUME NEW s \in Ids, NEW at \in Said
    PROVE  [t \in {s} |-> at] \in Reports
<1>1. [t \in {s} |-> at] \in [{s} -> Said]
    OBVIOUS
<1> QED BY <1>1, ReportIs

LEMMA SpawnTypes == ASSUME TypeOK, NEW s \in Ids, NEW p \in Panes, Spawn(s, p) PROVE TypeOK'
<1> USE DEF tmux, agentd, link, server, Move
<1>1. Report(s, p) \in Reports
    BY ReportTypes DEF Said
<1>2. queue' \in Seq(Messages) /\ done' \in 0..Len(queue')
    BY <1>1, UpsertIs, OneTypes DEF Spawn
<1>3. pane' \in [Panes -> Ids \cup {None, Unused, Closed}] /\ known' \in [Ids -> Panes \cup {None, Killed}]
    BY DEF Spawn, TypeOK
<1> QED BY <1>2, <1>3, SendingTypes DEF Spawn, TypeOK

LEMMA ChildTypes == ASSUME TypeOK, NEW s \in Ids, NEW p \in Panes, SpawnChild(s, p) PROVE TypeOK'
<1> USE DEF tmux, agentd, link, server, Move
<1>1. made + 1 \in Ids
    BY SpareMeans DEF SpawnChild
<1>2. [t \in {s, made + 1} |-> IF t = made + 1 THEN p ELSE known[s]] \in Reports
    BY <1>1, ChildReport DEF SpawnChild
<1>3. queue' \in Seq(Messages) /\ done' \in 0..Len(queue')
    BY <1>2, UpsertIs, OneTypes DEF SpawnChild
<1>4. /\ pane' \in [Panes -> Ids \cup {None, Unused, Closed}]
      /\ known' \in [Ids -> Panes \cup {None, Killed}]
      /\ parent' \in [Ids -> Ids \cup {None}]
    BY <1>1 DEF SpawnChild, TypeOK
<1>5. made' \in 0..MaxSessions
    BY <1>1, SessionsAssumption DEF SpawnChild, Ids
<1> QED BY <1>3, <1>4, <1>5, SendingTypes DEF SpawnChild, TypeOK

LEMMA AdoptTypes == ASSUME TypeOK, NEW p \in Panes, Adopt(p) PROVE TypeOK'
<1> USE DEF tmux, agentd, link, server, Move
<1>1. PICK t \in IF {u \in Ids : known[u] = p} # {} THEN {u \in Ids : known[u] = p} ELSE {made + 1} \cap Ids :
         /\ pane' = [pane EXCEPT ![p] = t] /\ known' = [known EXCEPT ![t] = p]
         /\ unmanaged' = unmanaged \ {t} /\ synced' = synced \ {t}
         /\ made' = IF t > made THEN t ELSE made
         /\ Send(<<Upsert([u \in {t} |-> p])>>) /\ hidden' = hidden \ {t}
    BY DEF Adopt
<1>2. t \in Ids
    BY <1>1
<1>3. queue' \in Seq(Messages) /\ done' \in 0..Len(queue')
    BY <1>1, <1>2, OneReport, UpsertIs, OneTypes DEF Said
<1>4. /\ pane' \in [Panes -> Ids \cup {None, Unused, Closed}]
      /\ known' \in [Ids -> Panes \cup {None, Killed}]
    BY <1>1, <1>2 DEF TypeOK
<1>5. made' \in 0..MaxSessions
    BY <1>1, <1>2, SessionsAssumption DEF Ids, TypeOK
<1>6. moves' \in 0..MaxMoves
    BY SessionsAssumption DEF Adopt, TypeOK
<1> QED BY <1>1, <1>3, <1>4, <1>5, <1>6, SendingTypes DEF Adopt, TypeOK

LEMMA EmitTypes == ASSUME TypeOK, NEW s \in Ids, Emit(s) PROVE TypeOK'
<1> USE DEF tmux, agentd, link, server, Move
<1>1. Event(s) \in Messages
    BY DEF Event, Messages
<1>2. queue' \in Seq(Messages) /\ done' \in 0..Len(queue')
    BY <1>1, OneTypes DEF Emit
<1>3. moves' \in 0..MaxMoves
    BY SessionsAssumption DEF Emit, TypeOK
<1> QED BY <1>2, <1>3, SendingTypes DEF Emit, TypeOK

LEMMA LandTypes == ASSUME TypeOK, Land PROVE TypeOK'
<1> USE DEF tmux, agentd, link, server, Move
<1>1. PICK of \in flight : /\ Send(<<Upsert(of)>>)
                           /\ hidden' = hidden \ {t \in DOMAIN of : of[t] \in Panes}
    BY DEF Land
<1>2. Upsert(of) \in Messages
    BY UpsertIs DEF TypeOK
<1>3. queue' \in Seq(Messages) /\ done' \in 0..Len(queue')
    BY <1>1, <1>2, OneTypes
<1> QED BY <1>1, <1>3, SendingTypes DEF Land, TypeOK

\* What a poll does: the sessions it finds, the pane of each, those whose pane
\* is gone, and the report.
Polls(prune, active, at, stale, of) ==
    /\ \A s \in active : at[s] \in Open /\ pane'[at[s]] = s
    /\ \A s \in Ids \ active : at[s] = known[s]
    /\ \A s \in Ids, p \in Panes : pane'[p] = s =>
         /\ s \in active /\ p \in Open
         /\ In(s, p) \/ (s > made /\ \A q \in Panes : pane'[q] = s => q = p)
    /\ stale = {s \in Ids : at[s] # None /\ at[s] \notin Open}
    /\ DOMAIN of = (active \ Unchanged(at)) \cup stale
    /\ \A s \in DOMAIN of : of[s] = IF s \in active THEN at[s] ELSE Gone
    /\ known' = [s \in Ids |-> IF s \in stale THEN None ELSE at[s]]
    /\ synced' = (synced \cup active) \ stale /\ hidden' = hidden \ DOMAIN of
    /\ unmanaged' \subseteq unmanaged \cup active
    /\ made' \in made..MaxSessions /\ {s \in active : s > made} = (made + 1)..made'
    /\ Send((IF DOMAIN of = {} THEN <<>> ELSE <<Upsert(of)>>)
            \o (IF prune THEN <<Prune(active)>> ELSE <<>>))

LEMMA PollIs ==
    ASSUME TypeOK, NEW prune \in BOOLEAN, Sync(prune)
    PROVE  \E active \in SUBSET Ids, at \in [Ids -> Panes \cup {None, Killed}],
              stale \in SUBSET Ids, of \in Reports :
                 Polls(prune, active, at, stale, of)
<1>1. PICK name \in [Open -> Ids] :
         LET active == Active(name)
             at == At(name)
             of == Changes(at, active)
         IN
         /\ Named(name)
         /\ pane' = [p \in Panes |-> IF p \in Open THEN name[p] ELSE pane[p]]
         /\ known' = [s \in Ids |-> IF s \in Stale(at) THEN None ELSE at[s]]
         /\ unmanaged' = (unmanaged \cup {s \in active : s > made}) \ Stale(at)
         /\ made' \in made..MaxSessions
         /\ {s \in active : s > made} = (made + 1)..made'
         /\ synced' = (synced \cup active) \ Stale(at)
         /\ hidden' = hidden \ DOMAIN of
         /\ Send((IF DOMAIN of = {} THEN <<>> ELSE <<Upsert(of)>>)
                 \o (IF prune THEN <<Prune(active)>> ELSE <<>>))
    BY DEF Sync
<1> DEFINE active == Active(name)
           at == At(name)
           of == Changes(at, active)
<1>2. active \subseteq Ids /\ \A s \in active : at[s] \in Open /\ name[at[s]] = s
    BY DEF Active, At
<1>3. at \in [Ids -> Panes \cup {None, Killed}]
    BY DEF At, Active, Open, TypeOK
<1>4. Stale(at) \subseteq Ids
    BY DEF Stale
<1>5. of \in Reports
    <2> DEFINE some == (active \ Unchanged(at)) \cup Stale(at)
    <2>1. some \in SUBSET Ids
        BY <1>2, <1>4
    <2>2. \A s \in some : (IF s \in active THEN at[s] ELSE Gone) \in Said
        BY <1>2 DEF Said, Open
    <2>3. of \in [some -> Said]
        BY <2>2 DEF Changes
    <2> QED BY <2>1, <2>3, ReportIs
<1>6. \A s \in Ids \ active : at[s] = known[s]
    BY DEF At
<1>7. DOMAIN of = (active \ Unchanged(at)) \cup Stale(at)
      /\ \A s \in DOMAIN of : of[s] = IF s \in active THEN at[s] ELSE Gone
    BY DEF Changes
<1>8. \A s \in active : pane'[at[s]] = s
    BY <1>1, <1>2 DEF Open
<1>9. ASSUME NEW s \in Ids, NEW p \in Panes, pane'[p] = s
      PROVE  /\ s \in active /\ p \in Open
             /\ In(s, p) \/ (s > made /\ \A q \in Panes : pane'[q] = s => q = p)
    <2>1. \A q \in Panes : pane'[q] = s => q \in Open /\ name[q] = s
        BY <1>1, ValuesDiffer DEF Open, IsOpen
    <2>2. p \in Open /\ name[p] = s /\ s \in active
        BY <1>9, <2>1 DEF Active
    <2>3. CASE pane[p] # None
        BY <1>1, <2>2, <2>3 DEF Named, In
    <2>4. CASE pane[p] = None /\ {t \in unmanaged : known[t] = p} # {}
        BY <1>1, <2>2, <2>4 DEF Named, In
    <2>5. CASE pane[p] = None /\ {t \in unmanaged : known[t] = p} = {}
        <3>1. name[p] > made /\ \A q \in Open \ {p} : name[q] # name[p]
            BY <1>1, <2>2, <2>5 DEF Named
        <3> QED BY <2>1, <2>2, <3>1
    <2> QED BY <2>2, <2>3, <2>4, <2>5
<1>10. Polls(prune, active, at, Stale(at), of)
    <2>1. \A s \in active : at[s] \in Open /\ pane'[at[s]] = s
        BY <1>2, <1>8
    <2>2. Stale(at) = {s \in Ids : at[s] # None /\ at[s] \notin Open}
        BY DEF Stale
    <2> HIDE DEF active, at, of
    <2> QED BY <1>1, <1>6, <1>7, <1>9, <2>1, <2>2 DEF Polls, active, at, of
<1> HIDE DEF active, at, of
<1> QED BY <1>2, <1>3, <1>4, <1>5, <1>10

LEMMA PollTypes == ASSUME TypeOK, NEW prune \in BOOLEAN, Sync(prune) PROVE TypeOK'
<1>1. PICK active \in SUBSET Ids, at \in [Ids -> Panes \cup {None, Killed}],
           stale \in SUBSET Ids, of \in Reports :
              Polls(prune, active, at, stale, of)
    BY PollIs
<1> DEFINE first == IF DOMAIN of = {} THEN <<>> ELSE <<Upsert(of)>>
           last == IF prune THEN <<Prune(active)>> ELSE <<>>
<1>2. first \in Seq(Messages)
    BY UpsertIs
<1>3. last \in Seq(Messages)
    <2>1. Prune(active) \in Messages
        BY DEF Prune, Messages
    <2> QED BY <2>1
<1>4. first \o last \in Seq(Messages) /\ Send(first \o last)
    BY <1>1, <1>2, <1>3 DEF Polls
<1>5. queue' \in Seq(Messages) /\ done' \in 0..Len(queue')
    BY <1>4, SendTypes
<1>6. pane' \in [Panes -> Ids \cup {None, Unused, Closed}]
    BY DEF Sync, TypeOK, Open
<1>7. known' \in [Ids -> Panes \cup {None, Killed}]
    BY <1>1 DEF Polls
<1>8. unmanaged' \subseteq Ids /\ synced' \subseteq Ids /\ hidden' \subseteq Ids
    BY <1>1 DEF Polls, TypeOK
<1>9. made' \in 0..MaxSessions
    BY <1>1, SessionsAssumption DEF Polls, TypeOK
<1> QED BY <1>5, <1>6, <1>7, <1>8, <1>9, SendingTypes DEF Sync, TypeOK

LEMMA TypeNext == TypeOK /\ [Next]_vars => TypeOK'
<1> SUFFICES ASSUME TypeOK, [Next]_vars PROVE TypeOK'
    OBVIOUS
<1>1. CASE UNCHANGED vars
    BY <1>1 DEF vars, tmux, agentd, link, server, TypeOK
<1>2. CASE QuietNext
    BY <1>2, QuietTypes
<1>3. CASE HandlerNext
    BY <1>3, HandlerTypes
<1>4. CASE \E prune \in BOOLEAN : Sync(prune)
    BY <1>4, PollTypes
<1>5. ASSUME NEW s \in Ids, NEW p \in Panes, Spawn(s, p) \/ SpawnChild(s, p) PROVE TypeOK'
    BY <1>5, SpawnTypes, ChildTypes
<1>6. CASE Land \/ (\E p \in Panes : Adopt(p)) \/ (\E s \in Ids : Emit(s))
    BY <1>6, LandTypes, AdoptTypes, EmitTypes
<1> QED BY <1>1, <1>2, <1>3, <1>4, <1>5, <1>6 DEF Next, QuietNext, HandlerNext

\* Every part of the state has its type.
THEOREM TypeCorrect == Spec => []TypeOK
    BY TypeInit, TypeNext, PTL DEF Spec

-----------------------------------------------------------------------------
\* What is said of a session is true of its life.

Fresh(s) == s > made \/ s \in spawns

LEMMA FreshIsUntouched ==
    ASSUME NameInv, NEW s \in Ids, Fresh(s)
    PROVE  known[s] = None /\ (\A p \in Panes : ~In(s, p)) /\ (\A of \in Words : s \notin DOMAIN of)
<1>1. Untouched(s)
    BY DEF NameInv, FreshInv, Fresh
<1> QED BY <1>1, ValuesDiffer DEF Untouched, In

LEMMA WordsAreReports == ASSUME TypeOK, NEW of \in Words PROVE of \in Reports
<1>1. CASE of \in flight
    BY <1>1 DEF TypeOK
<1>2. CASE of \in Queued
    <2>1. PICK i \in 1..Len(queue) : queue[i].type = "upsert" /\ of = queue[i].of
        BY <1>2 DEF Queued
    <2>2. queue[i] \in Messages
        BY <2>1 DEF TypeOK
    <2> QED BY <2>1, <2>2, MessageKinds
<1> QED BY <1>1, <1>2 DEF Words

\* A step keeps NameInv if it gives only fresh sessions a pane, and one, and
\* if what it newly says is true before it or after.
LEMMA NameStep ==
    ASSUME TypeOK, TypeOK', NameInv, NEW News \in SUBSET Reports,
           Words' \subseteq Words \cup News,
           made <= made', \A s \in spawns' : s <= made',
           \A s \in Ids : Fresh(s)' =>
               /\ Fresh(s) /\ known'[s] = None /\ \A p \in Panes : pane'[p] # s
               /\ \A of \in News : s \notin DOMAIN of,
           \A s \in Ids, p \in Panes : In(s, p)' =>
               In(s, p) \/ (Fresh(s) /\ \A q \in Panes : In(s, q)' => q = p),
           \A of \in News : \A s \in DOMAIN of :
               /\ of[s] \in Panes => In(s, of[s]) \/ In(s, of[s])'
               /\ of[s] \in {Killed, Gone} => Over(s) \/ Over(s)',
           \A s \in Ids : known'[s] = Killed => known[s] = Killed \/ Over(s)',
           \A s \in synced' : known'[s] # None
    PROVE  NameInv'
<1>1. FreshInv'
    <2> SUFFICES ASSUME NEW s \in Ids, Fresh(s)' PROVE Untouched(s)'
        BY DEF FreshInv, Fresh
    <2>1. \A of \in Words : s \notin DOMAIN of
        BY FreshIsUntouched
    <2> QED BY <2>1 DEF Untouched
<1>2. ASSUME NEW s \in Ids, NEW p \in Panes, NEW q \in Panes, In(s, p)', In(s, q) \/ In(s, q)'
      PROVE  p = q
    <2>1. CASE Fresh(s)
        BY <1>2, <2>1, FreshIsUntouched
    <2>2. CASE ~Fresh(s)
        BY <1>2, <2>2 DEF NameInv, HomeInv
    <2> QED BY <2>1, <2>2
<1>3. HomeInv'
    <2> SUFFICES ASSUME NEW s \in Ids, NEW p \in Panes, NEW q \in Panes, In(s, p)',
                        NEW of \in Words', s \in DOMAIN of, of[s] = q
                 PROVE  p = q
        BY <1>2 DEF HomeInv
    <2>1. CASE of \in News
        BY <1>2, <2>1
    <2>2. CASE of \in Words
        <3>1. ~Fresh(s)
            BY <2>2, FreshIsUntouched
        <3> QED BY <2>2, <3>1 DEF NameInv, HomeInv
    <2> QED BY <2>1, <2>2
<1>4. ASSUME NEW s \in Ids, Over(s) PROVE Over(s)'
    <2>1. ~Fresh(s) /\ s <= made'
        BY <1>4, SessionsAssumption DEF Over, Fresh, TypeOK, Ids
    <2> QED BY <1>4, <2>1 DEF Over, Fresh
<1>5. EndInv'
    <2>1. ASSUME NEW s \in Ids, known'[s] = Killed PROVE Over(s)'
        BY <1>4, <2>1 DEF NameInv, EndInv
    <2>2. ASSUME NEW of \in Words', NEW s \in Ids, s \in DOMAIN of, of[s] \in {Killed, Gone}
          PROVE  Over(s)'
        BY <1>4, <2>2 DEF NameInv, EndInv
    <2> QED BY <2>1, <2>2 DEF EndInv
<1> QED BY <1>1, <1>3, <1>5 DEF NameInv, SyncedIsKnown

\* A step that says one thing.
LEMMA NameOne ==
    ASSUME TypeOK, TypeOK', NameInv, NEW of \in Reports,
           Words' \subseteq Words \cup {of},
           made <= made', \A s \in spawns' : s <= made',
           \A s \in Ids : Fresh(s)' =>
               /\ Fresh(s) /\ known'[s] = None /\ s \notin DOMAIN of
               /\ \A p \in Panes : pane'[p] # s,
           \A s \in Ids, p \in Panes : In(s, p)' =>
               In(s, p) \/ (Fresh(s) /\ \A q \in Panes : In(s, q)' => q = p),
           \A s \in DOMAIN of :
               /\ of[s] \in Panes => In(s, of[s]) \/ In(s, of[s])'
               /\ of[s] \in {Killed, Gone} => Over(s) \/ Over(s)',
           \A s \in Ids : known'[s] = Killed => known[s] = Killed \/ Over(s)',
           \A s \in synced' : known'[s] # None
    PROVE  NameInv'
<1> DEFINE News == {of}
<1>1. News \in SUBSET Reports /\ Words' \subseteq Words \cup News
    OBVIOUS
<1>2. \A s \in Ids : Fresh(s)' =>
               /\ Fresh(s) /\ known'[s] = None /\ \A p \in Panes : pane'[p] # s
               /\ \A o \in News : s \notin DOMAIN o
    OBVIOUS
<1>3. \A o \in News : \A s \in DOMAIN o :
               /\ o[s] \in Panes => In(s, o[s]) \/ In(s, o[s])'
               /\ o[s] \in {Killed, Gone} => Over(s) \/ Over(s)'
    OBVIOUS
<1> HIDE DEF News
<1> QED BY <1>1, <1>2, <1>3, NameStep

\* The reports that a message adds to the queue.
LEMMA OneWord ==
    ASSUME TypeOK, NEW m \in Messages, Send(<<m>>)
    PROVE  Queued' \subseteq Queued \cup (IF m.type = "upsert" THEN {m.of} ELSE {})
<1>1. Len(queue) \in Nat
    BY DEF TypeOK
<1>2. /\ Len(queue') = Len(queue) + 1 /\ queue'[Len(queue) + 1] = m
      /\ \A i \in 1..Len(queue) : queue'[i] = queue[i]
    BY OneTypes
<1> SUFFICES ASSUME NEW of \in Queued'
             PROVE  of \in Queued \/ (m.type = "upsert" /\ of = m.of)
    OBVIOUS
<1>3. PICK i \in 1..Len(queue') : queue'[i].type = "upsert" /\ of = queue'[i].of
    BY DEF Queued
<1>4. CASE i = Len(queue) + 1
    BY <1>2, <1>3, <1>4
<1>5. CASE i \in 1..Len(queue)
    BY <1>2, <1>3, <1>5 DEF Queued
<1> QED BY <1>1, <1>2, <1>3, <1>4, <1>5

LEMMA UpsertWord ==
    ASSUME TypeOK, NEW of \in Reports, Send(<<Upsert(of)>>)
    PROVE  Queued' \subseteq Queued \cup {of}
<1>1. Upsert(of) \in Messages /\ Upsert(of).type = "upsert" /\ Upsert(of).of = of
    BY UpsertIs DEF Upsert
<1> QED BY <1>1, OneWord

\* What sessionUpsert says of the parent is what agentd knows.
LEMMA ReportSays ==
    ASSUME TypeOK, NameInv, NEW s \in Ids, NEW at
    PROVE  LET of == Report(s, at) IN
           /\ DOMAIN of \subseteq Ids /\ s \in DOMAIN of /\ of[s] = at
           /\ \A t \in DOMAIN of \ {s} :
                /\ ~Fresh(t) /\ of[t] = known[t]
                /\ of[t] \in Panes => In(t, of[t])
                /\ of[t] \in {Killed, Gone} => Over(t)
<1> DEFINE of == Report(s, at)
<1>1. DOMAIN of = {s} \cup ({parent[s]} \cap Known) /\ of[s] = at
    BY DEF Report
<1>2. ASSUME NEW t \in DOMAIN of \ {s}
      PROVE  /\ ~Fresh(t) /\ of[t] = known[t]
             /\ of[t] \in Panes => In(t, of[t])
             /\ of[t] \in {Killed, Gone} => Over(t)
    <2>1. t \in Ids /\ known[t] # None /\ of[t] = known[t]
        BY <1>1, <1>2 DEF Report, Known
    <2>2. known[t] # Gone
        BY <2>1, ValuesDiffer, SessionsAssumption DEF TypeOK
    <2> QED BY <2>1, <2>2, FreshIsUntouched DEF In, NameInv, EndInv
<1> QED BY <1>1, <1>2 DEF Known

\* A session that agentd knows, or that has a pane, has been made and spawned.
LEMMA NotFresh ==
    ASSUME TypeOK, NameInv, NEW s \in Ids, known[s] # None \/ \E p \in Panes : pane[p] = s
    PROVE  ~Fresh(s) /\ s <= made
    BY FreshIsUntouched, SessionsAssumption DEF Fresh, In, TypeOK, Ids

\* The steps that give no session a pane and say nothing.
LEMMA SilentName ==
    ASSUME TypeOK, TypeOK', NameInv,
           Words' \subseteq Words, made' = made, spawns' \subseteq spawns,
           \A p \in Panes : pane'[p] \in Ids => pane'[p] = pane[p],
           \A s \in Ids : known'[s] # None => known'[s] = known[s],
           \A s \in synced' : s \in synced /\ known'[s] = known[s]
    PROVE  NameInv'
<1>1. \A s \in spawns' : s <= made'
    BY DEF NameInv, FreshInv
<1>2. \A s \in Ids : Fresh(s)' =>
               /\ Fresh(s) /\ known'[s] = None /\ \A p \in Panes : pane'[p] # s
    BY FreshIsUntouched DEF Fresh, In
<1>3. \A s \in Ids, p \in Panes : In(s, p)' => In(s, p)
    BY ValuesDiffer DEF In
<1>4. \A s \in Ids : known'[s] = Killed => known[s] = Killed
    BY SessionsAssumption
<1>5. \A s \in synced' : known'[s] # None
    BY DEF NameInv, SyncedIsKnown
<1>6. made <= made'
    BY SessionsAssumption DEF TypeOK
<1>7. {} \in SUBSET Reports
    OBVIOUS
<1> QED BY <1>1, <1>2, <1>3, <1>4, <1>5, <1>6, <1>7, NameStep

LEMMA QuietName ==
    ASSUME TypeOK, TypeOK', NameInv,
           \/ TmuxRestarts \/ AgentRestarts \/ HandlerNext
           \/ \E p \in Panes : UserOpens(p) \/ Close(p)
           \/ \E s \in Ids :
                \/ Changed(s) \/ SpawnFails(s)
                \/ UserArchives(s) \/ UserUnarchives(s) \/ UserDeletes(s)
    PROVE  NameInv'
<1> USE DEF tmux, agentd, link, server
<1>0. queue' = queue => Queued' = Queued
    BY DEF Queued
<1>1. \A s \in Ids : s \notin {None, Unused, Closed}
    BY ValuesDiffer
<1>2. CASE TmuxRestarts
    BY <1>0, <1>1, <1>2, SilentName DEF TmuxRestarts, Words
<1>3. CASE AgentRestarts
    BY <1>0, <1>1, <1>3, SilentName DEF AgentRestarts, Words
<1>4. ASSUME NEW p \in Panes, UserOpens(p) \/ Close(p) PROVE NameInv'
    <2>1. \A q \in Panes : pane'[q] \in Ids => pane'[q] = pane[q]
        BY <1>1, <1>4 DEF UserOpens, Close, TypeOK
    <2> QED BY <1>0, <1>4, <2>1, SilentName DEF UserOpens, Close, Words
<1>5. ASSUME NEW s \in Ids,
             \/ Changed(s) \/ SpawnFails(s)
             \/ UserArchives(s) \/ UserUnarchives(s) \/ UserDeletes(s)
      PROVE  NameInv'
    <2>1. Words' = Words
        BY <1>0, <1>5 DEF Changed, SpawnFails, UserArchives, UserUnarchives, UserDeletes, Words
    <2>2. UNCHANGED <<pane, known, made>> /\ spawns' \subseteq spawns /\ synced' \subseteq synced
        BY <1>5 DEF Changed, SpawnFails, UserArchives, UserUnarchives, UserDeletes
    <2> QED BY <2>1, <2>2, SilentName
<1>6. CASE HandlerNext
    <2>1. UNCHANGED <<pane, known, made, spawns, synced, flight>>
        BY <1>6 DEF HandlerNext, Handle, Ack, Reconnects, HandleUpsert, HandlePrune, HandleEvent, HandlerFails
    <2>2. Queued' \subseteq Queued
        <3>1. CASE Ack
            <4>1. queue \in Seq(Messages) /\ queue # <<>> /\ queue' = Tail(queue)
                BY <3>1 DEF Ack, TypeOK
            <4>2. /\ Len(queue') = Len(queue) - 1 /\ Len(queue) \in Nat
                  /\ \A i \in 1..(Len(queue) - 1) : queue'[i] = queue[i + 1]
                BY <4>1
            <4>3. ASSUME NEW i \in 1..Len(queue') PROVE i + 1 \in 1..Len(queue) /\ queue'[i] = queue[i + 1]
                BY <4>2
            <4> QED BY <4>3 DEF Queued
        <3>2. CASE ~Ack
            <4>1. queue' = queue
                BY <1>6, <3>2 DEF HandlerNext, Handle, Reconnects, HandleUpsert, HandlePrune, HandleEvent, HandlerFails
            <4> QED BY <1>0, <4>1
        <3> QED BY <3>1, <3>2
    <2> QED BY <2>1, <2>2, SilentName DEF Words
<1> QED BY <1>2, <1>3, <1>4, <1>5, <1>6

LEMMA HookName == ASSUME TypeOK, TypeOK', NameInv, NEW s \in Ids, Hook(s) PROVE NameInv'
<1>1. UNCHANGED <<pane, known, made, spawns, queue>> /\ synced' \subseteq synced
    BY DEF Hook, tmux, link, server
<1>2. PICK of \in Reports :
        /\ flight' = {of}
        /\ of = Report(s, known[s]) \/ of = [t \in {s} |-> Kept]
    BY DEF Hook, TypeOK
<1>3. Words' \subseteq Words \cup {of}
    <2>1. Queued' = Queued
        BY <1>1 DEF Queued
    <2>2. flight' = {of}
        BY <1>2
    <2> QED BY <2>1, <2>2 DEF Words
<1>4. ~Fresh(s) /\ known[s] # None
    BY NotFresh DEF Hook
<1>5. \A t \in Ids : Fresh(t)' <=> Fresh(t)
    BY <1>1 DEF Fresh
<1>6. \A t \in Ids, p \in Panes : In(t, p)' <=> In(t, p)
    BY <1>1 DEF In
<1>7. \A t \in DOMAIN of :
        /\ ~Fresh(t)
        /\ of[t] \in Panes => In(t, of[t])
        /\ of[t] \in {Killed, Gone} => Over(t)
    <2>1. CASE of = Report(s, known[s])
        <3>1. known[s] \in Panes => In(s, known[s])
            BY DEF In
        <3>2. known[s] \in {Killed, Gone} => Over(s)
            BY ValuesDiffer, SessionsAssumption DEF NameInv, EndInv, TypeOK
        <3> QED BY <1>4, <2>1, <3>1, <3>2, ReportSays
    <2>2. CASE of = [t \in {s} |-> Kept]
        BY <1>4, <2>2, ValuesDiffer, SessionsAssumption
    <2> QED BY <1>2, <2>1, <2>2
<1>8. of \in Reports /\ DOMAIN of \subseteq Ids
    BY ReportHas
<1>9. /\ made <= made' /\ (\A t \in spawns' : t <= made')
      /\ (\A t \in Ids : known'[t] = Killed => known[t] = Killed)
      /\ \A t \in synced' : known'[t] # None
    BY <1>1, SessionsAssumption DEF NameInv, FreshInv, SyncedIsKnown, TypeOK
<1>10. \A t \in Ids : Fresh(t)' =>
         /\ Fresh(t) /\ known'[t] = None /\ t \notin DOMAIN of
         /\ \A p \in Panes : pane'[p] # t
    BY <1>1, <1>5, <1>7, FreshIsUntouched DEF In
<1> QED BY <1>3, <1>6, <1>7, <1>8, <1>9, <1>10, NameOne

LEMMA KillName == ASSUME TypeOK, TypeOK', NameInv, NEW s \in Ids, Kill(s) PROVE NameInv'
<1> DEFINE of == Report(s, Killed)
<1>1. /\ known[s] \in Panes /\ pane' = [pane EXCEPT ![known[s]] = Closed]
      /\ known' = [known EXCEPT ![s] = Killed] /\ synced' = synced \ {s}
      /\ UNCHANGED <<made, spawns, queue>> /\ flight' = {of}
    BY DEF Kill, Open, link, server
<1>2. of \in Reports
    BY ReportTypes DEF Said
<1>3. Words' \subseteq Words \cup {of}
    <2>1. Queued' = Queued
        BY <1>1 DEF Queued
    <2> QED BY <1>1, <2>1 DEF Words
<1>4. ~Fresh(s) /\ s <= made
    BY <1>1, NotFresh, ValuesDiffer
<1>5. \A t \in Ids, p \in Panes : In(t, p)' => In(t, p) /\ t # s
    <2> SUFFICES ASSUME NEW t \in Ids, NEW p \in Panes, In(t, p)' PROVE In(t, p) /\ t # s
        OBVIOUS
    <2>1. pane'[p] = t => pane[p] = t /\ p # known[s]
        BY <1>1, ValuesDiffer DEF TypeOK
    <2>2. known'[t] = p => known[t] = p /\ t # s
        BY <1>1, ValuesDiffer DEF TypeOK
    <2>3. pane[p] = s => p = known[s]
        BY <1>1 DEF NameInv, HomeInv, In
    <2> QED BY <2>1, <2>2, <2>3 DEF In
<1>6. Over(s)'
    BY <1>1, <1>4, <1>5 DEF Over, Fresh
<1>7. \A t \in DOMAIN of :
        /\ t \in Ids /\ ~Fresh(t)
        /\ of[t] \in Panes => In(t, of[t])
        /\ of[t] \in {Killed, Gone} => Over(t) \/ Over(t)'
    BY <1>4, <1>6, ReportSays, ValuesDiffer
<1>8. \A t \in Ids : Fresh(t)' <=> Fresh(t)
    BY <1>1 DEF Fresh
<1>9. \A t \in Ids : Fresh(t)' =>
         /\ Fresh(t) /\ known'[t] = None /\ t \notin DOMAIN of
         /\ \A p \in Panes : pane'[p] # t
    BY <1>1, <1>4, <1>5, <1>7, <1>8, FreshIsUntouched DEF In, TypeOK
<1>10. \A t \in Ids : known'[t] = Killed => known[t] = Killed \/ Over(t)'
    BY <1>1, <1>6 DEF TypeOK
<1>11. /\ made <= made' /\ (\A t \in spawns' : t <= made')
       /\ \A t \in synced' : known'[t] # None
    BY <1>1, SessionsAssumption DEF NameInv, FreshInv, SyncedIsKnown, TypeOK
<1> HIDE DEF of
<1> QED BY <1>2, <1>3, <1>5, <1>7, <1>9, <1>10, <1>11, NameOne

LEMMA SpawnName ==
    ASSUME TypeOK, TypeOK', NameInv, NEW s \in Ids, NEW p \in Panes, Spawn(s, p)
    PROVE  NameInv'
<1>0. PICK of \in Reports : of = Report(s, p)
    BY ReportTypes DEF Said
<1>1. /\ s \in spawns /\ pane[p] = Unused
      /\ pane' = [pane EXCEPT ![p] = s] /\ known' = [known EXCEPT ![s] = p]
      /\ spawns' = spawns \ {s} /\ synced' = synced \ {s}
      /\ UNCHANGED <<made, flight>> /\ Send(<<Upsert(of)>>)
    BY <1>0 DEF Spawn, IsNext
<1>3. Words' \subseteq Words \cup {of}
    BY <1>1, UpsertWord DEF Words
<1>4. s <= made /\ Fresh(s)
    BY <1>1 DEF NameInv, FreshInv, Fresh
<1>5. \A t \in Ids : Fresh(t)' <=> Fresh(t) /\ t # s
    BY <1>1, <1>4, SessionsAssumption DEF Fresh, TypeOK, Ids
<1>6. \A t \in Ids, q \in Panes : In(t, q)' <=> In(t, q) \/ (t = s /\ q = p)
    <2> SUFFICES ASSUME NEW t \in Ids, NEW q \in Panes
                 PROVE  In(t, q)' <=> In(t, q) \/ (t = s /\ q = p)
        OBVIOUS
    <2>1. pane[p] # t /\ known[s] # q /\ pane'[p] = s /\ known'[s] = p
        BY <1>1, <1>4, FreshIsUntouched, ValuesDiffer DEF TypeOK
    <2>2. (q # p => pane'[q] = pane[q]) /\ (t # s => known'[t] = known[t])
        BY <1>1 DEF TypeOK
    <2> QED BY <2>1, <2>2 DEF In
<1>7. \A t \in Ids, q \in Panes : In(t, q)' =>
         In(t, q) \/ (Fresh(t) /\ \A r \in Panes : In(t, r)' => r = q)
    BY <1>4, <1>6, FreshIsUntouched
<1>8. \A t \in DOMAIN of :
        /\ of[t] \in Panes => In(t, of[t]) \/ In(t, of[t])'
        /\ of[t] \in {Killed, Gone} => Over(t) \/ Over(t)'
    <2>1. of[s] = p /\ In(s, p)' /\ p \notin {Killed, Gone}
        BY <1>0, <1>6, ReportSays, ValuesDiffer
    <2>2. \A t \in DOMAIN of \ {s} :
             /\ of[t] \in Panes => In(t, of[t])
             /\ of[t] \in {Killed, Gone} => Over(t)
        BY <1>0, ReportSays
    <2> QED BY <2>1, <2>2
<1>9. \A t \in Ids : Fresh(t)' =>
         /\ Fresh(t) /\ known'[t] = None /\ t \notin DOMAIN of
         /\ \A q \in Panes : pane'[q] # t
    <2> SUFFICES ASSUME NEW t \in Ids, Fresh(t)'
                 PROVE  /\ Fresh(t) /\ known'[t] = None /\ t \notin DOMAIN of
                        /\ \A q \in Panes : pane'[q] # t
        OBVIOUS
    <2>1. Fresh(t) /\ t # s /\ known[t] = None
        BY <1>5, FreshIsUntouched
    <2>2. \A q \in Panes : ~In(t, q)'
        BY <1>6, <2>1, FreshIsUntouched
    <2>3. t \notin DOMAIN of
        BY <1>0, <2>1, ReportSays
    <2> QED BY <1>1, <2>1, <2>2, <2>3 DEF In, TypeOK
<1>10. /\ made <= made' /\ (\A t \in spawns' : t <= made')
       /\ (\A t \in Ids : known'[t] = Killed => known[t] = Killed)
       /\ \A t \in synced' : known'[t] # None
    BY <1>1, ValuesDiffer, SessionsAssumption DEF NameInv, FreshInv, SyncedIsKnown, TypeOK
<1> QED BY <1>3, <1>7, <1>8, <1>9, <1>10, NameOne

LEMMA AdoptName ==
    ASSUME TypeOK, TypeOK', NameInv, NEW p \in Panes, Adopt(p)
    PROVE  NameInv'
<1>1. PICK s \in IF {u \in Ids : known[u] = p} # {} THEN {u \in Ids : known[u] = p} ELSE {made + 1} \cap Ids :
         /\ pane' = [pane EXCEPT ![p] = s] /\ known' = [known EXCEPT ![s] = p]
         /\ unmanaged' = unmanaged \ {s} /\ synced' = synced \ {s}
         /\ made' = IF s > made THEN s ELSE made
         /\ Send(<<Upsert([u \in {s} |-> p])>>) /\ hidden' = hidden \ {s}
    BY DEF Adopt
<1> DEFINE of == [u \in {s} |-> p]
<1>2. s \in Ids /\ (known[s] = p \/ s = made + 1)
    BY <1>1
<1>3. of \in Reports /\ DOMAIN of = {s} /\ of[s] = p
    BY <1>2, OneReport DEF Said
<1>4. UNCHANGED <<spawns, flight>> /\ made \in Nat /\ made <= made' /\ s <= made'
    BY <1>1, <1>2, SessionsAssumption DEF Adopt, TypeOK, Ids
<1>5. Words' \subseteq Words \cup {of}
    BY <1>1, <1>3, <1>4, UpsertWord DEF Words
<1>6. CASE known[s] = p
    <2>1. ~Fresh(s) /\ s <= made
        BY <1>2, <1>6, NotFresh, ValuesDiffer
    <2>2. made' = made
        BY <1>1, <1>2, <1>4, <2>1 DEF Ids
    <2>3. \A t \in Ids : Fresh(t)' <=> Fresh(t)
        BY <1>4, <2>2 DEF Fresh
    <2>4. \A t \in Ids, q \in Panes : In(t, q)' => In(t, q)
        BY <1>1, <1>2, <1>6 DEF In, TypeOK
    <2>5. In(s, of[s])
        BY <1>3, <1>6 DEF In
    <2>6. \A t \in Ids : Fresh(t)' =>
             /\ Fresh(t) /\ known'[t] = None /\ t \notin DOMAIN of
             /\ \A q \in Panes : pane'[q] # t
        BY <1>1, <1>2, <1>3, <2>1, <2>3, FreshIsUntouched DEF In, TypeOK
    <2>7. /\ (\A t \in spawns' : t <= made')
          /\ (\A t \in Ids : known'[t] = Killed => known[t] = Killed)
          /\ \A t \in synced' : known'[t] # None
        BY <1>1, <1>4, <2>2, ValuesDiffer DEF NameInv, FreshInv, SyncedIsKnown, TypeOK
    <2>8. \A t \in DOMAIN of : of[t] \notin {Killed, Gone}
        BY <1>3, ValuesDiffer
    <2> HIDE DEF of
    <2> QED BY <1>3, <1>4, <1>5, <2>4, <2>5, <2>6, <2>7, <2>8, NameOne
<1>7. CASE s = made + 1
    <2>1. Fresh(s) /\ made' = made + 1 /\ s \notin spawns
        BY <1>1, <1>2, <1>4, <1>7 DEF Fresh, NameInv, FreshInv
    <2>2. \A t \in Ids : Fresh(t)' => Fresh(t) /\ t # s
        BY <1>4, <1>7, <2>1 DEF Fresh, Ids
    <2>3. \A t \in Ids, q \in Panes : In(t, q)' => In(t, q) \/ (t = s /\ q = p)
        BY <1>1, <1>2 DEF In, TypeOK
    <2>4. \A t \in Ids, q \in Panes : In(t, q)' =>
             In(t, q) \/ (Fresh(t) /\ \A r \in Panes : In(t, r)' => r = q)
        BY <2>1, <2>3, FreshIsUntouched
    <2>5. In(s, of[s])'
        BY <1>1, <1>2, <1>3 DEF In, TypeOK
    <2>6. \A t \in Ids : Fresh(t)' =>
             /\ Fresh(t) /\ known'[t] = None /\ t \notin DOMAIN of
             /\ \A q \in Panes : pane'[q] # t
        <3> SUFFICES ASSUME NEW t \in Ids, Fresh(t)'
                     PROVE  /\ Fresh(t) /\ known'[t] = None /\ t \notin DOMAIN of
                            /\ \A q \in Panes : pane'[q] # t
            OBVIOUS
        <3>1. Fresh(t) /\ t # s /\ known[t] = None
            BY <2>2, FreshIsUntouched
        <3>2. \A q \in Panes : ~In(t, q)'
            BY <2>3, <3>1, FreshIsUntouched
        <3> QED BY <1>1, <1>3, <3>1, <3>2 DEF In, TypeOK
    <2>7. /\ (\A t \in spawns' : t <= made')
          /\ (\A t \in Ids : known'[t] = Killed => known[t] = Killed)
          /\ \A t \in synced' : known'[t] # None
        BY <1>1, <1>4, <2>1, ValuesDiffer DEF NameInv, FreshInv, SyncedIsKnown, TypeOK, Ids
    <2>8. \A t \in DOMAIN of : of[t] \notin {Killed, Gone}
        BY <1>3, ValuesDiffer
    <2> HIDE DEF of
    <2> QED BY <1>3, <1>4, <1>5, <2>4, <2>5, <2>6, <2>7, <2>8, NameOne
<1> QED BY <1>2, <1>6, <1>7

LEMMA ChildName ==
    ASSUME TypeOK, TypeOK', NameInv, NEW s \in Ids, NEW p \in Panes, SpawnChild(s, p)
    PROVE  NameInv'
<1> DEFINE c == made + 1
<1>1. c \in Ids
    BY SpareMeans DEF SpawnChild
<1>2. PICK of \in Reports : of = [t \in {s, c} |-> IF t = c THEN p ELSE known[s]]
    BY <1>1, ChildReport DEF SpawnChild
<1>3. /\ pane[p] = Unused /\ known[s] \in Panes \cup {Killed} /\ known[s] # None
      /\ pane' = [pane EXCEPT ![p] = c] /\ known' = [known EXCEPT ![c] = p]
      /\ UNCHANGED <<spawns, flight, synced>> /\ made' = made + 1 /\ Send(<<Upsert(of)>>)
    BY <1>2 DEF SpawnChild, IsNext, Known, TypeOK
<1>4. Words' \subseteq Words \cup {of}
    BY <1>3, UpsertWord DEF Words
<1>5. Fresh(c) /\ c \notin spawns /\ ~Fresh(s) /\ s # c /\ made \in Nat
    <2>1. made \in Nat
        BY DEF TypeOK
    <2>2. ~Fresh(s) /\ s <= made
        BY <1>3, NotFresh, ValuesDiffer
    <2>3. \A t \in spawns : t <= made
        BY DEF NameInv, FreshInv
    <2> QED BY <2>1, <2>2, <2>3 DEF Fresh
<1>6. \A t \in Ids : Fresh(t)' => Fresh(t) /\ t # c
    BY <1>3, <1>5 DEF Fresh, Ids
<1>7. \A t \in Ids, q \in Panes : In(t, q)' => In(t, q) \/ (t = c /\ q = p)
    BY <1>1, <1>3 DEF In, TypeOK
<1>8. \A t \in Ids, q \in Panes : In(t, q)' =>
         In(t, q) \/ (Fresh(t) /\ \A r \in Panes : In(t, r)' => r = q)
    BY <1>1, <1>5, <1>7, FreshIsUntouched
<1>9. \A t \in DOMAIN of :
        /\ of[t] \in Panes => In(t, of[t]) \/ In(t, of[t])'
        /\ of[t] \in {Killed, Gone} => Over(t) \/ Over(t)'
    <2>1. of[c] = p /\ of[s] = known[s] /\ DOMAIN of = {s, c}
        BY <1>2, <1>5
    <2>2. In(s, known[s]) /\ (known[s] = Killed => Over(s))
        BY DEF In, NameInv, EndInv
    <2>3. p \notin {Killed, Gone} /\ known[s] # Gone
        BY <1>3, ValuesDiffer, SessionsAssumption
    <2>4. ASSUME NEW t \in DOMAIN of
          PROVE  /\ of[t] \in Panes => In(t, of[t]) \/ In(t, of[t])'
                 /\ of[t] \in {Killed, Gone} => Over(t) \/ Over(t)'
        <3>1. CASE t = s
            BY <2>1, <2>2, <2>3, <3>1
        <3>2. CASE t # s
            <4>1. of[t] = p /\ t = made + 1
                BY <2>1, <3>2
            <4>2. In(t, p)'
                BY <1>1, <1>3, <4>1 DEF In, TypeOK
            <4> QED BY <2>3, <4>1, <4>2
        <3> QED BY <3>1, <3>2
    <2> QED BY <2>4
<1>10. \A t \in Ids : Fresh(t)' =>
         /\ Fresh(t) /\ known'[t] = None /\ t \notin DOMAIN of
         /\ \A q \in Panes : pane'[q] # t
    <2> SUFFICES ASSUME NEW t \in Ids, Fresh(t)'
                 PROVE  /\ Fresh(t) /\ known'[t] = None /\ t \notin DOMAIN of
                        /\ \A q \in Panes : pane'[q] # t
        OBVIOUS
    <2>1. Fresh(t) /\ t # c /\ known[t] = None
        BY <1>6, FreshIsUntouched
    <2>2. \A q \in Panes : ~In(t, q)'
        BY <1>7, <2>1, FreshIsUntouched
    <2>3. t \notin DOMAIN of
        BY <1>2, <1>5, <2>1
    <2> QED BY <1>3, <2>1, <2>2, <2>3 DEF In, TypeOK
<1>11. /\ made <= made' /\ (\A t \in spawns' : t <= made')
       /\ (\A t \in Ids : known'[t] = Killed => known[t] = Killed)
       /\ \A t \in synced' : known'[t] # None
    <2>1. made <= made' /\ \A t \in spawns' : t <= made'
        BY <1>3, <1>5 DEF NameInv, FreshInv, TypeOK, Ids
    <2>2. \A t \in Ids : known'[t] = IF t = c THEN p ELSE known[t]
        BY <1>1, <1>3 DEF TypeOK
    <2> QED BY <1>3, <2>1, <2>2, ValuesDiffer DEF NameInv, SyncedIsKnown, TypeOK
<1> QED BY <1>4, <1>8, <1>9, <1>10, <1>11, NameOne

LEMMA RequestName == ASSUME TypeOK, TypeOK', NameInv, RequestSpawn PROVE NameInv'
<1>1. /\ made' = made + 1 /\ spawns' \subseteq spawns \cup {made + 1}
      /\ UNCHANGED <<pane, known, synced, flight, queue>> /\ made \in Nat
    BY SessionsAssumption DEF RequestSpawn, agentd, link, TypeOK
<1>2. Words' = Words
    <2>1. Queued' = Queued
        BY <1>1 DEF Queued
    <2> QED BY <1>1, <2>1 DEF Words
<1>3. \A s \in Ids : Fresh(s)' => Fresh(s)
    BY <1>1 DEF Fresh, Ids
<1>4. made <= made' /\ \A s \in spawns' : s <= made'
    BY <1>1 DEF NameInv, FreshInv, TypeOK, Ids
<1>5. \A s \in Ids : Fresh(s)' =>
         Fresh(s) /\ known'[s] = None /\ \A p \in Panes : pane'[p] # s
    BY <1>1, <1>3, FreshIsUntouched DEF In
<1>6. \A s \in Ids, p \in Panes : In(s, p)' => In(s, p)
    BY <1>1 DEF In
<1>7. /\ \A s \in Ids : known'[s] = Killed => known[s] = Killed
      /\ \A s \in synced' : known'[s] # None
    BY <1>1 DEF NameInv, SyncedIsKnown
<1>8. {} \in SUBSET Reports
    OBVIOUS
<1> QED BY <1>2, <1>4, <1>5, <1>6, <1>7, <1>8, NameStep

LEMMA LateName ==
    ASSUME TypeOK, TypeOK', NameInv, Land \/ \E s \in Ids : Emit(s)
    PROVE  NameInv'
<1>1. UNCHANGED <<pane, known, made, spawns, synced>>
    BY DEF Land, Emit, tmux, agentd, server
<1>2. CASE Land
    <2>1. PICK of \in flight : Send(<<Upsert(of)>>) /\ flight' = {}
        BY <1>2 DEF Land
    <2>2. of \in Reports
        BY DEF TypeOK
    <2>3. Words' \subseteq Words
        BY <2>1, <2>2, UpsertWord DEF Words
    <2> QED BY <1>1, <2>3, SilentName
<1>3. ASSUME NEW s \in Ids, Emit(s) PROVE NameInv'
    <2>1. Event(s) \in Messages /\ Event(s).type # "upsert"
        BY DEF Event, Messages
    <2>2. Send(<<Event(s)>>) /\ flight' = flight
        BY <1>3 DEF Emit, agentd
    <2>3. Words' \subseteq Words
        BY <2>1, <2>2, OneWord DEF Words
    <2> QED BY <1>1, <2>3, SilentName
<1> QED BY <1>2, <1>3

LEMMA PollName ==
    ASSUME TypeOK, TypeOK', NameInv, NEW prune \in BOOLEAN, Sync(prune)
    PROVE  NameInv'
<1>1. PICK active \in SUBSET Ids, at \in [Ids -> Panes \cup {None, Killed}],
           stale \in SUBSET Ids, of \in Reports :
              Polls(prune, active, at, stale, of)
    BY PollIs
<1>2. /\ \A s \in active : at[s] \in Open /\ pane'[at[s]] = s
      /\ \A s \in Ids \ active : at[s] = known[s]
      /\ \A s \in Ids, p \in Panes : pane'[p] = s =>
           /\ s \in active /\ p \in Open
           /\ In(s, p) \/ (s > made /\ \A q \in Panes : pane'[q] = s => q = p)
      /\ stale = {s \in Ids : at[s] # None /\ at[s] \notin Open}
      /\ DOMAIN of = (active \ Unchanged(at)) \cup stale
      /\ \A s \in DOMAIN of : of[s] = IF s \in active THEN at[s] ELSE Gone
      /\ known' = [s \in Ids |-> IF s \in stale THEN None ELSE at[s]]
      /\ synced' = (synced \cup active) \ stale
      /\ made' \in made..MaxSessions /\ {s \in active : s > made} = (made + 1)..made'
    BY <1>1 DEF Polls
<1>3. UNCHANGED <<spawns, flight>> /\ made \in Nat /\ made' \in Nat /\ made <= made'
    BY <1>2, SessionsAssumption DEF Sync, TypeOK
<1>4. Words' \subseteq Words \cup {of}
    <2> DEFINE first == IF DOMAIN of = {} THEN <<>> ELSE <<Upsert(of)>>
               last == IF prune THEN <<Prune(active)>> ELSE <<>>
               ms == first \o last
    <2>1. Upsert(of) \in Messages /\ Upsert(of).of = of
        BY UpsertIs DEF Upsert
    <2>2. Prune(active) \in Messages /\ Prune(active).type # "upsert"
        BY DEF Prune, Messages
    <2>3. first \in Seq(Messages) /\ last \in Seq(Messages) /\ ms \in Seq(Messages)
        BY <2>1, <2>2
    <2>4. \A i \in 1..Len(ms) : ms[i].type = "upsert" => ms[i].of = of
        BY <2>1, <2>2
    <2>5. Send(ms)
        BY <1>1 DEF Polls
    <2> HIDE DEF ms
    <2>6. /\ Len(queue') = Len(queue) + Len(ms)
          /\ \A i \in 1..Len(queue) : queue'[i] = queue[i]
          /\ \A i \in 1..Len(ms) : queue'[Len(queue) + i] = ms[i]
        BY <2>3, <2>5, SendTypes
    <2>7. Len(queue) \in Nat /\ Len(ms) \in Nat
        BY <2>3 DEF TypeOK
    <2>8. ASSUME NEW i \in 1..Len(queue'), queue'[i].type = "upsert"
          PROVE  queue'[i].of \in Queued \cup {of}
        <3>1. CASE i \in 1..Len(queue)
            BY <2>6, <2>8, <3>1 DEF Queued
        <3>2. CASE i \notin 1..Len(queue)
            <4>1. i - Len(queue) \in 1..Len(ms) /\ Len(queue) + (i - Len(queue)) = i
                BY <2>6, <2>7, <3>2
            <4> QED BY <2>4, <2>6, <2>8, <4>1
        <3> QED BY <3>1, <3>2
    <2>9. Queued' \subseteq Queued \cup {of}
        BY <2>8 DEF Queued
    <2> QED BY <1>3, <2>9 DEF Words
<1>5. ASSUME NEW s \in Ids, Fresh(s)'
      PROVE  /\ Fresh(s) /\ known'[s] = None /\ s \notin DOMAIN of
             /\ \A p \in Panes : pane'[p] # s
    <2>1. Fresh(s)
        BY <1>3, <1>5 DEF Fresh, Ids
    <2>2. s \notin active
        <3> SUFFICES ASSUME s \in active PROVE FALSE
            OBVIOUS
        <3>1. at[s] \in Panes /\ pane'[at[s]] = s
            BY <1>2 DEF Open
        <3>2. s > made
            BY <1>2, <2>1, <3>1, FreshIsUntouched
        <3>3. s \in spawns
            BY <1>2, <1>3, <1>5, <3>2 DEF Fresh, Ids
        <3> QED BY <1>3, <3>2, <3>3 DEF NameInv, FreshInv, Ids
    <2>3. at[s] = None
        BY <1>2, <2>1, <2>2, FreshIsUntouched
    <2> QED BY <1>2, <2>1, <2>2, <2>3
<1>6. ASSUME NEW s \in Ids, NEW p \in Panes, In(s, p)'
      PROVE  In(s, p) \/ (Fresh(s) /\ \A q \in Panes : In(s, q)' => q = p)
    <2>1. ASSUME NEW q \in Panes, known'[s] = q PROVE pane'[q] = s \/ known[s] = q
        BY <1>2, <2>1, ValuesDiffer
    <2>2. CASE pane'[p] = s
        <3>1. CASE In(s, p)
            BY <3>1
        <3>2. CASE s > made /\ \A q \in Panes : pane'[q] = s => q = p
            <4>1. Fresh(s)
                BY <3>2 DEF Fresh
            <4>2. \A q \in Panes : known[s] # q
                BY <4>1, FreshIsUntouched DEF In
            <4> QED BY <2>1, <3>2, <4>1, <4>2 DEF In
        <3> QED BY <1>2, <2>2, <3>1, <3>2
    <2>3. CASE pane'[p] # s
        BY <1>6, <2>1, <2>3 DEF In
    <2> QED BY <2>2, <2>3
<1>7. ASSUME NEW s \in DOMAIN of
      PROVE  /\ of[s] \in Panes => In(s, of[s]) \/ In(s, of[s])'
             /\ of[s] \in {Killed, Gone} => Over(s) \/ Over(s)'
    <2>0. s \in Ids
        BY ReportHas
    <2>1. CASE s \in active
        BY <1>2, <2>1, ValuesDiffer DEF In, Open
    <2>2. CASE s \notin active
        <3>1. s \in stale /\ of[s] = Gone /\ at[s] = known[s] /\ known[s] # None
            BY <1>2, <2>0, <2>2
        <3>2. ~Fresh(s) /\ s <= made
            BY <2>0, <3>1, NotFresh
        <3>3. \A p \in Panes : ~In(s, p)'
            BY <1>2, <2>0, <2>2, <3>1, ValuesDiffer DEF In
        <3>4. Over(s)'
            BY <1>3, <2>0, <3>2, <3>3 DEF Over, Fresh, Ids
        <3> QED BY <3>1, <3>4, ValuesDiffer
    <2> QED BY <2>1, <2>2
<1>8. /\ \A s \in spawns' : s <= made'
      /\ \A s \in Ids : known'[s] = Killed => known[s] = Killed
    <2>1. \A s \in spawns : s <= made /\ s \in Nat
        BY ValuesDiffer DEF NameInv, FreshInv, TypeOK
    <2>2. ASSUME NEW s \in Ids, known'[s] = Killed PROVE known[s] = Killed
        <3>1. s \notin stale /\ at[s] = Killed
            BY <1>2, <2>2, SessionsAssumption
        <3>2. s \notin active
            BY <1>2, <3>1, ValuesDiffer DEF Open
        <3> QED BY <1>2, <3>1, <3>2
    <2> QED BY <1>3, <2>1, <2>2
<1>9. \A s \in synced' : known'[s] # None
    <2>1. \A s \in synced \ active : known[s] # None /\ s \in Ids
        BY DEF NameInv, SyncedIsKnown, TypeOK
    <2>2. \A s \in active : at[s] # None
        BY <1>2, ValuesDiffer DEF Open
    <2> QED BY <1>2, <2>1, <2>2
<1> QED BY <1>3, <1>4, <1>5, <1>6, <1>7, <1>8, <1>9, NameOne

LEMMA NameInit == Init => NameInv
<1> SUFFICES ASSUME Init PROVE NameInv
    OBVIOUS
<1>1. Words = {}
    BY DEF Init, Words, Queued
<1>2. \A s \in Ids, p \in Panes : ~In(s, p) /\ pane[p] # s /\ known[s] = None
    BY ValuesDiffer DEF Init, In
<1> QED BY <1>1, <1>2, SessionsAssumption
        DEF Init, NameInv, FreshInv, Untouched, HomeInv, EndInv, SyncedIsKnown

LEMMA NameNext == TypeOK /\ TypeOK' /\ NameInv /\ [Next]_vars => NameInv'
<1> SUFFICES ASSUME TypeOK, TypeOK', NameInv, [Next]_vars PROVE NameInv'
    OBVIOUS
<1>1. CASE UNCHANGED vars
    BY <1>1 DEF vars, tmux, agentd, link, server, NameInv, FreshInv, Untouched, HomeInv, In,
                EndInv, Over, SyncedIsKnown, Words, Queued
<1>2. CASE \/ TmuxRestarts \/ AgentRestarts \/ HandlerNext
           \/ \E p \in Panes : UserOpens(p) \/ Close(p)
           \/ \E s \in Ids :
                \/ Changed(s) \/ SpawnFails(s)
                \/ UserArchives(s) \/ UserUnarchives(s) \/ UserDeletes(s)
    BY <1>2, QuietName
<1>3. CASE \E prune \in BOOLEAN : Sync(prune)
    BY <1>3, PollName
<1>4. CASE \E s \in Ids : Kill(s) \/ Hook(s)
    BY <1>4, KillName, HookName
<1>5. CASE \E s \in Ids, p \in Panes : Spawn(s, p) \/ SpawnChild(s, p)
    BY <1>5, SpawnName, ChildName
<1>6. CASE \E p \in Panes : Adopt(p)
    BY <1>6, AdoptName
<1>7. CASE RequestSpawn \/ Land \/ \E s \in Ids : Emit(s)
    BY <1>7, RequestName, LateName
<1> QED BY <1>1, <1>2, <1>3, <1>4, <1>5, <1>6, <1>7 DEF Next, HandlerNext

-----------------------------------------------------------------------------
\* The last word.

\* What LiveIsComing asks of a session, and what it promises.
Counts(s, p) ==
    LivesIn(s, p) /\ known[s] = p /\ s \in synced /\ ~force /\ s \notin hidden

LEMMA LiveStep ==
    ASSUME \A s \in Ids, p \in Panes : Counts(s, p)' => LastWord(s, p)'
    PROVE  LiveIsComing'
    BY DEF LiveIsComing, Counts

\* Steps of which the queue and the rows of what counts know nothing.
LEMMA SilentWord ==
    ASSUME TypeOK, LiveIsComing, UNCHANGED <<queue, done>>,
           \A s \in Ids, p \in Panes : Counts(s, p)' =>
               Counts(s, p) /\ (row'[s] = row[s] \/ ~ShownIn(s, p))
    PROVE  LiveIsComing'
<1> SUFFICES ASSUME NEW s \in Ids, NEW p \in Panes, Counts(s, p)' PROVE LastWord(s, p)'
    BY LiveStep
<1>1. LastWord(s, p)
    BY DEF LiveIsComing, Counts
<1>2. CASE ShownIn(s, p) /\ \A i \in (done + 1)..Len(queue) : ~Hides(queue[i], s, p)
    BY <1>2 DEF LastWord, ShownIn, Hides
<1>3. CASE \E i \in (done + 1)..Len(queue) :
              Shows(queue[i], s, p) /\ \A j \in (i + 1)..Len(queue) : ~Hides(queue[j], s, p)
    BY <1>3 DEF LastWord, Shows, Hides
<1> QED BY <1>1, <1>2, <1>3 DEF LastWord

\* A message behind the others leaves the last word, or has it.
LEMMA SentWord ==
    ASSUME TypeOK, NEW ms \in Seq(Messages), Send(ms), row' = row,
           NEW s \in Ids, NEW p \in Panes,
           \/ LastWord(s, p) /\ \A j \in 1..Len(ms) : ~Hides(ms[j], s, p)
           \/ \E i \in 1..Len(ms) :
                Shows(ms[i], s, p) /\ \A j \in (i + 1)..Len(ms) : ~Hides(ms[j], s, p)
    PROVE  LastWord(s, p)'
<1>1. Len(queue) \in Nat /\ done \in 0..Len(queue) /\ Len(ms) \in Nat
    BY DEF TypeOK
<1>2. /\ done' = done /\ Len(queue') = Len(queue) + Len(ms)
      /\ \A i \in 1..Len(queue) : queue'[i] = queue[i]
      /\ \A i \in 1..Len(ms) : queue'[Len(queue) + i] = ms[i]
    BY SendTypes
<1>3. ASSUME NEW i \in 1..Len(ms), \A j \in i..Len(ms) : ~Hides(ms[j], s, p),
             NEW k \in (Len(queue) + i)..Len(queue')
      PROVE  ~Hides(queue'[k], s, p)
    <2>1. k - Len(queue) \in i..Len(ms) /\ Len(queue) + (k - Len(queue)) = k
        BY <1>1, <1>2
    <2>2. queue'[k] = ms[k - Len(queue)]
        BY <1>1, <1>2, <2>1
    <2> QED BY <1>3, <2>1, <2>2
<1>4. CASE \E i \in 1..Len(ms) :
              Shows(ms[i], s, p) /\ \A j \in (i + 1)..Len(ms) : ~Hides(ms[j], s, p)
    <2>1. PICK i \in 1..Len(ms) :
              Shows(ms[i], s, p) /\ \A j \in (i + 1)..Len(ms) : ~Hides(ms[j], s, p)
        BY <1>4
    <2>2. Len(queue) + i \in (done' + 1)..Len(queue') /\ Shows(queue'[Len(queue) + i], s, p)
        BY <1>1, <1>2, <2>1
    <2>3. ASSUME NEW k \in (Len(queue) + i + 1)..Len(queue') PROVE ~Hides(queue'[k], s, p)
        <3>1. i + 1 \in 1..Len(ms) /\ k \in (Len(queue) + (i + 1))..Len(queue')
            BY <1>1, <1>2
        <3> QED BY <1>3, <2>1, <3>1
    <2> QED BY <2>2, <2>3 DEF LastWord, Shows, Hides
<1>5. ASSUME \A j \in 1..Len(ms) : ~Hides(ms[j], s, p),
             NEW i \in 0..Len(queue), \A j \in (i + 1)..Len(queue) : ~Hides(queue[j], s, p),
             NEW k \in (i + 1)..Len(queue')
      PROVE  ~Hides(queue'[k], s, p)
    <2>1. CASE k \in 1..Len(queue)
        BY <1>2, <1>5, <2>1
    <2>2. CASE k \notin 1..Len(queue)
        <3>1. 1 \in 1..Len(ms) /\ k \in (Len(queue) + 1)..Len(queue')
            BY <1>1, <1>2, <2>2
        <3> QED BY <1>3, <1>5, <3>1
    <2> QED BY <2>1, <2>2
<1>6. CASE LastWord(s, p) /\ \A j \in 1..Len(ms) : ~Hides(ms[j], s, p)
    <2>1. CASE ShownIn(s, p) /\ \A i \in (done + 1)..Len(queue) : ~Hides(queue[i], s, p)
        <3>1. \A k \in (done' + 1)..Len(queue') : ~Hides(queue'[k], s, p)
            BY <1>1, <1>2, <1>5, <1>6, <2>1
        <3>2. ShownIn(s, p)'
            BY <2>1 DEF ShownIn
        <3> QED BY <3>1, <3>2 DEF LastWord, Hides
    <2>2. CASE \E i \in (done + 1)..Len(queue) :
                  Shows(queue[i], s, p) /\ \A j \in (i + 1)..Len(queue) : ~Hides(queue[j], s, p)
        <3>1. PICK i \in (done + 1)..Len(queue) :
                  Shows(queue[i], s, p) /\ \A j \in (i + 1)..Len(queue) : ~Hides(queue[j], s, p)
            BY <2>2
        <3>2. i \in 0..Len(queue) /\ i \in (done' + 1)..Len(queue') /\ queue'[i] = queue[i]
            BY <1>1, <1>2
        <3>3. \A k \in (i + 1)..Len(queue') : ~Hides(queue'[k], s, p)
            BY <1>5, <1>6, <3>1, <3>2
        <3> QED BY <3>1, <3>2, <3>3 DEF LastWord, Shows, Hides
    <2> QED BY <1>6, <2>1, <2>2 DEF LastWord
<1> QED BY <1>4, <1>6

LEMMA QuietWord ==
    ASSUME TypeOK, NameInv, LiveIsComing,
           \/ TmuxRestarts \/ AgentRestarts \/ Reconnects \/ RequestSpawn
           \/ \E p \in Panes : UserOpens(p) \/ Close(p)
           \/ \E s \in Ids :
                \/ Changed(s) \/ SpawnFails(s) \/ Kill(s) \/ Hook(s)
                \/ UserArchives(s) \/ UserUnarchives(s) \/ UserDeletes(s)
    PROVE  LiveIsComing'
<1> USE DEF tmux, agentd, link, server
<1>1. CASE AgentRestarts \/ Reconnects
    BY <1>1 DEF AgentRestarts, Reconnects, LiveIsComing
<1>2. CASE TmuxRestarts
    BY <1>2, SilentWord, ValuesDiffer DEF TmuxRestarts, Counts, LivesIn
<1>3. ASSUME NEW q \in Panes, UserOpens(q) \/ Close(q) PROVE LiveIsComing'
    <2>1. \A s \in Ids, p \in Panes : pane'[p] = s => pane[p] = s
        BY <1>3, ValuesDiffer DEF UserOpens, Close, TypeOK
    <2> QED BY <1>3, <2>1, SilentWord DEF UserOpens, Close, Counts, LivesIn
<1>4. ASSUME NEW t \in Ids, Changed(t) \/ SpawnFails(t) \/ Hook(t) PROVE LiveIsComing'
    <2>1. /\ UNCHANGED <<pane, known, force, queue, done, row, hidden>>
          /\ synced' \subseteq synced
        BY <1>4 DEF Changed, SpawnFails, Hook
    <2> QED BY <2>1, SilentWord DEF Counts, LivesIn
<1>5. ASSUME NEW t \in Ids, Kill(t) PROVE LiveIsComing'
    <2>1. \A s \in Ids, p \in Panes :
             (pane'[p] = s => pane[p] = s) /\ (known'[s] = p => known[s] = p)
        BY <1>5, ValuesDiffer DEF Kill, TypeOK
    <2>2. UNCHANGED <<force, queue, done, row, hidden>> /\ synced' \subseteq synced
        BY <1>5 DEF Kill
    <2> QED BY <2>1, <2>2, SilentWord DEF Counts, LivesIn
<1>6. ASSUME NEW t \in Ids, UserArchives(t) \/ UserDeletes(t) PROVE LiveIsComing'
    <2>1. /\ UNCHANGED <<pane, known, force, synced, queue, done>>
          /\ hidden' = hidden \cup {t}
        BY <1>6 DEF UserArchives, UserDeletes, Hide
    <2>2. \A s \in Ids \ {t} : row'[s] = row[s]
        BY <1>6 DEF UserArchives, UserDeletes, Hide, TypeOK
    <2> QED BY <2>1, <2>2, SilentWord DEF Counts, LivesIn
<1>7. ASSUME NEW t \in Ids, UserUnarchives(t) PROVE LiveIsComing'
    <2>1. UNCHANGED <<pane, known, force, synced, queue, done, hidden>>
        BY <1>7 DEF UserUnarchives
    <2>2. \A s \in Ids \ {t} : row'[s] = row[s]
        BY <1>7 DEF UserUnarchives, TypeOK
    <2>3. \A p \in Panes : ~ShownIn(t, p)
        BY <1>7 DEF UserUnarchives, ShownIn, Shown
    <2> QED BY <2>1, <2>2, <2>3, SilentWord DEF Counts, LivesIn
<1>8. CASE RequestSpawn
    <2>1. UNCHANGED <<pane, known, force, synced, queue, done, hidden>>
        BY <1>8 DEF RequestSpawn
    <2>2. \A s \in Ids : s # made + 1 => row'[s] = row[s]
        BY <1>8 DEF RequestSpawn, TypeOK
    <2>3. made + 1 \in Ids => known[made + 1] = None
        BY FreshIsUntouched DEF Fresh, TypeOK
    <2> QED BY <2>1, <2>2, <2>3, SilentWord, ValuesDiffer DEF Counts, LivesIn
<1> QED BY <1>1, <1>2, <1>3, <1>4, <1>5, <1>6, <1>7, <1>8

LEMMA AckWord == ASSUME TypeOK, LiveIsComing, Ack PROVE LiveIsComing'
<1> SUFFICES ASSUME NEW s \in Ids, NEW p \in Panes, Counts(s, p)' PROVE LastWord(s, p)'
    BY LiveStep
<1>1. UNCHANGED <<pane, known, force, synced, hidden, row>>
    BY DEF Ack, tmux, agentd, server
<1>2. LastWord(s, p)
    BY <1>1 DEF LiveIsComing, Counts, LivesIn
<1>3. /\ queue \in Seq(Messages) /\ queue # <<>> /\ queue' = Tail(queue)
      /\ done > 0 /\ done' = done - 1 /\ done \in 0..Len(queue)
    BY DEF Ack, TypeOK
<1>4. /\ Len(queue) \in Nat /\ Len(queue') = Len(queue) - 1
      /\ \A i \in 1..(Len(queue) - 1) : queue'[i] = queue[i + 1]
    BY <1>3
<1>5. ASSUME NEW i \in 1..Len(queue), \A j \in (i + 1)..Len(queue) : ~Hides(queue[j], s, p),
             NEW k \in i..Len(queue')
      PROVE  ~Hides(queue'[k], s, p)
    <2>1. k + 1 \in (i + 1)..Len(queue) /\ queue'[k] = queue[k + 1]
        BY <1>4
    <2> QED BY <1>5, <2>1
<1>6. CASE ShownIn(s, p) /\ \A i \in (done + 1)..Len(queue) : ~Hides(queue[i], s, p)
    <2>1. ShownIn(s, p)'
        BY <1>1, <1>6 DEF ShownIn
    <2>2. \A k \in (done' + 1)..Len(queue') : ~Hides(queue'[k], s, p)
        BY <1>3, <1>4, <1>5, <1>6
    <2> QED BY <2>1, <2>2 DEF LastWord, Hides
<1>7. CASE \E i \in (done + 1)..Len(queue) :
              Shows(queue[i], s, p) /\ \A j \in (i + 1)..Len(queue) : ~Hides(queue[j], s, p)
    <2>1. PICK i \in (done + 1)..Len(queue) :
              Shows(queue[i], s, p) /\ \A j \in (i + 1)..Len(queue) : ~Hides(queue[j], s, p)
        BY <1>7
    <2>2. i \in 1..Len(queue) /\ i - 1 \in (done' + 1)..Len(queue') /\ queue'[i - 1] = queue[i]
        <3>1. i - 1 \in 1..(Len(queue) - 1) /\ (i - 1) + 1 = i
            BY <1>3, <1>4
        <3> QED BY <1>3, <1>4, <3>1
    <2>3. \A k \in ((i - 1) + 1)..Len(queue') : ~Hides(queue'[k], s, p)
        BY <1>3, <1>4, <1>5, <2>1, <2>2
    <2> QED BY <2>1, <2>2, <2>3 DEF LastWord, Shows, Hides
<1> QED BY <1>2, <1>6, <1>7 DEF LastWord

\* The next message does what it says.
LEMMA HandledWord ==
    ASSUME TypeOK, LiveIsComing, HasNext, UNCHANGED <<pane, known, synced, hidden, queue>>,
           Processed \/ Failed,
           \A s \in Ids, p \in Panes : Processed =>
               /\ ShownIn(s, p) /\ ~Hides(NextMessage, s, p) => ShownIn(s, p)'
               /\ Shows(NextMessage, s, p) => ShownIn(s, p)'
    PROVE  LiveIsComing'
<1>1. CASE Failed
    BY <1>1 DEF Failed, LiveIsComing
<1>2. CASE Processed
    <2> SUFFICES ASSUME NEW s \in Ids, NEW p \in Panes, Counts(s, p)' PROVE LastWord(s, p)'
        BY LiveStep
    <2>1. force' = force /\ done' = done + 1
        BY <1>2 DEF Processed
    <2>2. LastWord(s, p)
        BY <2>1 DEF LiveIsComing, Counts, LivesIn
    <2>3. done \in Nat /\ Len(queue) \in Nat /\ done + 1 \in (done + 1)..Len(queue)
        BY DEF TypeOK, HasNext
    <2>4. CASE ShownIn(s, p) /\ \A i \in (done + 1)..Len(queue) : ~Hides(queue[i], s, p)
        <3>1. ShownIn(s, p)'
            BY <1>2, <2>3, <2>4 DEF NextMessage
        <3>2. \A i \in (done' + 1)..Len(queue') : ~Hides(queue'[i], s, p)
            BY <2>1, <2>3, <2>4
        <3> QED BY <3>1, <3>2 DEF LastWord, Hides
    <2>5. CASE \E i \in (done + 1)..Len(queue) :
                  Shows(queue[i], s, p) /\ \A j \in (i + 1)..Len(queue) : ~Hides(queue[j], s, p)
        <3>1. PICK i \in (done + 1)..Len(queue) :
                  Shows(queue[i], s, p) /\ \A j \in (i + 1)..Len(queue) : ~Hides(queue[j], s, p)
            BY <2>5
        <3>2. CASE i = done + 1
            <4>1. ShownIn(s, p)'
                BY <1>2, <3>1, <3>2 DEF NextMessage
            <4>2. \A k \in (done' + 1)..Len(queue') : ~Hides(queue'[k], s, p)
                BY <2>1, <3>1, <3>2
            <4> QED BY <4>1, <4>2 DEF LastWord, Hides
        <3>3. CASE i # done + 1
            <4>1. i \in (done' + 1)..Len(queue')
                BY <2>1, <2>3, <3>3
            <4> QED BY <3>1, <4>1 DEF LastWord, Shows, Hides
        <3> QED BY <3>2, <3>3
    <2> QED BY <2>2, <2>4, <2>5 DEF LastWord
<1> QED BY <1>1, <1>2

LEMMA HandlersWord ==
    ASSUME TypeOK, LiveIsComing, Handle \/ HandlerFails
    PROVE  LiveIsComing'
<1> USE DEF tmux, agentd, link, server
<1>1. CASE HandlerFails
    BY <1>1 DEF HandlerFails, Failed, LiveIsComing
<1>2. CASE HandleUpsert
    <2>1. /\ HasNext /\ UNCHANGED <<pane, known, synced, hidden, queue>>
          /\ (Processed \/ Failed) /\ NextMessage.type = "upsert"
        BY <1>2 DEF HandleUpsert
    <2>2. ASSUME NEW s \in Ids, NEW p \in Panes, Shows(NextMessage, s, p)
          PROVE  ShownIn(s, p)'
        <3>1. row'[s] = Saved(row[s], p)
            BY <1>2, <2>2 DEF HandleUpsert, Shows
        <3> QED BY <3>1, ValuesDiffer DEF Saved, ShownIn
    <2>3. ASSUME NEW s \in Ids, NEW p \in Panes, ShownIn(s, p), ~Hides(NextMessage, s, p)
          PROVE  ShownIn(s, p)'
        <3>1. row[s] # None
            <4>1. Shown(p) \in Rows
                BY DEF Shown, Rows
            <4> QED BY <2>3, <4>1, RowAssumption DEF ShownIn
        <3>2. CASE s \in DOMAIN NextMessage.of
            <4>1. NextMessage.of[s] \in {p, Kept}
                BY <2>1, <2>3, <3>2 DEF Hides
            <4>2. row'[s] = Saved(row[s], NextMessage.of[s])
                BY <1>2, <3>2 DEF HandleUpsert
            <4> QED BY <2>3, <3>1, <4>1, <4>2, ValuesDiffer, SessionsAssumption DEF Saved, ShownIn
        <3>3. CASE s \notin DOMAIN NextMessage.of
            BY <1>2, <2>3, <3>3 DEF HandleUpsert, ShownIn
        <3> QED BY <3>2, <3>3
    <2> QED BY <2>1, <2>2, <2>3, HandledWord
<1>3. CASE HandlePrune
    <2>1. /\ HasNext /\ UNCHANGED <<pane, known, synced, hidden, queue>>
          /\ Processed /\ NextMessage.type = "prune"
          /\ row' = [s \in Ids |-> Pruned(s, NextMessage.keep)]
        BY <1>3 DEF HandlePrune
    <2>2. \A s \in Ids, p \in Panes :
             ShownIn(s, p) /\ ~Hides(NextMessage, s, p) => ShownIn(s, p)'
        BY <2>1 DEF Hides, Pruned, ShownIn
    <2> QED BY <2>1, <2>2, HandledWord DEF Shows
<1>4. CASE HandleEvent
    <2>1. /\ HasNext /\ UNCHANGED <<pane, known, synced, hidden, queue, row>>
          /\ (Processed \/ Failed) /\ NextMessage.type = "event"
        BY <1>4 DEF HandleEvent
    <2> QED BY <2>1, HandledWord DEF Shows, ShownIn
<1> QED BY <1>1, <1>2, <1>3, <1>4 DEF Handle

\* A report that says of a session that lives nothing but where it does.
LEMMA ReportWord ==
    ASSUME TypeOK, LiveIsComing, NEW of \in Reports, Send(<<Upsert(of)>>), row' = row,
           \A s \in Ids, p \in Panes : Counts(s, p)' =>
               /\ LivesIn(s, p) /\ known[s] = p /\ s \in synced /\ ~force
               /\ s \in DOMAIN of => of[s] \in {p, Kept}
               /\ s \in hidden => s \in DOMAIN of /\ of[s] = p
    PROVE  LiveIsComing'
<1> SUFFICES ASSUME NEW s \in Ids, NEW p \in Panes, Counts(s, p)' PROVE LastWord(s, p)'
    BY LiveStep
<1> DEFINE ms == <<Upsert(of)>>
<1>1. ms \in Seq(Messages) /\ Len(ms) = 1 /\ ms[1] = Upsert(of)
    BY UpsertIs
<1>2. Upsert(of).type = "upsert" /\ Upsert(of).of = of
    BY DEF Upsert
<1>3. Send(ms)
    OBVIOUS
<1> HIDE DEF ms
<1>4. CASE s \in DOMAIN of /\ of[s] = p
    <2>1. Shows(ms[1], s, p)
        BY <1>1, <1>2, <1>4 DEF Shows
    <2>2. 1 \in 1..Len(ms) /\ \A j \in (1 + 1)..Len(ms) : ~Hides(ms[j], s, p)
        BY <1>1
    <2> QED BY <1>1, <1>3, <2>1, <2>2, SentWord
<1>5. CASE ~(s \in DOMAIN of /\ of[s] = p)
    <2>1. LastWord(s, p)
        BY <1>5 DEF LiveIsComing
    <2>2. ~Hides(Upsert(of), s, p)
        BY <1>2 DEF Hides
    <2>3. \A j \in 1..Len(ms) : ~Hides(ms[j], s, p)
        BY <1>1, <2>2
    <2> QED BY <1>1, <1>3, <2>1, <2>3, SentWord
<1> QED BY <1>4, <1>5

LEMMA LocalWord ==
    ASSUME TypeOK, NameInv, LiveIsComing,
           \/ Land \/ \E s \in Ids : Emit(s)
           \/ \E p \in Panes : Adopt(p)
           \/ \E s \in Ids, p \in Panes : Spawn(s, p) \/ SpawnChild(s, p)
    PROVE  LiveIsComing'
<1> USE DEF tmux, agentd, link, server
<1>1. CASE Land
    <2>1. PICK of \in flight : Send(<<Upsert(of)>>) /\ hidden' = hidden \ {t \in DOMAIN of : of[t] \in Panes}
        BY <1>1 DEF Land
    <2>2. UNCHANGED <<pane, known, synced, force, row>>
        BY <1>1 DEF Land
    <2>3. of \in Reports
        BY DEF TypeOK
    <2>4. ASSUME NEW s \in Ids, NEW p \in Panes, Counts(s, p)', s \in DOMAIN of
          PROVE  of[s] \in {p, Kept} /\ (of[s] = Kept => s \notin hidden)
        <3>1. In(s, p)
            BY <2>2, <2>4 DEF Counts, LivesIn, In
        <3>2. of[s] \in Panes => of[s] = p
            BY <2>4, <3>1 DEF NameInv, HomeInv, Words
        <3>3. of[s] \notin {Killed, Gone}
            BY <2>4, <3>1 DEF NameInv, EndInv, Words, Over
        <3>4. of[s] = Kept => s \notin hidden
            BY <2>1, <2>4, ValuesDiffer DEF Counts
        <3> QED BY <2>3, <2>4, <3>2, <3>3, <3>4, ReportHas DEF Said
    <2>5. \A s \in Ids, p \in Panes : Counts(s, p)' =>
               /\ LivesIn(s, p) /\ known[s] = p /\ s \in synced /\ ~force
               /\ s \in DOMAIN of => of[s] \in {p, Kept}
               /\ s \in hidden => s \in DOMAIN of /\ of[s] = p
        BY <2>1, <2>2, <2>4 DEF Counts, LivesIn
    <2> QED BY <2>1, <2>2, <2>3, <2>5, ReportWord
<1>2. ASSUME NEW t \in Ids, Emit(t) PROVE LiveIsComing'
    <2>1. Event(t) \in Messages /\ Event(t).type = "event"
        BY DEF Event, Messages
    <2>2. UNCHANGED <<pane, known, synced, force, row, hidden>> /\ Send(<<Event(t)>>)
        BY <1>2 DEF Emit
    <2> SUFFICES ASSUME NEW s \in Ids, NEW p \in Panes, Counts(s, p)' PROVE LastWord(s, p)'
        BY LiveStep
    <2>3. LastWord(s, p)
        BY <2>2 DEF LiveIsComing, Counts, LivesIn
    <2>4. <<Event(t)>> \in Seq(Messages) /\ \A j \in 1..Len(<<Event(t)>>) : ~Hides(<<Event(t)>>[j], s, p)
        BY <2>1 DEF Hides
    <2> QED BY <2>2, <2>3, <2>4, SentWord
<1>3. ASSUME NEW q \in Panes, Adopt(q) PROVE LiveIsComing'
    <2>1. PICK t \in IF {u \in Ids : known[u] = q} # {} THEN {u \in Ids : known[u] = q} ELSE {made + 1} \cap Ids :
             /\ pane' = [pane EXCEPT ![q] = t] /\ known' = [known EXCEPT ![t] = q]
             /\ unmanaged' = unmanaged \ {t} /\ synced' = synced \ {t}
             /\ made' = IF t > made THEN t ELSE made
             /\ Send(<<Upsert([u \in {t} |-> q])>>) /\ hidden' = hidden \ {t}
        BY <1>3 DEF Adopt
    <2>2. t \in Ids /\ UNCHANGED <<force, row>>
        BY <1>3, <2>1 DEF Adopt
    <2>3. PICK of \in Reports : of = [u \in {t} |-> q]
        BY <2>2, OneReport DEF Said
    <2>4. \A s \in Ids, p \in Panes : Counts(s, p)' =>
               /\ LivesIn(s, p) /\ known[s] = p /\ s \in synced /\ ~force
               /\ s \in DOMAIN of => of[s] \in {p, Kept}
               /\ s \in hidden => s \in DOMAIN of /\ of[s] = p
        BY <2>1, <2>2, <2>3 DEF Counts, LivesIn, TypeOK
    <2> QED BY <2>1, <2>2, <2>3, <2>4, ReportWord
<1>4. ASSUME NEW t \in Ids, NEW q \in Panes, Spawn(t, q) PROVE LiveIsComing'
    <2>1. PICK of \in Reports : of = Report(t, q)
        BY ReportTypes DEF Said
    <2>2. /\ pane' = [pane EXCEPT ![q] = t] /\ known' = [known EXCEPT ![t] = q]
          /\ synced' = synced \ {t} /\ UNCHANGED <<force, row>> /\ Send(<<Upsert(of)>>)
          /\ hidden' = hidden \ {u \in DOMAIN of : of[u] \in Panes}
        BY <1>4, <2>1 DEF Spawn
    <2>3. \A u \in DOMAIN of \ {t} : of[u] = known[u]
        BY <2>1, ReportSays
    <2>4. \A s \in Ids, p \in Panes : Counts(s, p)' =>
               /\ LivesIn(s, p) /\ known[s] = p /\ s \in synced /\ ~force
               /\ s \in DOMAIN of => of[s] \in {p, Kept}
               /\ s \in hidden => s \in DOMAIN of /\ of[s] = p
        BY <2>2, <2>3 DEF Counts, LivesIn, TypeOK
    <2> QED BY <2>2, <2>4, ReportWord
<1>5. ASSUME NEW t \in Ids, NEW q \in Panes, SpawnChild(t, q) PROVE LiveIsComing'
    <2>1. made + 1 \in Ids /\ t \in Known
        BY <1>5, SpareMeans DEF SpawnChild
    <2>2. PICK of \in Reports : of = [u \in {t, made + 1} |-> IF u = made + 1 THEN q ELSE known[t]]
        BY <2>1, ChildReport
    <2>3. /\ pane' = [pane EXCEPT ![q] = made + 1] /\ known' = [known EXCEPT ![made + 1] = q]
          /\ UNCHANGED <<force, row, synced>> /\ Send(<<Upsert(of)>>)
          /\ hidden' = {u \in hidden : u = t => known[t] \notin Panes}
        BY <1>5, <2>2 DEF SpawnChild
    <2>4. made + 1 \notin synced
        BY <2>1, FreshIsUntouched DEF Fresh, NameInv, SyncedIsKnown, TypeOK
    <2>5. \A s \in Ids, p \in Panes : Counts(s, p)' =>
               /\ LivesIn(s, p) /\ known[s] = p /\ s \in synced /\ ~force
               /\ s \in DOMAIN of => of[s] \in {p, Kept}
               /\ s \in hidden => s \in DOMAIN of /\ of[s] = p
        BY <2>1, <2>2, <2>3, <2>4 DEF Counts, LivesIn, TypeOK
    <2> QED BY <2>3, <2>5, ReportWord
<1> QED BY <1>1, <1>2, <1>3, <1>4, <1>5

LEMMA PollWord ==
    ASSUME TypeOK, NameInv, LiveIsComing, NEW prune \in BOOLEAN, Sync(prune)
    PROVE  LiveIsComing'
<1>1. PICK active \in SUBSET Ids, at \in [Ids -> Panes \cup {None, Killed}],
           stale \in SUBSET Ids, of \in Reports :
              Polls(prune, active, at, stale, of)
    BY PollIs
<1> DEFINE first == IF DOMAIN of = {} THEN <<>> ELSE <<Upsert(of)>>
           last == IF prune THEN <<Prune(active)>> ELSE <<>>
           ms == first \o last
<1>2. /\ \A s \in Ids, p \in Panes : pane'[p] = s => s \in active /\ p \in Open
      /\ DOMAIN of = (active \ Unchanged(at)) \cup stale
      /\ \A s \in DOMAIN of : of[s] = IF s \in active THEN at[s] ELSE Gone
      /\ known' = [s \in Ids |-> IF s \in stale THEN None ELSE at[s]]
      /\ hidden' = hidden \ DOMAIN of /\ row' = row /\ Send(ms)
    BY <1>1 DEF Polls, Sync
<1>3. Upsert(of) \in Messages /\ Upsert(of).type = "upsert" /\ Upsert(of).of = of
    BY UpsertIs DEF Upsert
<1>4. Prune(active) \in Messages /\ Prune(active).type = "prune" /\ Prune(active).keep = active
    BY DEF Prune, Messages
<1>5. /\ ms \in Seq(Messages)
      /\ \A i \in 1..Len(ms) : ms[i] \in {Upsert(of), Prune(active)}
      /\ DOMAIN of # {} => Len(ms) \in 1..2 /\ ms[1] = Upsert(of)
      /\ \A i \in 2..Len(ms) : ms[i] = Prune(active)
    BY <1>3, <1>4
<1> HIDE DEF ms
<1> SUFFICES ASSUME NEW s \in Ids, NEW p \in Panes, Counts(s, p)' PROVE LastWord(s, p)'
    BY LiveStep
<1>6. s \in active /\ p \in Open /\ at[s] = p
    <2>1. pane'[p] = s /\ known'[s] = p
        BY DEF Counts, LivesIn
    <2> QED BY <1>2, <2>1, ValuesDiffer
<1>7. ~Hides(Prune(active), s, p)
    BY <1>4, <1>6 DEF Hides
<1>8. CASE s \in DOMAIN of
    <2>1. Shows(Upsert(of), s, p)
        BY <1>2, <1>3, <1>6, <1>8 DEF Shows
    <2>2. 1 \in 1..Len(ms) /\ Shows(ms[1], s, p) /\ \A j \in (1 + 1)..Len(ms) : ~Hides(ms[j], s, p)
        BY <1>5, <1>7, <1>8, <2>1
    <2> QED BY <1>2, <1>5, <2>2, SentWord
<1>9. CASE s \notin DOMAIN of
    <2>1. ~force /\ s \in synced /\ pane[p] = s
        BY <1>2, <1>6, <1>9 DEF Unchanged
    <2>2. known[s] = p
        <3>1. known[s] # None /\ In(s, p)
            BY <2>1 DEF NameInv, SyncedIsKnown, In
        <3>2. known[s] # Killed
            BY <3>1 DEF NameInv, EndInv, Over
        <3>3. known[s] \in Panes
            BY <3>1, <3>2 DEF TypeOK
        <3> QED BY <3>1, <3>3 DEF NameInv, HomeInv, In
    <2>3. s \notin hidden
        BY <1>2, <1>9 DEF Counts
    <2>4. LastWord(s, p)
        BY <2>1, <2>2, <2>3 DEF LiveIsComing, LivesIn
    <2>5. ~Hides(Upsert(of), s, p)
        BY <1>3, <1>9 DEF Hides
    <2>6. \A j \in 1..Len(ms) : ~Hides(ms[j], s, p)
        BY <1>5, <1>7, <2>5
    <2> QED BY <1>2, <1>5, <2>4, <2>6, SentWord
<1> QED BY <1>8, <1>9

LEMMA WordNext == TypeOK /\ NameInv /\ LiveIsComing /\ [Next]_vars => LiveIsComing'
<1> SUFFICES ASSUME TypeOK, NameInv, LiveIsComing, [Next]_vars PROVE LiveIsComing'
    OBVIOUS
<1>1. CASE UNCHANGED vars
    BY <1>1, SilentWord DEF vars, tmux, agentd, link, server, Counts, LivesIn
<1>2. CASE \/ TmuxRestarts \/ AgentRestarts \/ Reconnects \/ RequestSpawn
           \/ \E p \in Panes : UserOpens(p) \/ Close(p)
           \/ \E s \in Ids :
                \/ Changed(s) \/ SpawnFails(s) \/ Kill(s) \/ Hook(s)
                \/ UserArchives(s) \/ UserUnarchives(s) \/ UserDeletes(s)
    BY <1>2, QuietWord
<1>3. CASE Ack
    BY <1>3, AckWord
<1>4. CASE Handle \/ HandlerFails
    BY <1>4, HandlersWord
<1>5. CASE \/ Land \/ \E s \in Ids : Emit(s)
           \/ \E p \in Panes : Adopt(p)
           \/ \E s \in Ids, p \in Panes : Spawn(s, p) \/ SpawnChild(s, p)
    BY <1>5, LocalWord
<1>6. CASE \E prune \in BOOLEAN : Sync(prune)
    BY <1>6, PollWord
<1> QED BY <1>1, <1>2, <1>3, <1>4, <1>5, <1>6 DEF Next

LEMMA InvHolds == Spec => []Inv
<1>1. Init => Inv
    BY TypeInit, NameInit DEF Inv, Init, LiveIsComing
<1>2. Inv /\ [Next]_vars => Inv'
    BY TypeNext, NameNext, WordNext DEF Inv
<1> QED BY <1>1, <1>2, PTL DEF Spec

\* One session, one pane: whatever tmux, agentd and the reports between them
\* and the control plane say of a session, they never name two panes for it,
\* nor report its end while it has one.
THEOREM OnePane == Spec => [](HomeInv /\ EndInv)
<1>1. Inv => HomeInv /\ EndInv
    BY DEF Inv, NameInv
<1> QED BY <1>1, InvHolds, PTL

\* Whatever polls, prunes, spawns, repeats and late reports do to each other,
\* the last word of the queue on a session with a pane is that it is there,
\* unless a user has hidden it or the next poll says it again.
THEOREM LastWordHolds == Spec => []LiveIsComing
<1>1. Inv => LiveIsComing
    BY DEF Inv
<1> QED BY <1>1, InvHolds, PTL

=============================================================================
