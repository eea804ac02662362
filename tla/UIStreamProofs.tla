--------------------------- MODULE UIStreamProofs ---------------------------
(***************************************************************************)
(* Proofs about UIStream: its types, and the two safety properties of the  *)
(* reconnecting client, for every number of sockets, writers, writes and   *)
(* faults.  EventuallyCurrent is left to TLC.                              *)
(***************************************************************************)
EXTENDS UIStream, TLAPS

\* What the page's client and its session list consist of is known throughout.
USE DEF client, list

\* A socket of the page is alive until the page learns that it is closed.
Alive(i) == browser[i] \in {"connecting", "open"}

\* The messages under way to the page are copies of the row.
LEMMA SentTypes ==
    ASSUME TypeOK, NEW S \in SUBSET Sockets, NEW m \in Rows
    PROVE  Sent(S, m) \in [Sockets -> Seq(Rows)]
BY DEF TypeOK, Sent

\* The variables a close handler of the control plane touches keep their types.
LEMMA EndedTypes ==
    ASSUME TypeOK, NEW S \in SUBSET Sockets, Ended(S)
    PROVE  /\ server' \in [Sockets -> {"off", "up", "refused", "ended"}]
           /\ subscribed' \subseteq {i \in Sockets : server'[i] = "up"}
           /\ asks' \in [Sockets -> 0..MaxAsks]
           /\ answering' \in [Sockets -> [at : {"idle", "query", "send"}, row : Rows]]
<1>1. server' \in [Sockets -> {"off", "up", "refused", "ended"}]
    BY DEF TypeOK, Ended
<1>2. subscribed' \subseteq {i \in Sockets : server'[i] = "up"}
    BY DEF TypeOK, Ended
<1>3. asks' \in [Sockets -> 0..MaxAsks]
    BY UIStreamAssumption DEF TypeOK, Ended
<1>4. Nothing \in [at : {"idle", "query", "send"}, row : Rows]
    BY DEF Nothing, Rows
<1>5. QED
    BY <1>1, <1>2, <1>3, <1>4 DEF TypeOK, Ended

\* A subscription sent is one more message under way, up to the bound.
LEMMA AsksTypes ==
    ASSUME TypeOK, NEW i \in Sockets, SendSubscriptions(i)
    PROVE  asks' \in [Sockets -> 0..MaxAsks]
<1>1. asks[i] + 1 \in 0..MaxAsks
    BY UIStreamAssumption DEF TypeOK, SendSubscriptions
<1>2. QED
    BY <1>1 DEF TypeOK, SendSubscriptions

\* retryImmediately touches the timer, the ticket request and asks.
LEMMA RetryTypes ==
    ASSUME TypeOK, online' \in BOOLEAN, RetryImmediately
    PROVE  {minting', timer'} \subseteq BOOLEAN /\ asks' \in [Sockets -> 0..MaxAsks]
<1>1. CASE IsOpen /\ SendSubscriptions(ws) /\ UNCHANGED <<timer, minting>>
    <2>1. ws \in Sockets
        BY <1>1 DEF TypeOK, IsOpen
    <2>2. QED
        BY <1>1, <2>1, AsksTypes DEF TypeOK
<1>2. CASE ~IsOpen /\ Busy /\ UNCHANGED <<timer, minting, asks>>
    BY <1>2 DEF TypeOK
<1>3. CASE ~Busy /\ timer' = FALSE /\ minting' = online' /\ UNCHANGED asks
    BY <1>3 DEF TypeOK
<1>4. QED
    BY <1>1, <1>2, <1>3 DEF RetryImmediately

LEMMA MoveTypes == ASSUME TypeOK, Move PROVE moves' \in 0..MaxMoves
BY UIStreamAssumption DEF TypeOK, Move

\* The initial state has the types.
LEMMA InitTypes == Init => TypeOK
<1> SUFFICES ASSUME Init PROVE TypeOK
    OBVIOUS
<1>1. 0 \in 0..MaxAsks /\ 0 \in 0..MaxMoves
    BY UIStreamAssumption
<1>2. /\ Nothing \in [at : {"idle", "query", "send"}, row : Rows]
      /\ Nothing \in [at : {"idle", "publish"}, row : Rows]
    BY DEF Nothing, Rows
<1>3. toBrowser \in [Sockets -> Seq(Rows)] /\ asks \in [Sockets -> 0..MaxAsks]
    BY <1>1 DEF Init
<1>4. answering \in [Sockets -> [at : {"idle", "query", "send"}, row : Rows]]
    BY <1>2 DEF Init
<1>5. writer \in [Writers -> [at : {"idle", "publish"}, row : Rows]]
    BY <1>2 DEF Init
<1>6. QED
    BY <1>1, <1>3, <1>4, <1>5 DEF Init, TypeOK, Rows, NothingPending

\* The page's own steps keep the types.
LEMMA PageTypes ==
    ASSUME TypeOK, NEW i \in Sockets, PageStep(i) PROVE TypeOK'
<1>1. CASE NewSocket(i)
    <2>1. subscribed' \subseteq {j \in Sockets : server'[j] = "up"}
        BY <1>1 DEF TypeOK, NewSocket
    <2>2. toBrowser' \in [Sockets -> Seq(Rows)] /\ asks' \in [Sockets -> 0..MaxAsks]
        <3>1. 0 \in 0..MaxAsks /\ <<>> \in Seq(Rows)
            BY UIStreamAssumption
        <3>2. QED
            BY <1>1, <3>1 DEF TypeOK, NewSocket
    <2>3. /\ browser' \in [Sockets -> {"free", "connecting", "open", "closed", "refused"}]
          /\ server' \in [Sockets -> {"off", "up", "refused", "ended"}]
          /\ ticket' \in [Sockets -> BOOLEAN]
        BY <1>1 DEF TypeOK, NewSocket
    <2>4. QED
        BY <1>1, <2>1, <2>2, <2>3 DEF TypeOK, NewSocket, fleet, Rows
<1>2. CASE OnOpen(i)
    <2>1. timer' \in BOOLEAN /\ asks' \in [Sockets -> 0..MaxAsks]
        BY <1>2, AsksTypes DEF TypeOK, OnOpen
    <2>2. QED
        BY <1>2, <2>1 DEF TypeOK, OnOpen, stream, fleet, Rows
<1>3. CASE OnMessage(i)
    <2>1. Head(toBrowser[i]) \in Rows /\ Tail(toBrowser[i]) \in Seq(Rows)
        BY <1>3 DEF TypeOK, OnMessage
    <2>2. pending' \in [deleted : BOOLEAN, update : Rows]
        <3>1. \A c \in Rows : [pending EXCEPT !.update = c] \in [deleted : BOOLEAN, update : Rows]
            BY DEF TypeOK
        <3>2. [deleted |-> TRUE, update |-> None] \in [deleted : BOOLEAN, update : Rows]
            BY DEF Rows
        <3>3. \/ pending' = [deleted |-> TRUE, update |-> None]
              \/ pending' = [pending EXCEPT !.update = Head(toBrowser[i])]
              \/ pending' = pending
            BY <1>3 DEF OnMessage
        <3>4. QED
            BY <2>1, <3>1, <3>2, <3>3 DEF TypeOK
    <2>3. toBrowser' \in [Sockets -> Seq(Rows)]
        BY <1>3, <2>1 DEF TypeOK, OnMessage
    <2>4. QED
        BY <1>3, <2>2, <2>3 DEF TypeOK, OnMessage, stream, fleet
<1>4. CASE Close(i)
    BY <1>4 DEF TypeOK, Close, stream, fleet, Rows
<1>5. CASE OnClose(i)
    BY <1>5 DEF TypeOK, OnClose, Reschedules, wire, stream, fleet, Rows
<1>6. QED
    BY <1>1, <1>2, <1>3, <1>4, <1>5 DEF PageStep

\* The steps of a stream on the control plane keep the types.
LEMMA StreamTypes ==
    ASSUME TypeOK, NEW i \in Sockets, StreamStep(i) PROVE TypeOK'
<1>1. CASE Accept(i)
    BY <1>1 DEF TypeOK, Accept, page, fleet, Rows
<1>2. CASE Subscribe(i)
    <2>1. asks[i] - 1 \in 0..MaxAsks
        BY <1>2, UIStreamAssumption DEF TypeOK, Subscribe
    <2>2. QED
        BY <1>2, <2>1 DEF TypeOK, Subscribe, page, fleet, Rows
<1>3. CASE ReadSnapshot(i)
    BY <1>3 DEF TypeOK, ReadSnapshot, page, wire, fleet, Rows
<1>4. CASE SendSnapshot(i)
    <2>1. toBrowser' \in [Sockets -> Seq(Rows)]
        BY <1>4, SentTypes DEF TypeOK, SendSnapshot
    <2>2. Nothing \in [at : {"idle", "query", "send"}, row : Rows]
        BY DEF Nothing, Rows
    <2>3. QED
        BY <1>4, <2>1, <2>2 DEF TypeOK, SendSnapshot, page, fleet, Rows
<1>5. CASE Heartbeat(i)
    <2>1. Ended({i})
        BY <1>5 DEF Heartbeat
    <2>2. QED
        BY <1>5, <2>1, EndedTypes DEF TypeOK, Heartbeat, page, fleet, Rows
<1>6. QED
    BY <1>1, <1>2, <1>3, <1>4, <1>5 DEF StreamStep

\* Every step keeps the types.
LEMMA StepTypes == TypeOK /\ [Next]_vars => TypeOK'
<1> SUFFICES ASSUME TypeOK, [Next]_vars PROVE TypeOK'
    OBVIOUS
<1>1. ASSUME NEW i \in Sockets, PageStep(i) \/ StreamStep(i) PROVE TypeOK'
    BY <1>1, PageTypes, StreamTypes
<1>2. CASE Timer
    BY <1>2 DEF TypeOK, Timer, Connect, wire, stream, fleet, Rows
<1>3. CASE Wake
    <2>1. online' \in BOOLEAN /\ RetryImmediately
        BY <1>3 DEF Wake, TypeOK
    <2>2. QED
        BY <1>3, <2>1, RetryTypes DEF TypeOK, Wake, stream, fleet, Rows
<1>4. CASE Online
    <2>1. online' \in BOOLEAN /\ RetryImmediately
        BY <1>4 DEF Online, TypeOK
    <2>2. QED
        BY <1>4, <2>1, RetryTypes DEF TypeOK, Online, stream, fleet, Rows
<1>5. CASE Keepalive
    <2>1. ws \in Sockets /\ SendSubscriptions(ws)
        BY <1>5 DEF TypeOK, Keepalive, IsOpen
    <2>2. asks' \in [Sockets -> 0..MaxAsks]
        BY <2>1, AsksTypes
    <2>3. QED
        BY <1>5, <2>2 DEF TypeOK, Keepalive, page, stream, fleet, Rows
<1>flush. CASE Flush
    <2>1. view' \in Rows /\ NothingPending \in [deleted : BOOLEAN, update : Rows]
        BY <1>flush DEF TypeOK, Flush, Rows, NothingPending
    <2>2. QED
        BY <1>flush, <2>1 DEF TypeOK, Flush, wire, stream, fleet
<1>6. ASSUME NEW w \in Writers, Publish(w) PROVE TypeOK'
    <2>1. writer[w].row \in Rows
        BY DEF TypeOK
    <2>2. toBrowser' \in [Sockets -> Seq(Rows)]
        BY <1>6, <2>1, SentTypes DEF TypeOK, Publish
    <2>3. Nothing \in [at : {"idle", "publish"}, row : Rows]
        BY DEF Nothing, Rows
    <2>4. QED
        BY <1>6, <2>1, <2>2, <2>3 DEF TypeOK, Publish, page, stream
<1>7. ASSUME NEW w \in Writers, NEW copy \in Rows, Write(w, copy) PROVE TypeOK'
    <2>1. moves' \in 0..MaxMoves
        BY <1>7, MoveTypes DEF Write
    <2>2. writer' \in [Writers -> [at : {"idle", "publish"}, row : Rows]]
        <3>1. [at |-> "publish", row |-> copy] \in [at : {"idle", "publish"}, row : Rows]
            OBVIOUS
        <3>2. \/ writer' = [writer EXCEPT ![w] = [at |-> "publish", row |-> copy]]
              \/ writer' = writer
            BY <1>7 DEF Write
        <3>3. QED
            BY <3>1, <3>2 DEF TypeOK
    <2>3. QED
        BY <1>7, <2>1, <2>2 DEF TypeOK, Write, page, wire, stream
<1>8. CASE Offline
    BY <1>8, MoveTypes DEF TypeOK, Offline, wire, stream, fleet, Rows
<1>9. CASE MintFails
    BY <1>9, MoveTypes DEF TypeOK, MintFails, Reschedules, wire, stream, fleet, Rows
<1>10. CASE ServerRestart
    <2>1. Ended(Sockets) /\ moves' \in 0..MaxMoves
        BY <1>10, MoveTypes DEF ServerRestart
    <2>2. Nothing \in [at : {"idle", "publish"}, row : Rows] /\ None \in Rows
        BY DEF Nothing, Rows
    <2>3. QED
        BY <1>10, <2>1, <2>2, EndedTypes DEF TypeOK, ServerRestart, page
<1>11. ASSUME NEW i \in Sockets, TicketExpires(i) PROVE TypeOK'
    BY <1>11, MoveTypes DEF TypeOK, TicketExpires, page, stream, fleet, Rows
<1>12. ASSUME NEW i \in Sockets, Break(i) PROVE TypeOK'
    BY <1>12, MoveTypes, UIStreamAssumption DEF TypeOK, Break, page, stream, fleet, Rows
<1>13. CASE UNCHANGED vars
    BY <1>13 DEF TypeOK, vars, page, wire, stream, fleet, Rows
<1>14. QED
    BY <1>1, <1>2, <1>3, <1>4, <1>5, <1>6, <1>7, <1>8, <1>9, <1>10, <1>11, <1>12,
       <1>13, <1>flush DEF Next

\* The variables of the client, the connections and the control plane keep their
\* types through every step, fault and restart.
THEOREM TypeCorrect == Spec => []TypeOK
<1>1. QED
    BY InitTypes, StepTypes, PTL DEF Spec

-----------------------------------------------------------------------------
\* OneSocket is inductive only with what connect relies on: a ticket is asked
\* for, and stays asked for, only while the socket the client knows is dead.
OneInv ==
    /\ TypeOK
    /\ OneSocket
    /\ minting => \A i \in Sockets : ~Alive(i)

\* The client is idle exactly when it may connect.
LEMMA NotBusy ==
    ASSUME TypeOK, OneSocket, ~Busy PROVE \A i \in Sockets : ~Alive(i)
BY UIStreamAssumption DEF OneSocket, Busy, IsOpen, Alive

\* retryImmediately asks for a ticket only when no socket is alive.
LEMMA RetryOne ==
    ASSUME OneInv, RetryImmediately, minting', UNCHANGED browser
    PROVE  \A i \in Sockets : ~Alive(i)'
BY NotBusy DEF OneInv, RetryImmediately, Alive, Busy

\* A step that leaves the client's sockets alone, or lets one of them die, and
\* asks for no ticket keeps OneInv.
LEMMA OneKept ==
    ASSUME OneInv, TypeOK', ws' = ws, minting' => minting,
           \A i \in Sockets : Alive(i)' => Alive(i)
    PROVE  OneInv'
BY DEF OneInv, OneSocket, Alive

\* Every step keeps OneInv.
LEMMA OneStep == OneInv /\ [Next]_vars => OneInv'
<1> SUFFICES ASSUME OneInv, [Next]_vars PROVE OneInv'
    OBVIOUS
<1>0. TypeOK /\ TypeOK'
    BY StepTypes DEF OneInv
<1>1. ASSUME NEW i \in Sockets, NewSocket(i) PROVE OneInv'
    <2>1. \A j \in Sockets : Alive(j)' => j = i
        BY <1>0, <1>1 DEF OneInv, NewSocket, TypeOK, Alive
    <2>2. QED
        BY <1>0, <1>1, <2>1 DEF OneInv, OneSocket, NewSocket, Alive
<1>2. ASSUME NEW i \in Sockets, OnOpen(i) PROVE OneInv'
    <2>1. \A j \in Sockets : Alive(j)' => Alive(j)
        BY <1>0, <1>2 DEF OnOpen, TypeOK, Alive
    <2>2. QED
        BY <1>0, <1>2, <2>1, OneKept DEF OnOpen
<1>3. ASSUME NEW i \in Sockets, OnMessage(i) PROVE OneInv'
    BY <1>0, <1>3, OneKept DEF OnMessage, Alive
<1>4. ASSUME NEW i \in Sockets, Close(i) PROVE OneInv'
    <2>1. \A j \in Sockets : Alive(j)' => Alive(j)
        BY <1>0, <1>4 DEF Close, TypeOK, Alive
    <2>2. QED
        BY <1>0, <1>4, <2>1, OneKept DEF Close
<1>5. ASSUME NEW i \in Sockets, OnClose(i) PROVE OneInv'
    <2>1. \A j \in Sockets : Alive(j)' => Alive(j) /\ j # i
        BY <1>0, <1>5 DEF OnClose, TypeOK, Alive
    <2>2. CASE ws # i
        BY <1>0, <1>5, <2>1, <2>2, OneKept DEF OnClose
    <2>3. CASE ws = i
        \* The socket that dies was the only one.
        <3>1. \A j \in Sockets : ~Alive(j)'
            BY <2>1, <2>3 DEF OneInv, OneSocket, Alive
        <3>2. QED
            BY <1>0, <3>1 DEF OneInv, OneSocket, Alive
    <2>4. QED
        BY <2>2, <2>3
<1>6. ASSUME NEW i \in Sockets, StreamStep(i) PROVE OneInv'
    BY <1>0, <1>6, OneKept DEF StreamStep, Accept, Subscribe, ReadSnapshot,
       SendSnapshot, Heartbeat, page, wire, Alive
<1>7. CASE Timer
    <2>1. ws' = ws /\ browser' = browser
        BY <1>7 DEF Timer
    <2>2. CASE ~Busy
        <3>1. \A i \in Sockets : ~Alive(i)'
            BY <2>1, <2>2, NotBusy DEF OneInv, Alive
        <3>2. QED
            BY <1>0, <2>1, <3>1 DEF OneInv, OneSocket, Alive
    <2>3. CASE Busy
        BY <1>0, <1>7, <2>1, <2>3, OneKept DEF Timer, Connect, Alive
    <2>4. QED
        BY <2>2, <2>3
<1>8. CASE Wake \/ Online
    <2>1. ws' = ws /\ browser' = browser /\ RetryImmediately
        BY <1>8 DEF Wake, Online
    <2>2. CASE minting'
        BY <1>0, <2>1, <2>2, RetryOne DEF OneInv, OneSocket, Alive
    <2>3. CASE ~minting'
        BY <1>0, <2>1, <2>3, OneKept DEF Alive
    <2>4. QED
        BY <2>2, <2>3
<1>9. CASE Keepalive
    BY <1>0, <1>9, OneKept DEF Keepalive, page, Alive
<1>flush. CASE Flush
    BY <1>0, <1>flush, OneKept DEF Flush, Alive
<1>10. ASSUME NEW w \in Writers, Publish(w) PROVE OneInv'
    BY <1>0, <1>10, OneKept DEF Publish, page, Alive
<1>11. ASSUME NEW w \in Writers, NEW copy \in Rows, Write(w, copy) PROVE OneInv'
    BY <1>0, <1>11, OneKept DEF Write, page, Alive
<1>12. CASE Offline
    BY <1>0, <1>12, OneKept DEF Offline, Alive
<1>13. CASE MintFails
    BY <1>0, <1>13, OneKept DEF MintFails, Alive
<1>14. CASE ServerRestart
    BY <1>0, <1>14, OneKept DEF ServerRestart, page, Alive
<1>15. ASSUME NEW i \in Sockets, TicketExpires(i) \/ Break(i) PROVE OneInv'
    BY <1>0, <1>15, OneKept DEF TicketExpires, Break, page, Alive
<1>16. CASE UNCHANGED vars
    BY <1>0, <1>16, OneKept DEF vars, page, Alive
<1>17. QED
    BY <1>1, <1>2, <1>3, <1>4, <1>5, <1>6, <1>7, <1>8, <1>9, <1>10, <1>11, <1>12,
       <1>13, <1>14, <1>15, <1>16, <1>flush DEF Next, PageStep

\* Whatever timers, wake-ups and late close events coincide, the page has at most
\* one live socket, the one its client knows.
THEOREM SocketIsOne == Spec => []OneSocket
<1>1. Init => OneInv
    BY InitTypes DEF Init, OneInv, OneSocket, Alive
<1>2. OneInv => OneSocket
    BY DEF OneInv
<1>3. QED
    BY <1>1, <1>2, OneStep, PTL DEF Spec

-----------------------------------------------------------------------------
\* A step after which the client still has what it had, or has nothing to try
\* with because it is offline or signed out, keeps NeverGivesUp.
LEMMA TryingKept ==
    ASSUME NeverGivesUp, online' => online, signedOut => signedOut',
           ws # None => ws' # None, minting => minting', timer => timer'
    PROVE  NeverGivesUp'
BY DEF NeverGivesUp

\* Every step keeps NeverGivesUp.
LEMMA TryingStep == TypeOK /\ NeverGivesUp /\ [Next]_vars => NeverGivesUp'
<1> SUFFICES ASSUME TypeOK, NeverGivesUp, [Next]_vars PROVE NeverGivesUp'
    OBVIOUS
<1>1. ASSUME NEW i \in Sockets, NewSocket(i) PROVE NeverGivesUp'
    BY <1>1, UIStreamAssumption DEF NewSocket, NeverGivesUp
<1>2. ASSUME NEW i \in Sockets, OnOpen(i) PROVE NeverGivesUp'
    BY <1>2, UIStreamAssumption DEF OnOpen, NeverGivesUp
<1>3. ASSUME NEW i \in Sockets, OnMessage(i) PROVE NeverGivesUp'
    BY <1>3, TryingKept DEF OnMessage
<1>4. ASSUME NEW i \in Sockets, Close(i) PROVE NeverGivesUp'
    BY <1>4, TryingKept DEF Close
<1>5. ASSUME NEW i \in Sockets, OnClose(i) PROVE NeverGivesUp'
    BY <1>5 DEF OnClose, Reschedules, NeverGivesUp
<1>6. ASSUME NEW i \in Sockets, StreamStep(i) PROVE NeverGivesUp'
    BY <1>6, TryingKept DEF StreamStep, Accept, Subscribe, ReadSnapshot,
       SendSnapshot, Heartbeat, page, wire
<1>7. CASE Timer
    BY <1>7 DEF Timer, Connect, Busy, IsOpen, NeverGivesUp
<1>8. CASE Wake \/ Online
    BY <1>8 DEF Wake, Online, RetryImmediately, Busy, IsOpen, NeverGivesUp
<1>9. CASE Keepalive
    BY <1>9, TryingKept DEF Keepalive, page
<1>flush. CASE Flush
    BY <1>flush, TryingKept DEF Flush
<1>10. ASSUME NEW w \in Writers, Publish(w) PROVE NeverGivesUp'
    BY <1>10, TryingKept DEF Publish, page
<1>11. ASSUME NEW w \in Writers, NEW copy \in Rows, Write(w, copy) PROVE NeverGivesUp'
    BY <1>11, TryingKept DEF Write, page
<1>12. CASE Offline
    BY <1>12, TryingKept DEF Offline
<1>13. CASE MintFails
    BY <1>13 DEF MintFails, Reschedules, NeverGivesUp
<1>14. CASE ServerRestart
    BY <1>14, TryingKept DEF ServerRestart, page
<1>15. ASSUME NEW i \in Sockets, TicketExpires(i) \/ Break(i) PROVE NeverGivesUp'
    BY <1>15, TryingKept DEF TicketExpires, Break, page
<1>16. CASE UNCHANGED vars
    BY <1>16, TryingKept DEF vars, page
<1>17. QED
    BY <1>1, <1>2, <1>3, <1>4, <1>5, <1>6, <1>7, <1>8, <1>9, <1>10, <1>11, <1>12,
       <1>13, <1>14, <1>15, <1>16, <1>flush DEF Next, PageStep

\* A page that is online and signed in never stops trying to reach the stream.
THEOREM KeepsTrying == Spec => []NeverGivesUp
<1>1. Init => NeverGivesUp
    BY DEF Init, NeverGivesUp
<1>2. QED
    BY <1>1, InitTypes, StepTypes, TryingStep, PTL DEF Spec

=============================================================================
