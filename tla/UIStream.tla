------------------------------ MODULE UIStream ------------------------------
(***************************************************************************)
(* The event stream of one dashboard and one session of the fleet: the     *)
(* browser's reconnecting client (dashboard lib/ws.ts, lib/reconnect.ts),  *)
(* its one-time tickets (security/webSocketAuth.ts), the stream's server   *)
(* side (ws/ui.ts, services/uiStreamResume.ts, webSocketHeartbeat.ts) and  *)
(* the publication of session changes (services/pubsub.ts).                *)
(*                                                                         *)
(* A session's row is reduced to what buildSessionFingerprint tells apart: *)
(* its face, which the page's store compares too, and the rest, which the  *)
(* store does not look at (attention_reason, git_remote and metadata such  *)
(* as the approval, git_status and status_detail).  Writers commit a row   *)
(* and publish their copy of it later; a subscription is answered with a   *)
(* snapshot read between the two.  Nothing orders them, so a copy that is  *)
(* late overwrites a newer one in the page's store (stores/session.ts),    *)
(* until the subscription is sent again.                                   *)
(*                                                                         *)
(* A definition placed just before another with the same parameters and no *)
(* use of its own is that definition with a plausible slip.                *)
(***************************************************************************)
EXTENDS Naturals, Sequences

CONSTANTS
    Sockets,     \* WebSocket objects of the page (reused once both ends are done)
    Values,      \* what a session's row may hold, as records of a face and a rest
    Writers,     \* routes and agent messages that write the row
    MaxAsks,     \* bound: subscribe messages of a socket not yet taken
    MaxUnread,   \* bound: snapshots sent while the browser has not read as many
    MaxMoves,    \* bound: writes of the row, broken connections, restarts, tickets
                 \* lost or expired
    None         \* no session, no socket, no copy

ASSUME UIStreamAssumption ==
    /\ None \notin Sockets \cup Values
    /\ {MaxAsks, MaxUnread, MaxMoves} \subseteq Nat

VARIABLES
    \* the dashboard
    ws,           \* WebSocketClient.ws
    browser,      \* its sockets: "free", "connecting", "open", and "closed" or
                  \* "refused" (4003) until the close event has fired
    minting,      \* connectPromise: a ticket has been asked for
    timer,        \* reconnectTimer is set
    online,       \* navigator.onLine
    signedOut,    \* forceSignIn has left the page
    view,         \* the session in the dashboard's store
    pending,      \* pendingUpdatesRef and pendingDeletesRef of its session list
    \* the connections
    ticket,       \* the socket's ticket is in the WebSocketTicketStore
    broken,       \* connections that carry nothing any more
    toBrowser,    \* messages under way to the page
    asks,         \* subscribe messages under way, or in the subscriptionQueue
    \* the control plane
    server,       \* its end: "off", "up", "refused" or "ended"
    subscribed,   \* pubsub.uiClients has the subscription
    answering,    \* the subscribe message being answered
    row,          \* the session's row
    writer,       \* the copy each writer has committed and not yet published
    fingerprint,  \* lastSessionFingerprint
    moves         \* writes and faults so far

client == <<ws, browser, minting, timer, online, signedOut>>
list == <<view, pending>>
page == <<client, list>>
wire == <<ticket, broken, toBrowser, asks>>
stream == <<server, subscribed, answering>>
fleet == <<row, writer, fingerprint>>
vars == <<page, wire, stream, fleet, moves>>

Rows == Values \cup {None}
Nothing == [at |-> "idle", row |-> None]
NothingPending == [deleted |-> FALSE, update |-> None]

Init ==
    /\ ws = None /\ browser = [i \in Sockets |-> "free"]
    /\ minting = TRUE /\ timer = FALSE /\ online = TRUE /\ signedOut = FALSE
    /\ view = None /\ pending = NothingPending
    /\ ticket = [i \in Sockets |-> FALSE] /\ broken = {}
    /\ toBrowser = [i \in Sockets |-> <<>>] /\ asks = [i \in Sockets |-> 0]
    /\ server = [i \in Sockets |-> "off"] /\ subscribed = {}
    /\ answering = [i \in Sockets |-> Nothing]
    /\ row \in Rows /\ writer = [w \in Writers |-> Nothing] /\ fingerprint = None
    /\ moves = 0

-----------------------------------------------------------------------------
\* The dashboard's client.

IsOpen == ws # None /\ browser[ws] = "open"

\* connect does nothing while a socket is open or on its way, and openSocket
\* nothing while the browser is offline.
BusyIfOpen == minting \/ IsOpen
Busy == minting \/ IsOpen \/ (ws # None /\ browser[ws] = "connecting")

Connect == minting' = (minting \/ (~Busy /\ online))

\* sendSubscriptions.
SendSubscriptions(i) ==
    /\ asks[i] < MaxAsks
    /\ asks' = IF i \in broken THEN asks ELSE [asks EXCEPT ![i] = @ + 1]

\* openSocket goes on with its ticket.
NewSocket(i) ==
    /\ ~signedOut /\ minting /\ browser[i] = "free" /\ server[i] # "up"
    /\ ws' = i /\ browser' = [browser EXCEPT ![i] = "connecting"]
    /\ minting' = FALSE
    /\ ticket' = [ticket EXCEPT ![i] = TRUE] /\ broken' = broken \ {i}
    /\ toBrowser' = [toBrowser EXCEPT ![i] = <<>>] /\ asks' = [asks EXCEPT ![i] = 0]
    /\ server' = [server EXCEPT ![i] = "off"]
    /\ UNCHANGED <<timer, online, signedOut, list, subscribed, answering, fleet, moves>>

\* socket.onopen.
OnOpen(i) ==
    /\ ~signedOut /\ browser[i] = "connecting" /\ server[i] # "off" /\ i \notin broken
    /\ browser' = [browser EXCEPT ![i] = "open"]
    /\ IF ws = i THEN timer' = FALSE /\ SendSubscriptions(i) ELSE UNCHANGED <<timer, asks>>
    /\ UNCHANGED <<ws, minting, online, signedOut, list, ticket, broken, toBrowser,
                   stream, fleet, moves>>

\* sessionsEqual, but for the time of the last activity, which rows leave out.
sessionsEqual(a, b) == a.face = b.face

\* socket.onmessage, of whatever socket: queueSessionUpdates.  An update that
\* differs from the row shown by its activity alone, or by its metadata soon
\* after another such update, is dropped, whatever is pending.
OnMessage(i) ==
    LET copy == Head(toBrowser[i]) IN
    /\ ~signedOut /\ browser[i] = "open" /\ toBrowser[i] # <<>>
    /\ toBrowser' = [toBrowser EXCEPT ![i] = Tail(@)]
    /\ \/ copy = None /\ pending' = [deleted |-> TRUE, update |-> None]
       \/ copy # None /\ pending' = [pending EXCEPT !.update = copy]
       \/ None \notin {copy, view} /\ sessionsEqual(view, copy) /\ UNCHANGED pending
    /\ UNCHANGED <<client, view, ticket, broken, asks, stream, fleet, moves>>

\* flushPendingUpdates, updateSessions: deletions, then updates.  The row that is
\* there stays if sessionsEqual, unless the update has another activity time.
Flush ==
    LET old == IF pending.deleted THEN None ELSE view
        new == pending.update
    IN
    /\ ~signedOut /\ pending # NothingPending
    /\ pending' = NothingPending
    /\ \/ view' = IF new = None THEN old ELSE new
       \/ None \notin {old, new} /\ sessionsEqual(old, new) /\ view' = old
    /\ UNCHANGED <<client, wire, stream, fleet, moves>>

\* The page learns that the socket is closed; its close event is queued.
Close(i) ==
    /\ ~signedOut /\ browser[i] \in {"connecting", "open"}
    /\ i \in broken \/ server[i] \in {"refused", "ended"}
    /\ browser' = [browser EXCEPT
                     ![i] = IF server[i] = "refused" THEN "refused" ELSE "closed"]
    /\ toBrowser' = [toBrowser EXCEPT ![i] = <<>>]
    /\ UNCHANGED <<ws, minting, timer, online, signedOut, list, ticket, broken, asks,
                   stream, fleet, moves>>

\* scheduleReconnect; with a limit of attempts it comes to this.
GivesUp == UNCHANGED timer
Reschedules == timer' = TRUE

\* socket.onclose.

OnClose(i) ==
    /\ ~signedOut /\ browser[i] \in {"closed", "refused"}
    /\ browser' = [browser EXCEPT ![i] = "free"]
    /\ IF ws # i
       THEN UNCHANGED <<ws, timer, signedOut>>
       ELSE /\ ws' = None
            /\ IF browser[i] = "refused"
               THEN signedOut' = TRUE /\ UNCHANGED timer
               ELSE Reschedules /\ UNCHANGED signedOut
    /\ UNCHANGED <<minting, online, list, wire, stream, fleet, moves>>

\* The reconnect timer.
Timer ==
    /\ ~signedOut /\ timer
    /\ timer' = FALSE /\ Connect
    /\ UNCHANGED <<ws, browser, online, signedOut, list, wire, stream, fleet, moves>>

\* retryImmediately.
RetryImmediately ==
    \/ IsOpen /\ SendSubscriptions(ws) /\ UNCHANGED <<timer, minting>>
    \/ ~IsOpen /\ Busy /\ UNCHANGED <<timer, minting, asks>>
    \/ ~Busy /\ timer' = FALSE /\ minting' = online' /\ UNCHANGED asks

\* visibilitychange, pageshow.
Wake ==
    /\ ~signedOut /\ UNCHANGED online /\ RetryImmediately
    /\ UNCHANGED <<ws, browser, signedOut, list, ticket, broken, toBrowser, stream,
                   fleet, moves>>

Online ==
    /\ ~signedOut /\ ~online /\ online' = TRUE
    /\ RetryImmediately
    /\ UNCHANGED <<ws, browser, signedOut, list, ticket, broken, toBrowser, stream,
                   fleet, moves>>

Keepalive ==
    /\ ~signedOut /\ IsOpen /\ SendSubscriptions(ws)
    /\ UNCHANGED <<page, ticket, broken, toBrowser, stream, fleet, moves>>

-----------------------------------------------------------------------------
\* The control plane: one stream.

\* The ticket is redeemed and the client registered (addUIClient), or the
\* socket closed with 4003.
Accept(i) ==
    /\ browser[i] = "connecting" /\ server[i] = "off" /\ i \notin broken
    /\ server' = [server EXCEPT ![i] = IF ticket[i] THEN "up" ELSE "refused"]
    /\ ticket' = [ticket EXCEPT ![i] = FALSE]
    /\ UNCHANGED <<page, broken, toBrowser, asks, subscribed, answering, fleet, moves>>

\* The next ui.subscribe of the subscriptionQueue: setUISubscriptions.
Subscribe(i) ==
    /\ server[i] = "up" /\ asks[i] > 0 /\ answering[i] = Nothing
    /\ asks' = [asks EXCEPT ![i] = @ - 1]
    /\ subscribed' = subscribed \cup {i}
    /\ answering' = [answering EXCEPT ![i].at = "query"]
    /\ UNCHANGED <<page, ticket, broken, toBrowser, server, fleet, moves>>

\* initialSnapshot: the query is executed, and its result awaited.
ReadSnapshot(i) ==
    /\ answering[i].at = "query"
    /\ answering' = [answering EXCEPT ![i] = [at |-> "send", row |-> row]]
    /\ UNCHANGED <<page, wire, server, subscribed, fleet, moves>>

\* What reaches the page when m is sent to the sockets in S.
Sent(S, m) ==
    [i \in Sockets |-> IF i \in S /\ server[i] = "up" /\ i \notin broken
                       THEN Append(toBrowser[i], m) ELSE toBrowser[i]]

\* A session that is gone is not mentioned.
SendSnapshot(i) ==
    LET copy == answering[i].row IN
    /\ answering[i].at = "send"
    /\ Len(toBrowser[i]) < MaxUnread
    /\ toBrowser' = IF copy = None THEN toBrowser ELSE Sent({i}, copy)
    /\ answering' = [answering EXCEPT ![i] = Nothing]
    /\ UNCHANGED <<page, ticket, broken, asks, server, subscribed, fleet, moves>>

\* The close handlers: removeUIClient.
Ended(S) ==
    /\ server' = [i \in Sockets |-> IF i \in S /\ server[i] = "up" THEN "ended" ELSE server[i]]
    /\ subscribed' = subscribed \ S
    /\ answering' = [i \in Sockets |-> IF i \in S THEN Nothing ELSE answering[i]]
    /\ asks' = [i \in Sockets |-> IF i \in S THEN 0 ELSE asks[i]]

\* The heartbeat terminates a socket whose pongs have stopped.
Heartbeat(i) ==
    /\ server[i] = "up" /\ i \in broken
    /\ Ended({i})
    /\ UNCHANGED <<page, ticket, broken, toBrowser, fleet, moves>>

-----------------------------------------------------------------------------
\* The control plane: the row, and what is published of it.

Move == moves < MaxMoves /\ moves' = moves + 1

\* upsertSession, updateSession, deleteSession; handleSessionsPrune publishes
\* nothing of what it writes.
Write(w, copy) ==
    /\ Move /\ writer[w] = Nothing
    /\ row' = copy
    /\ \/ writer' = [writer EXCEPT ![w] = [at |-> "publish", row |-> copy]]
       \/ copy # None /\ UNCHANGED writer
    /\ UNCHANGED <<page, wire, stream, fingerprint>>

\* publishSessionsChanged: a deletion always, a row if its fingerprint is new.
Publish(w) ==
    LET copy == writer[w].row IN
    /\ writer[w].at = "publish"
    /\ writer' = [writer EXCEPT ![w] = Nothing]
    /\ toBrowser' = IF copy # None /\ copy = fingerprint THEN toBrowser
                    ELSE Sent(subscribed, copy)
    /\ fingerprint' = copy
    /\ UNCHANGED <<page, ticket, broken, asks, stream, row, moves>>

-----------------------------------------------------------------------------
Offline ==
    /\ Move /\ online /\ online' = FALSE
    /\ UNCHANGED <<ws, browser, minting, timer, signedOut, list, wire, stream, fleet>>

\* The ticket request fails or times out.
MintFails ==
    /\ Move /\ ~signedOut /\ minting
    /\ minting' = FALSE /\ Reschedules
    /\ UNCHANGED <<ws, browser, online, signedOut, list, wire, stream, fleet>>

\* WS_TICKET_TTL_SECONDS pass before the socket's request arrives.
TicketExpires(i) ==
    /\ Move /\ ticket[i] /\ ticket' = [ticket EXCEPT ![i] = FALSE]
    /\ UNCHANGED <<page, broken, toBrowser, asks, stream, fleet>>

\* Neither end is told.
Break(i) ==
    /\ Move /\ i \notin broken /\ browser[i] \in {"connecting", "open"}
    /\ broken' = broken \cup {i} /\ asks' = [asks EXCEPT ![i] = 0]
    /\ UNCHANGED <<page, ticket, toBrowser, stream, fleet>>

\* Sockets, tickets, copies to publish and fingerprints are in memory.
ServerRestart ==
    /\ Move
    /\ Ended(Sockets)
    /\ ticket' = [i \in Sockets |-> FALSE]
    /\ writer' = [w \in Writers |-> Nothing] /\ fingerprint' = None
    /\ UNCHANGED <<page, broken, toBrowser, row>>

PageStep(i) == NewSocket(i) \/ OnOpen(i) \/ OnMessage(i) \/ Close(i) \/ OnClose(i)
StreamStep(i) == Accept(i) \/ Subscribe(i) \/ ReadSnapshot(i) \/ SendSnapshot(i)
                 \/ Heartbeat(i)

Next ==
    \/ \E i \in Sockets : PageStep(i) \/ StreamStep(i)
    \/ Timer \/ Wake \/ Online \/ Keepalive \/ Flush
    \/ \E w \in Writers : Publish(w) \/ \E copy \in Rows : Write(w, copy)
    \/ Offline \/ MintFails \/ ServerRestart
    \/ \E i \in Sockets : TicketExpires(i) \/ Break(i)

Spec == Init /\ [][Next]_vars

\* Timers fire, tickets and connections come through when nothing breaks them,
\* requests and queries end, and the network comes back.
Fairness ==
    /\ \A i \in Sockets :
         /\ WF_vars(OnMessage(i)) /\ WF_vars(OnOpen(i)) /\ WF_vars(Close(i))
         /\ WF_vars(OnClose(i)) /\ WF_vars(StreamStep(i))
    /\ WF_vars(\E i \in Sockets : NewSocket(i))
    /\ WF_vars(Timer) /\ WF_vars(Online) /\ WF_vars(Keepalive) /\ WF_vars(Flush)
    /\ \A w \in Writers : WF_vars(Publish(w))

FairSpec == Spec /\ Fairness

-----------------------------------------------------------------------------
\* The variables hold what they may hold.
TypeOK ==
    /\ ws \in Sockets \cup {None}
    /\ browser \in [Sockets -> {"free", "connecting", "open", "closed", "refused"}]
    /\ {minting, timer, online, signedOut} \subseteq BOOLEAN
    /\ view \in Rows /\ pending \in [deleted : BOOLEAN, update : Rows]
    /\ ticket \in [Sockets -> BOOLEAN] /\ broken \subseteq Sockets
    /\ toBrowser \in [Sockets -> Seq(Rows)] /\ asks \in [Sockets -> 0..MaxAsks]
    /\ server \in [Sockets -> {"off", "up", "refused", "ended"}]
    /\ subscribed \subseteq {i \in Sockets : server[i] = "up"}
    /\ answering \in [Sockets -> [at : {"idle", "query", "send"}, row : Rows]]
    /\ row \in Rows /\ writer \in [Writers -> [at : {"idle", "publish"}, row : Rows]]
    /\ fingerprint \in Rows
    /\ moves \in 0..MaxMoves

\* The page has at most one socket to the stream and it is the one its client
\* knows, whatever timers, visibility changes and late close events coincide:
\* another would deliver every message twice and nobody would close it.
OneSocket ==
    \A i \in Sockets : browser[i] \in {"connecting", "open"} => ws = i

\* A page that is online and signed in always has a socket, a ticket on its way
\* or a timer that will ask for one: it never stops trying.
NeverGivesUp == online /\ ~signedOut => ws # None \/ minting \/ timer

=============================================================================
