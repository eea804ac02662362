------------------------------ MODULE Terminal ------------------------------
(***************************************************************************)
(* The terminal channels of one host: browser tabs attach to tmux panes    *)
(* through the control plane (routes/terminal.ts) and agentd's per-viewer  *)
(* terminal manager (internal/tmux/terminal.go), which lets one viewer of  *)
(* a pane write and makes the others read-only.                            *)
(*                                                                         *)
(* agentd handles the control plane's messages one after another on the    *)
(* reader of its connection, and a reader that ends marks every viewer     *)
(* stale before a new one starts (internal/ws/client.go:151); only the     *)
(* sweeper runs beside it.  Messages about terminals are volatile: what is *)
(* sent while the connection is broken is lost, either way.                *)
(*                                                                         *)
(* A viewer is named by its resume token, and a viewer's first channel     *)
(* stands for the token: both are fresh UUIDs.  Every call of tmux may     *)
(* fail.  The age of a viewer is left out: the sweeper may take any that   *)
(* is stale or detached.                                                   *)
(*                                                                         *)
(* A definition placed just before another with the same parameters and no *)
(* use of its own is that definition with a plausible slip.                *)
(***************************************************************************)
EXTENDS Naturals, Sequences, FiniteSets

CONSTANTS
    Tabs,        \* browser tabs that show the session's terminal
    MaxChannels, \* bound: channel ids given out, which are also the resume tokens
    Panes,       \* tmux panes of the host
    Home,        \* the pane of the session, to which every tab attaches
    MaxAsked,    \* bound: messages waiting for agentd when a tab asks for more
    MaxTold,     \* bound: statuses under way when agentd takes its next message
    MaxFaults,   \* bound: broken connections, restarts, failures of tmux
    None         \* no channel, no token, no pane

Channels == 1..MaxChannels

ASSUME TerminalAssumption ==
    /\ Home \in Panes /\ None \notin Channels \cup Panes \cup Tabs
    /\ {MaxChannels, MaxAsked, MaxTold, MaxFaults} \subseteq Nat

VARIABLES
    \* the dashboard (useTerminalConnection)
    socket,       \* the channel of the tab's open WebSocket
    resumeToken,  \* resumeTokenRef
    role,         \* what the tab shows: "off", "waiting", "control", "readonly"
    \* the control plane (routes/terminal.ts)
    served,       \* activeChannels
    owner,        \* the tab at the other end of the channel's uiSocket
    token,        \* ActiveTerminalChannel.resumeToken
    failed,       \* history: channels forgotten because of an error status
    \* the connection between the control plane and agentd
    link,         \* "up", "dead" (agentd has not noticed yet) or "down"
    toAgent, toServer,
    \* agentd (TerminalManager), by resume token
    viewer,       \* viewerByToken: "none", "live", "stale", "detached"
    channel,      \* terminalViewer.channelID
    pane,         \* terminalViewer.paneID and channelToPane
    readOnly,     \* channelReadOnly of its channel
    bridge,       \* terminalViewer.bridge is not nil
    controller,   \* paneController
    handing,      \* Detach has released the lock and will assign this pane
    nFaults

browser == <<socket, resumeToken, role>>
server == <<served, owner, token, failed>>
wire == <<link, toAgent, toServer>>
viewers == <<viewer, channel, pane, readOnly, bridge>>
manager == <<viewers, controller, handing>>
vars == <<browser, server, wire, manager, nFaults>>

Init ==
    /\ socket = [t \in Tabs |-> None] /\ resumeToken = [t \in Tabs |-> None]
    /\ role = [t \in Tabs |-> "off"]
    /\ served = {} /\ owner = [c \in Channels |-> None]
    /\ token = [c \in Channels |-> None] /\ failed = {}
    /\ link = "up" /\ toAgent = <<>> /\ toServer = <<>>
    /\ viewer = [v \in Channels |-> "none"] /\ channel = [v \in Channels |-> None]
    /\ pane = [v \in Channels |-> Home] /\ readOnly = [v \in Channels |-> TRUE]
    /\ bridge = [v \in Channels |-> FALSE]
    /\ controller = [p \in Panes |-> None] /\ handing = None
    /\ nFaults = 0

-----------------------------------------------------------------------------
\* The wire.  A send on a connection that is not up goes nowhere.

Asked(op, c, v, p) == [op |-> op, channel |-> c, token |-> v, pane |-> p]
Detaching(c) == Asked("detach", c, None, Home)

Told(c, status, v) == [channel |-> c, status |-> status, token |-> v]

SendToAgent(ms) == toAgent' = IF link = "up" THEN toAgent \o ms ELSE toAgent
SendStatus(ms) == toServer' = IF link = "up" THEN toServer \o ms ELSE toServer

\* An action that may go wrong once more.
Fault == nFaults < MaxFaults /\ nFaults' = nFaults + 1

-----------------------------------------------------------------------------
\* The dashboard and the control plane.

\* randomUUID: the names are given out in order.
Fresh(c) == owner[c] = None /\ \A d \in Channels : d < c => owner[d] # None

\* The channels that a connection with the tab's resume token replaces.
Replaced(t) == {d \in served : resumeToken[t] # None /\ token[d] = resumeToken[t]}

Forget(S) == [d \in Channels |-> IF d \in S THEN None ELSE token[d]]

\* The detach messages for a set of channels, in some order.
Detaches(S) ==
    {[i \in 1..Cardinality(S) |-> Detaching(q[i])] :
        q \in {f \in [1..Cardinality(S) -> S] : \A d \in S : \E i \in DOMAIN f : f[i] = d}}

\* The replaced channels are forgotten without a word to agentd.
ReplaceQuietly(t, c) ==
    /\ socket[t] = None /\ Fresh(c)
    /\ owner' = [owner EXCEPT ![c] = t]
    /\ token' = [Forget(Replaced(t)) EXCEPT ![c] = resumeToken[t]]
    /\ served' = (served \ Replaced(t)) \cup {c}
    /\ SendToAgent(<<Asked("attach", c, resumeToken[t], Home)>>)
    /\ socket' = [socket EXCEPT ![t] = c] /\ role' = [role EXCEPT ![t] = "waiting"]
    /\ UNCHANGED <<resumeToken, failed, link, toServer, manager, nFaults>>

\* A tab connects: the channels its resume token replaces are detached, and the
\* attach message follows them.
Connect(t, c) ==
    /\ socket[t] = None /\ Fresh(c)
    /\ owner' = [owner EXCEPT ![c] = t]
    /\ token' = [Forget(Replaced(t)) EXCEPT ![c] = resumeToken[t]]
    /\ served' = (served \ Replaced(t)) \cup {c}
    /\ \E ds \in Detaches(Replaced(t)) :
           SendToAgent(ds \o <<Asked("attach", c, resumeToken[t], Home)>>)
    /\ socket' = [socket EXCEPT ![t] = c] /\ role' = [role EXCEPT ![t] = "waiting"]
    /\ UNCHANGED <<resumeToken, failed, link, toServer, manager, nFaults>>

\* The agent's new connection is not ready for commands yet: neither the detach
\* nor the attach is sent, and the tab is refused.
ConnectRefused(t) ==
    /\ link = "down" /\ socket[t] = None /\ Replaced(t) # {}
    /\ served' = served \ Replaced(t) /\ token' = Forget(Replaced(t))
    /\ UNCHANGED <<browser, owner, failed, wire, manager, nFaults>>

Ask(t, op, p) ==
    /\ link = "up" /\ socket[t] \in served /\ Len(toAgent) < MaxAsked
    /\ SendToAgent(<<Asked(op, socket[t], None, p)>>)
    /\ UNCHANGED <<browser, server, link, toServer, manager, nFaults>>

\* The tab that shows a read-only terminal offers to take control, and an attached
\* one to show another pane.
AskControl(t) == role[t] = "readonly" /\ Ask(t, "control", Home)
AskFocus(t, p) == role[t] \in {"control", "readonly"} /\ Ask(t, "focus", p)

\* The tab detaches, is suspended, or loses its connection.
Leave(t) ==
    /\ socket[t] # None
    /\ socket' = [socket EXCEPT ![t] = None] /\ role' = [role EXCEPT ![t] = "off"]
    /\ UNCHANGED <<resumeToken, server, wire, manager, nFaults>>

DetachChannel(c) ==
    /\ c \in served /\ served' = served \ {c} /\ token' = Forget({c})
    /\ SendToAgent(<<Detaching(c)>>)

\* The control plane learns that the tab is gone.
SocketClosed(c) ==
    /\ DetachChannel(c) /\ socket[owner[c]] # c
    /\ UNCHANGED <<browser, owner, failed, link, toServer, manager, nFaults>>

\* Ten minutes without input or output.
IdleTimeout(c) ==
    /\ DetachChannel(c) /\ socket[owner[c]] = c
    /\ socket' = [socket EXCEPT ![owner[c]] = None]
    /\ role' = [role EXCEPT ![owner[c]] = "off"]
    /\ UNCHANGED <<resumeToken, owner, failed, link, toServer, manager, nFaults>>

Ends(status) == status \in {"detached", "error", "refused"}

\* handleTerminalStatus, and what the tab makes of it: a refused resume token is
\* thrown away.
DeliverStatus ==
    /\ toServer # <<>> /\ toServer' = Tail(toServer)
    /\ LET m == Head(toServer)
           c == m.channel
           t == owner[c]
       IN  IF c \notin served THEN UNCHANGED <<browser, served, token, failed>>
           ELSE /\ token' = IF Ends(m.status) THEN Forget({c})
                            ELSE IF m.token = None THEN token ELSE [token EXCEPT ![c] = m.token]
                /\ served' = IF Ends(m.status) THEN served \ {c} ELSE served
                /\ failed' = IF m.status = "error" THEN failed \cup {c} ELSE failed
                /\ IF socket[t] # c THEN UNCHANGED browser
                   ELSE /\ socket' = IF Ends(m.status) THEN [socket EXCEPT ![t] = None] ELSE socket
                        /\ role' = [role EXCEPT ![t] = IF Ends(m.status) THEN "off" ELSE m.status]
                        /\ resumeToken' =
                               IF m.status = "refused" THEN [resumeToken EXCEPT ![t] = None]
                               ELSE IF m.token # None THEN [resumeToken EXCEPT ![t] = m.token]
                               ELSE resumeToken
    /\ UNCHANGED <<owner, link, toAgent, manager, nFaults>>

-----------------------------------------------------------------------------
\* agentd: the messages of the control plane.

\* The reader takes the next message, once the one before is done.
Receive(op) ==
    /\ handing = None /\ Len(toServer) < MaxTold
    /\ toAgent # <<>> /\ Head(toAgent).op = op /\ toAgent' = Tail(toAgent)

\* What the manager may be asked about.
Attached(v) == channel[v] # None
Uncontrol(v) ==
    [p \in Panes |-> IF p = pane[v] /\ controller[p] = channel[v] THEN None ELSE controller[p]]

\* The viewer of the resume token is still attached, or shows another pane.
Unresumable(v) ==
    v # None /\ (viewer[v] = "live" \/ (viewer[v] # "none" /\ pane[v] # Home))

\* agentd does not know the token: the pane's tmux options hold it, or not.
Unknown(v) == v # None /\ viewer[v] = "none"

RefuseAttach ==
    /\ Receive("attach")
    /\ LET m == Head(toAgent)
       IN  /\ Unresumable(m.token) \/ Unknown(m.token)
           /\ SendStatus(<<Told(m.channel, "refused", None)>>)
    /\ UNCHANGED <<browser, server, link, manager, nFaults>>

\* The controller of the pane once the attachment has superseded the stale
\* channel of its own token and the claim of a stale controller.
StaleControl == \E v \in Channels : channel[v] = controller[Home] /\ viewer[v] = "stale"
Freed == [controller EXCEPT ![Home] = IF StaleControl THEN None ELSE @]

HandleAttach ==
    /\ Receive("attach")
    /\ LET m == Head(toAgent)
           v == IF m.token = None THEN m.channel ELSE m.token
           locked == Freed[Home] # None
       IN  /\ ~Unresumable(m.token)
           /\ controller' = IF locked THEN Freed ELSE [Freed EXCEPT ![Home] = m.channel]
           /\ viewer' = [viewer EXCEPT ![v] = "live"]
           /\ channel' = [channel EXCEPT ![v] = m.channel]
           /\ pane' = [pane EXCEPT ![v] = Home]
           /\ readOnly' = [readOnly EXCEPT ![v] = locked]
           /\ bridge' = [bridge EXCEPT ![v] = TRUE]
           /\ SendStatus(<<Told(m.channel, IF locked THEN "readonly" ELSE "control", v)>>)
    /\ UNCHANGED <<browser, server, link, handing, nFaults>>

\* tmux fails the attachment: before anything was done, or after the stale
\* channel of the token and a stale controller have lost their place.
FailAttach ==
    /\ Receive("attach") /\ Fault
    /\ LET m == Head(toAgent)
           v == m.token
       IN  /\ ~Unresumable(v)
           /\ \E status \in {"error"} \cup (IF v = None THEN {} ELSE {"refused"}) :
                  SendStatus(<<Told(m.channel, status, None)>>)
           /\ \/ UNCHANGED manager
              \/ /\ controller' = Freed
                 /\ IF v # None /\ viewer[v] = "stale"
                    THEN /\ viewer' = [viewer EXCEPT ![v] = "detached"]
                         /\ channel' = [channel EXCEPT ![v] = None]
                         /\ readOnly' = [readOnly EXCEPT ![v] = TRUE]
                         /\ bridge' = [bridge EXCEPT ![v] = FALSE]
                    ELSE UNCHANGED <<viewer, channel, readOnly, bridge>>
                 /\ UNCHANGED <<pane, handing>>
    /\ UNCHANGED <<browser, server, link>>

\* The first half of Detach, up to the release of the lock.  The bridge is not
\* used again.
HandleDetach ==
    /\ Receive("detach")
    /\ LET c == Head(toAgent).channel
       IN  IF \A v \in Channels : channel[v] # c THEN UNCHANGED <<manager, toServer>>
           ELSE \E v \in Channels :
                    /\ channel[v] = c
                    /\ viewer' = [viewer EXCEPT ![v] = "detached"]
                    /\ channel' = [channel EXCEPT ![v] = None]
                    /\ readOnly' = [readOnly EXCEPT ![v] = TRUE]
                    /\ bridge' = [bridge EXCEPT ![v] = FALSE]
                    /\ controller' = Uncontrol(v)
                    /\ handing' = IF controller[pane[v]] = c THEN pane[v] ELSE None
                    /\ SendStatus(<<Told(c, "detached", None)>>)
                    /\ UNCHANGED pane
    /\ UNCHANGED <<browser, server, link, nFaults>>

Candidates == {v \in Channels : Attached(v) /\ pane[v] = handing}

\* The new controller is not told.
AssignQuietly ==
    /\ handing # None /\ handing' = None
    /\ IF Candidates = {} THEN UNCHANGED <<viewers, controller, nFaults>>
       ELSE \E v \in Candidates :
                /\ bridge' = [bridge EXCEPT ![v] = TRUE]
                /\ readOnly' = [readOnly EXCEPT ![v] = FALSE]
                /\ controller' = [controller EXCEPT ![handing] = channel[v]]
                /\ UNCHANGED <<viewer, channel, pane, nFaults>>
    /\ UNCHANGED <<browser, server, wire>>

\* assignNextViewerController: any viewer of the pane becomes its controller, or
\* loses its bridge in the attempt.
AssignNext ==
    /\ handing # None /\ handing' = None
    /\ IF Candidates = {} THEN UNCHANGED <<viewers, controller, toServer, nFaults>>
       ELSE \E v \in Candidates :
                \/ /\ bridge' = [bridge EXCEPT ![v] = TRUE]
                   /\ readOnly' = [readOnly EXCEPT ![v] = FALSE]
                   /\ controller' = [controller EXCEPT ![handing] = channel[v]]
                   /\ SendStatus(<<Told(channel[v], "control", None)>>)
                   /\ UNCHANGED <<viewer, channel, pane, nFaults>>
                \/ /\ Fault /\ bridge' = [bridge EXCEPT ![v] = FALSE]
                   /\ UNCHANGED <<viewer, channel, pane, readOnly, controller, toServer>>
    /\ UNCHANGED <<browser, server, link, toAgent>>

Controls(v) == controller[pane[v]] = channel[v]
Current(p) == {v \in Channels : Attached(v) /\ channel[v] = controller[p]}

\* TakeControl of a channel that is not attached, or already has control.
ControlIdle ==
    /\ Receive("control")
    /\ LET c == Head(toAgent).channel
       IN  \/ /\ \A v \in Channels : channel[v] # c
              /\ SendStatus(<<Told(c, "error", None)>>)
           \/ /\ \E v \in Channels : channel[v] = c /\ Controls(v)
              /\ UNCHANGED toServer
    /\ UNCHANGED <<browser, server, link, manager, nFaults>>

\* Only the viewer that asked changes.
TakeControlAlone ==
    /\ Receive("control")
    /\ \E v \in Channels :
           /\ channel[v] = Head(toAgent).channel /\ ~Controls(v)
           /\ bridge' = [bridge EXCEPT ![v] = TRUE]
           /\ readOnly' = [readOnly EXCEPT ![v] = FALSE]
           /\ controller' = [controller EXCEPT ![pane[v]] = channel[v]]
           /\ SendStatus(<<Told(channel[v], "control", None)>>)
    /\ UNCHANGED <<browser, server, link, viewer, channel, pane, handing, nFaults>>

TakeControl ==
    /\ Receive("control")
    /\ \E v \in Channels :
           /\ channel[v] = Head(toAgent).channel /\ ~Controls(v)
           /\ LET old == controller[pane[v]]
              IN  /\ bridge' = [w \in Channels |->
                         bridge[w] \/ w = v \/ w \in Current(pane[v])]
                  /\ readOnly' = [w \in Channels |->
                         IF Attached(w) /\ pane[w] = pane[v] THEN w # v ELSE readOnly[w]]
                  /\ controller' = [controller EXCEPT ![pane[v]] = channel[v]]
                  /\ SendStatus(<<Told(channel[v], "control", None)>> \o
                                (IF old = None THEN <<>> ELSE <<Told(old, "readonly", None)>>))
    /\ UNCHANGED <<browser, server, link, viewer, channel, pane, handing, nFaults>>

\* tmux fails the hand-over: the old controller cannot be made read-only, or the
\* new one cannot be made a writer, after which the old one may not come back.
FailControl ==
    /\ Receive("control") /\ Fault
    /\ \E v \in Channels :
           /\ channel[v] = Head(toAgent).channel /\ ~Controls(v)
           /\ SendStatus(<<Told(channel[v], "error", None)>>)
           /\ \/ /\ bridge' = [w \in Channels |->
                        (bridge[w] \/ w \in Current(pane[v])) /\ w # v]
                 /\ UNCHANGED <<readOnly, controller>>
              \/ /\ Current(pane[v]) # {}
                 /\ \E lost \in {{}, {v}} :
                        bridge' = [w \in Channels |->
                            bridge[w] /\ w \notin lost \cup Current(pane[v])]
                 /\ readOnly' = [w \in Channels |-> readOnly[w] \/ w \in Current(pane[v])]
                 /\ controller' = [controller EXCEPT ![pane[v]] = None]
    /\ UNCHANGED <<browser, server, link, viewer, channel, pane, handing>>

\* FocusPane of a channel that is not attached or has no bridge, or of which tmux
\* does not show the pane: what it changed in tmux is put back.
FocusIdle ==
    /\ Receive("focus")
    /\ UNCHANGED <<browser, server, link, toServer, manager, nFaults>>

\* moveViewerAuthorityLocked: control of the old pane ends, and becomes control of
\* the new one if that has no controller.
Focus ==
    /\ Receive("focus")
    /\ \E v \in Channels :
           LET p == Head(toAgent).pane
               c == channel[v]
               writes == controller[p] = c \/ (controller[p] = None /\ Controls(v))
           IN  /\ c = Head(toAgent).channel /\ bridge[v]
               /\ controller' = [q \in Panes |->
                      IF q = p /\ writes THEN c
                      ELSE IF q # p /\ q = pane[v] /\ Controls(v) THEN None ELSE controller[q]]
               /\ pane' = [pane EXCEPT ![v] = p]
               /\ readOnly' = [readOnly EXCEPT ![v] = ~writes]
               /\ SendStatus(<<Told(c, IF writes THEN "control" ELSE "readonly", None)>>)
    /\ UNCHANGED <<browser, server, link, viewer, channel, bridge, handing, nFaults>>

-----------------------------------------------------------------------------
\* agentd: the sweeper, and the connection.

\* One viewer at a time: several in one sweep are several sweeps in a row.
Sweep(v) ==
    /\ viewer[v] \in {"stale", "detached"}
    /\ viewer' = [viewer EXCEPT ![v] = "none"]
    /\ channel' = [channel EXCEPT ![v] = None]
    /\ readOnly' = [readOnly EXCEPT ![v] = TRUE]
    /\ bridge' = [bridge EXCEPT ![v] = FALSE]
    /\ pane' = [pane EXCEPT ![v] = Home]
    /\ controller' = Uncontrol(v)
    /\ UNCHANGED <<browser, server, wire, handing, nFaults>>

Break ==
    /\ link = "up" /\ link' = "dead" /\ toAgent' = <<>> /\ toServer' = <<>> /\ Fault
    /\ UNCHANGED <<browser, server, manager>>

\* The reader ends: MarkChannelsStale.
Notice ==
    /\ link = "dead" /\ handing = None /\ link' = "down"
    /\ viewer' = [v \in Channels |-> IF Attached(v) THEN "stale" ELSE viewer[v]]
    /\ UNCHANGED <<browser, server, toAgent, toServer, channel, pane, readOnly, bridge,
                   controller, handing, nFaults>>

Reconnect ==
    /\ link = "down" /\ link' = "up"
    /\ UNCHANGED <<browser, server, toAgent, toServer, manager, nFaults>>

\* The control plane restarts: every socket of it is gone.
ServerRestart ==
    /\ Fault /\ served' = {} /\ token' = Forget(Channels)
    /\ socket' = [t \in Tabs |-> None] /\ role' = [t \in Tabs |-> "off"]
    /\ link' = IF link = "up" THEN "dead" ELSE link
    /\ toAgent' = <<>> /\ toServer' = <<>>
    /\ UNCHANGED <<resumeToken, owner, failed, manager>>

\* agentd restarts: only the tokens in tmux's pane options may be left.
AgentRestart ==
    /\ Fault /\ link' = "down" /\ toAgent' = <<>> /\ toServer' = <<>>
    /\ viewer' = [v \in Channels |-> "none"] /\ channel' = [v \in Channels |-> None]
    /\ readOnly' = [v \in Channels |-> TRUE] /\ bridge' = [v \in Channels |-> FALSE]
    /\ pane' = [v \in Channels |-> Home]
    /\ controller' = [p \in Panes |-> None] /\ handing' = None
    /\ UNCHANGED <<browser, server>>

-----------------------------------------------------------------------------
Browser ==
    \E t \in Tabs :
        \/ \E c \in Channels : Connect(t, c)
        \/ ConnectRefused(t) \/ Leave(t) \/ AskControl(t)
        \/ \E p \in Panes : AskFocus(t, p)

Server == DeliverStatus \/ \E c \in Channels : SocketClosed(c) \/ IdleTimeout(c)

Handle ==
    \/ RefuseAttach \/ HandleAttach \/ FailAttach \/ HandleDetach \/ AssignNext
    \/ ControlIdle \/ TakeControl \/ FailControl \/ FocusIdle \/ Focus

Next ==
    \/ Browser \/ Server \/ Handle
    \/ \E v \in Channels : Sweep(v)
    \/ Break \/ Notice \/ Reconnect \/ ServerRestart \/ AgentRestart

Spec == Init /\ [][Next]_vars

-----------------------------------------------------------------------------
Asking == [op : {"attach", "detach", "control", "focus"}, channel : Channels,
           token : Channels \cup {None}, pane : Panes]
Telling == [channel : Channels, token : Channels \cup {None},
            status : {"control", "readonly", "detached", "error", "refused"}]

(* Every variable holds a value of its kind. *)
TypeOK ==
    /\ socket \in [Tabs -> Channels \cup {None}]
    /\ resumeToken \in [Tabs -> Channels \cup {None}]
    /\ role \in [Tabs -> {"off", "waiting", "control", "readonly"}]
    /\ served \in SUBSET Channels /\ failed \in SUBSET Channels
    /\ owner \in [Channels -> Tabs \cup {None}]
    /\ token \in [Channels -> Channels \cup {None}]
    /\ link \in {"up", "dead", "down"}
    /\ toAgent \in Seq(Asking) /\ toServer \in Seq(Telling)
    /\ viewer \in [Channels -> {"none", "live", "stale", "detached"}]
    /\ channel \in [Channels -> Channels \cup {None}]
    /\ pane \in [Channels -> Panes]
    /\ readOnly \in [Channels -> BOOLEAN] /\ bridge \in [Channels -> BOOLEAN]
    /\ controller \in [Panes -> Channels \cup {None}]
    /\ handing \in Panes \cup {None}
    /\ nFaults \in Nat

(* One viewer of a pane at most may write, of those whose channel agentd does  *)
(* not hold for stale, whatever the order of attachments, hand-overs, moves    *)
(* to other panes, failures of tmux and the sweeps beside them.                *)
OneWriter ==
    \A v, w \in Channels :
        viewer[v] = "live" /\ viewer[w] = "live" /\ pane[v] = pane[w]
            /\ ~readOnly[v] /\ ~readOnly[w] => v = w

\* What the tab of a channel shows once every status under way has arrived.
Heard(c) ==
    LET later == {i \in 1..Len(toServer) : toServer[i].channel = c}
    IN  IF later = {} THEN role[owner[c]]
        ELSE toServer[CHOOSE i \in later : \A j \in later : j <= i].status

(* While the connection is up, the tab of a live viewer shows, or is about to  *)
(* show, whether the viewer may write: every grant and every loss of control   *)
(* is told, in order.  A viewer that tmux has left without a bridge is         *)
(* excepted, and one whose channel is about to end.                            *)
RoleIsTold ==
    link = "up" =>
        \A v \in Channels :
            LET c == channel[v]
            IN  viewer[v] = "live" /\ bridge[v] /\ c \in served /\ socket[owner[c]] = c
                    /\ ~Ends(Heard(c))
                => Heard(c) = IF readOnly[v] THEN "readonly" ELSE "control"

DetachOnTheWay(c) == \E i \in 1..Len(toAgent) : toAgent[i] = Detaching(c)

(* No viewer outlives its tab for ever: agentd has been, or is being, asked to *)
(* detach a channel that the control plane has given up, or has lost the       *)
(* connection and will sweep it.  A channel given up because of an error       *)
(* status is excepted: no detach follows it.                                   *)
GhostIsLeaving ==
    \A v \in Channels :
        LET c == channel[v]
        IN  c # None /\ c \notin served \cup failed =>
                viewer[v] = "stale" \/ link = "dead" \/ DetachOnTheWay(c)

=============================================================================
