--------------------------- MODULE TerminalProofs ---------------------------
(***************************************************************************)
(* Proofs about Terminal, for every number of tabs, channels, panes,       *)
(* faults and messages under way.                                          *)
(*                                                                         *)
(* Two facts carry the rest.  A channel id is given out once, so a channel *)
(* that is attached is not waiting to be attached; and agentd's queue      *)
(* keeps its order, so the detach of a channel that was given up follows   *)
(* the attachment it undoes.                                               *)
(***************************************************************************)
EXTENDS Terminal, TLAPS, SequenceTheorems, FiniteSetTheorems, WellFoundedInduction

Statuses == {"control", "readonly", "detached", "error", "refused"}

-----------------------------------------------------------------------------
\* The wire.

LEMMA Messages ==
    /\ \A op \in {"attach", "detach", "control", "focus"}, c \in Channels,
          v \in Channels \cup {None}, p \in Panes : Asked(op, c, v, p) \in Asking
    /\ \A c \in Channels : Detaching(c) \in Asking
    /\ \A c \in Channels, s \in Statuses, v \in Channels \cup {None} :
          Told(c, s, v) \in Telling
<1>1. Home \in Panes
    BY TerminalAssumption
<1>2. QED
    BY <1>1 DEF Asked, Detaching, Told, Asking, Telling, Statuses

\* What is sent to agentd arrives at the end of its queue, or nowhere.
LEMMA Appended ==
    ASSUME toAgent \in Seq(Asking), NEW ms \in Seq(Asking), SendToAgent(ms)
    PROVE  /\ toAgent' \in Seq(Asking)
           /\ Len(toAgent) \in Nat
           /\ Len(ms) \in Nat
           /\ Len(toAgent') \in Nat
           /\ link # "up" => toAgent' = toAgent
           /\ link = "up" => Len(toAgent') = Len(toAgent) + Len(ms)
           /\ \A i \in 1..Len(toAgent) : i \in 1..Len(toAgent') /\ toAgent'[i] = toAgent[i]
           /\ \A i \in 1..Len(toAgent') :
                 \/ i \in 1..Len(toAgent)
                 \/ i - Len(toAgent) \in 1..Len(ms) /\ toAgent'[i] = ms[i - Len(toAgent)]
           /\ link = "up" => \A k \in 1..Len(ms) :
                 k + Len(toAgent) \in 1..Len(toAgent') /\ toAgent'[k + Len(toAgent)] = ms[k]
<1>1. Len(toAgent) \in Nat /\ Len(ms) \in Nat
    OBVIOUS
<1>2. CASE link = "up"
    <2>1. toAgent' = toAgent \o ms
        BY <1>2 DEF SendToAgent
    <2>2. QED
        BY <1>1, <1>2, <2>1, ConcatProperties
<1>3. CASE link # "up"
    BY <1>1, <1>3 DEF SendToAgent
<1>4. QED
    BY <1>2, <1>3

LEMMA Received ==
    ASSUME toAgent \in Seq(Asking), NEW op, Receive(op)
    PROVE  /\ handing = None
           /\ toAgent # <<>>
           /\ Head(toAgent) \in Asking
           /\ Head(toAgent) = toAgent[1]
           /\ toAgent[1].op = op
           /\ toAgent[1] \in Asking
           /\ toAgent' \in Seq(Asking)
           /\ Len(toAgent) \in Nat
           /\ 1 \in 1..Len(toAgent)
           /\ Len(toAgent') = Len(toAgent) - 1
           /\ \A i \in 1..Len(toAgent') : i + 1 \in 1..Len(toAgent) /\ toAgent'[i] = toAgent[i + 1]
           /\ \A i \in 2..Len(toAgent) : i - 1 \in 1..Len(toAgent') /\ toAgent'[i - 1] = toAgent[i]
<1>1. toAgent # <<>> /\ toAgent' = Tail(toAgent) /\ handing = None /\ Head(toAgent).op = op
    BY DEF Receive
<1>2. Len(toAgent) \in Nat /\ Len(toAgent) >= 1 /\ Head(toAgent) = toAgent[1]
    BY <1>1
<1>3. /\ Head(toAgent) \in Asking
      /\ toAgent' \in Seq(Asking)
      /\ Len(toAgent') = Len(toAgent) - 1
      /\ \A i \in 1..Len(toAgent') : toAgent'[i] = toAgent[i + 1]
    BY <1>1, HeadTailProperties
<1>4. QED
    BY <1>1, <1>2, <1>3

LEMMA Reported ==
    ASSUME toServer \in Seq(Telling), NEW ms \in Seq(Telling), SendStatus(ms)
    PROVE  /\ toServer' \in Seq(Telling)
           /\ \A k \in 1..Len(toServer') :
                 \/ k \in 1..Len(toServer) /\ toServer'[k] = toServer[k]
                 \/ \E j \in 1..Len(ms) : toServer'[k] = ms[j]
<1>1. Len(toServer) \in Nat /\ Len(ms) \in Nat
    OBVIOUS
<1>2. CASE link = "up"
    <2>1. toServer' = toServer \o ms
        BY <1>2 DEF SendStatus
    <2>2. QED
        BY <1>1, <2>1, ConcatProperties
<1>3. CASE link # "up"
    BY <1>1, <1>3 DEF SendStatus
<1>4. QED
    BY <1>2, <1>3

\* The detach messages of a set of channels: one for each, and nothing else.
LEMMA DetachesAll ==
    ASSUME NEW S \in SUBSET Channels, NEW ds \in Detaches(S)
    PROVE  /\ ds \in Seq(Asking)
           /\ \A i \in 1..Len(ds) : \E c \in S : ds[i] = Detaching(c)
           /\ \A c \in S : \E i \in 1..Len(ds) : ds[i] = Detaching(c)
<1>1. Cardinality(S) \in Nat
    <2>1. IsFiniteSet(Channels)
        BY TerminalAssumption, FS_Interval DEF Channels
    <2>2. QED
        BY <2>1, FS_Subset, FS_CardinalityType
<1> DEFINE n == Cardinality(S)
<1>2. PICK q \in [1..n -> S] :
          /\ \A d \in S : \E i \in DOMAIN q : q[i] = d
          /\ ds = [i \in 1..n |-> Detaching(q[i])]
    BY DEF Detaches
<1>3. \A i \in 1..n : Detaching(q[i]) \in Asking
    BY <1>2, Messages
<1>4. ds \in [1..n -> Asking]
    BY <1>2, <1>3
<1>5. ds \in Seq(Asking) /\ Len(ds) = n
    BY <1>1, <1>4
<1>6. QED
    BY <1>2, <1>5

-----------------------------------------------------------------------------
\* Types.

LEMMA ForgetTypes ==
    ASSUME TypeOK, NEW S
    PROVE  Forget(S) \in [Channels -> Channels \cup {None}]
BY DEF TypeOK, Forget

LEMMA BrowserTypes == ASSUME TypeOK, Browser PROVE TypeOK'
<1> USE DEF browser, server, wire, manager, viewers
<1>1. ASSUME NEW t \in Tabs, NEW c \in Channels, Connect(t, c) PROVE TypeOK'
    <2>1. PICK ds \in Detaches(Replaced(t)) :
              SendToAgent(ds \o <<Asked("attach", c, resumeToken[t], Home)>>)
        BY <1>1 DEF Connect
    <2>2. ds \in Seq(Asking)
        BY DetachesAll DEF Replaced, TypeOK
    <2>3. <<Asked("attach", c, resumeToken[t], Home)>> \in Seq(Asking)
        <3>1. resumeToken[t] \in Channels \cup {None} /\ Home \in Panes
            BY TerminalAssumption DEF TypeOK
        <3>2. Asked("attach", c, resumeToken[t], Home) \in Asking
            BY <3>1, Messages
        <3>3. QED
            BY <3>2
    <2>4. ds \o <<Asked("attach", c, resumeToken[t], Home)>> \in Seq(Asking)
        BY <2>2, <2>3
    <2>5. toAgent' \in Seq(Asking)
        BY <2>1, <2>4, Appended DEF TypeOK
    <2>6. token' \in [Channels -> Channels \cup {None}]
        <3>1. Forget(Replaced(t)) \in [Channels -> Channels \cup {None}]
            BY ForgetTypes
        <3>2. token' = [Forget(Replaced(t)) EXCEPT ![c] = resumeToken[t]]
            BY <1>1 DEF Connect
        <3>3. resumeToken[t] \in Channels \cup {None}
            BY DEF TypeOK
        <3>4. QED
            BY <3>1, <3>2, <3>3
    <2>7. QED
        BY <1>1, <2>5, <2>6 DEF TypeOK, Connect
<1>2. ASSUME NEW t \in Tabs, ConnectRefused(t) PROVE TypeOK'
    BY <1>2, ForgetTypes DEF TypeOK, ConnectRefused
<1>3. ASSUME NEW t \in Tabs, Leave(t) PROVE TypeOK'
    BY <1>3 DEF TypeOK, Leave
<1>4. ASSUME NEW t \in Tabs, NEW op \in {"control", "focus"}, NEW p \in Panes, Ask(t, op, p)
      PROVE  TypeOK'
    <2>1. <<Asked(op, socket[t], None, p)>> \in Seq(Asking)
        <3>1. socket[t] \in Channels
            BY <1>4 DEF Ask, TypeOK
        <3>2. Asked(op, socket[t], None, p) \in Asking
            BY <3>1, Messages
        <3>3. QED
            BY <3>2
    <2>2. toAgent' \in Seq(Asking)
        BY <1>4, <2>1, Appended DEF Ask, TypeOK
    <2>3. QED
        BY <1>4, <2>2 DEF TypeOK, Ask
<1>5. QED
    BY <1>1, <1>2, <1>3, <1>4, TerminalAssumption DEF Browser, AskControl, AskFocus

LEMMA ServerTypes == ASSUME TypeOK, Server PROVE TypeOK'
<1> USE DEF browser, server, wire, manager, viewers
<1>1. ASSUME NEW c \in Channels, DetachChannel(c)
      PROVE  /\ served' \in SUBSET Channels
             /\ token' \in [Channels -> Channels \cup {None}]
             /\ toAgent' \in Seq(Asking)
    <2>1. <<Detaching(c)>> \in Seq(Asking)
        BY Messages
    <2>2. toAgent' \in Seq(Asking)
        BY <1>1, <2>1, Appended DEF DetachChannel, TypeOK
    <2>3. QED
        BY <1>1, <2>2, ForgetTypes DEF DetachChannel, TypeOK
<1>2. ASSUME NEW c \in Channels, SocketClosed(c) PROVE TypeOK'
    BY <1>1, <1>2 DEF TypeOK, SocketClosed
<1>3. ASSUME NEW c \in Channels, IdleTimeout(c) PROVE TypeOK'
    BY <1>1, <1>3 DEF TypeOK, IdleTimeout
<1>4. CASE DeliverStatus
    <2> DEFINE m == Head(toServer)
    <2>1. m \in Telling /\ toServer' \in Seq(Telling)
        BY <1>4, HeadTailProperties DEF DeliverStatus, TypeOK
    <2>2. /\ m.channel \in Channels
          /\ m.token \in Channels \cup {None}
          /\ ~Ends(m.status) => m.status \in {"control", "readonly"}
        BY <2>1 DEF Telling, Ends
    <2>3. /\ token' \in [Channels -> Channels \cup {None}]
          /\ served' \in SUBSET Channels
          /\ failed' \in SUBSET Channels
        BY <1>4, <2>2, ForgetTypes DEF DeliverStatus, TypeOK
    <2>4. /\ socket' \in [Tabs -> Channels \cup {None}]
          /\ resumeToken' \in [Tabs -> Channels \cup {None}]
          /\ role' \in [Tabs -> {"off", "waiting", "control", "readonly"}]
        BY <1>4, <2>2 DEF DeliverStatus, TypeOK
    <2>5. QED
        BY <1>4, <2>1, <2>3, <2>4 DEF TypeOK, DeliverStatus
<1>5. QED
    BY <1>2, <1>3, <1>4 DEF Server

\* A message of agentd's is either about one channel or, after a hand-over, two.
LEMMA HandleTypes == ASSUME TypeOK, Handle PROVE TypeOK'
<1> USE DEF browser, server, wire, manager, viewers
<1> DEFINE h == Head(toAgent)
<1>0. /\ \A c \in Channels, s \in Statuses, v \in Channels \cup {None} :
            <<Told(c, s, v)>> \in Seq(Telling)
      /\ \A ms \in Seq(Telling) : SendStatus(ms) => toServer' \in Seq(Telling)
    <2>1. ASSUME NEW c \in Channels, NEW s \in Statuses, NEW v \in Channels \cup {None}
          PROVE  <<Told(c, s, v)>> \in Seq(Telling)
        <3>1. Told(c, s, v) \in Telling
            BY Messages
        <3>2. QED
            BY <3>1
    <2>2. ASSUME NEW ms \in Seq(Telling), SendStatus(ms) PROVE toServer' \in Seq(Telling)
        BY <2>2, Reported DEF TypeOK
    <2>3. QED
        BY <2>1, <2>2
<1>a. ASSUME NEW op, Receive(op)
      PROVE  /\ toAgent' \in Seq(Asking)
             /\ h.channel \in Channels /\ h.token \in Channels \cup {None} /\ h.pane \in Panes
    <2>1. toAgent' \in Seq(Asking) /\ h \in Asking
        BY <1>a, Received DEF TypeOK
    <2>2. QED
        BY <2>1 DEF Asking
<1>b. Home \in Panes /\ None \notin Channels
    BY TerminalAssumption
<1>c. Freed \in [Panes -> Channels \cup {None}]
    BY DEF TypeOK, Freed
<1>d. ASSUME nFaults \in Nat, Fault PROVE nFaults' \in Nat
    BY <1>d DEF Fault
<1>1. CASE RefuseAttach
    <2>1. SendStatus(<<Told(h.channel, "refused", None)>>) /\ Receive("attach")
        BY <1>1 DEF RefuseAttach
    <2>2. toServer' \in Seq(Telling)
        BY <1>0, <1>a, <2>1 DEF Statuses
    <2>3. QED
        BY <1>1, <1>a, <2>1, <2>2 DEF TypeOK, RefuseAttach
<1>2. CASE HandleAttach
    <2> DEFINE v == IF h.token = None THEN h.channel ELSE h.token
    <2>1. Receive("attach") /\ v \in Channels
        BY <1>2, <1>a DEF HandleAttach
    <2>2. toServer' \in Seq(Telling)
        <3>1. SendStatus(<<Told(h.channel, IF Freed[Home] # None THEN "readonly" ELSE "control", v)>>)
            BY <1>2 DEF HandleAttach
        <3>2. QED
            BY <1>0, <1>a, <2>1, <3>1 DEF Statuses
    <2>3. /\ viewer' \in [Channels -> {"none", "live", "stale", "detached"}]
          /\ channel' \in [Channels -> Channels \cup {None}]
          /\ pane' \in [Channels -> Panes]
          /\ readOnly' \in [Channels -> BOOLEAN] /\ bridge' \in [Channels -> BOOLEAN]
        BY <1>2, <1>a, <1>b, <2>1 DEF TypeOK, HandleAttach
    <2>4. controller' \in [Panes -> Channels \cup {None}]
        BY <1>2, <1>a, <1>c, <2>1 DEF HandleAttach
    <2>5. QED
        BY <1>2, <1>a, <2>1, <2>2, <2>3, <2>4 DEF TypeOK, HandleAttach
<1>3. CASE FailAttach
    <2>1. Receive("attach")
        BY <1>3 DEF FailAttach
    <2>2. toServer' \in Seq(Telling)
        <3>1. PICK s \in {"error", "refused"} : SendStatus(<<Told(h.channel, s, None)>>)
            BY <1>3 DEF FailAttach
        <3>2. QED
            BY <1>0, <1>a, <2>1, <3>1 DEF Statuses
    <2>3. controller' \in [Panes -> Channels \cup {None}]
        BY <1>3, <1>c DEF FailAttach, TypeOK
    <2>4. /\ viewer' \in [Channels -> {"none", "live", "stale", "detached"}]
          /\ channel' \in [Channels -> Channels \cup {None}]
          /\ pane' \in [Channels -> Panes] /\ handing' = handing
          /\ readOnly' \in [Channels -> BOOLEAN] /\ bridge' \in [Channels -> BOOLEAN]
        BY <1>3 DEF FailAttach, TypeOK
    <2>5. QED
        BY <1>3, <1>a, <1>d, <2>1, <2>2, <2>3, <2>4 DEF TypeOK, FailAttach
<1>4. CASE HandleDetach
    <2>1. Receive("detach")
        BY <1>4 DEF HandleDetach
    <2>2. CASE UNCHANGED <<manager, toServer>>
        BY <1>4, <1>a, <2>1, <2>2 DEF TypeOK, HandleDetach
    <2>3. ASSUME NEW v \in Channels, channel[v] = h.channel,
                 viewer' = [viewer EXCEPT ![v] = "detached"],
                 channel' = [channel EXCEPT ![v] = None],
                 readOnly' = [readOnly EXCEPT ![v] = TRUE],
                 bridge' = [bridge EXCEPT ![v] = FALSE],
                 controller' = Uncontrol(v),
                 handing' = IF controller[pane[v]] = h.channel THEN pane[v] ELSE None,
                 SendStatus(<<Told(h.channel, "detached", None)>>),
                 pane' = pane
          PROVE  TypeOK'
        <3>1. toServer' \in Seq(Telling)
            BY <1>0, <1>a, <2>1, <2>3 DEF Statuses
        <3>2. controller' \in [Panes -> Channels \cup {None}]
            BY <2>3 DEF Uncontrol, TypeOK
        <3>3. QED
            BY <1>4, <1>a, <2>1, <2>3, <3>1, <3>2 DEF TypeOK, HandleDetach
    <2>4. QED
        BY <1>4, <2>2, <2>3 DEF HandleDetach
<1>5. CASE AssignNext
    <2>1. toServer' \in Seq(Telling)
        <3>1. CASE toServer' = toServer
            BY <3>1 DEF TypeOK
        <3>2. ASSUME NEW v \in Candidates, SendStatus(<<Told(channel[v], "control", None)>>)
              PROVE  toServer' \in Seq(Telling)
            <4>1. channel[v] \in Channels
                BY DEF Candidates, Attached, TypeOK
            <4>2. QED
                BY <1>0, <3>2, <4>1 DEF Statuses
        <3>3. QED
            BY <1>5, <3>1, <3>2 DEF AssignNext
    <2>2. /\ viewer' = viewer /\ channel' = channel /\ pane' = pane
          /\ readOnly' \in [Channels -> BOOLEAN] /\ bridge' \in [Channels -> BOOLEAN]
        BY <1>5 DEF AssignNext, TypeOK, Candidates
    <2>3. controller' \in [Panes -> Channels \cup {None}] /\ nFaults' \in Nat
        <3>1. ASSUME NEW v \in Candidates
              PROVE  [controller EXCEPT ![handing] = channel[v]] \in [Panes -> Channels \cup {None}]
            BY DEF TypeOK, Candidates
        <3>2. \/ controller' = controller
              \/ \E v \in Candidates : controller' = [controller EXCEPT ![handing] = channel[v]]
            BY <1>5 DEF AssignNext
        <3>3. controller' \in [Panes -> Channels \cup {None}]
            BY <3>1, <3>2 DEF TypeOK
        <3>4. nFaults' \in Nat
            BY <1>5, <1>d DEF AssignNext, TypeOK
        <3>5. QED
            BY <3>3, <3>4
    <2>4. QED
        BY <1>5, <2>1, <2>2, <2>3 DEF AssignNext, TypeOK
<1>6. CASE ControlIdle
    <2>1. Receive("control")
        BY <1>6 DEF ControlIdle
    <2>2. toServer' \in Seq(Telling)
        BY <1>0, <1>6, <1>a, <2>1 DEF ControlIdle, Statuses, TypeOK
    <2>3. QED
        BY <1>6, <1>a, <2>1, <2>2 DEF TypeOK, ControlIdle
<1>7. CASE TakeControl
    <2>1. Receive("control")
        BY <1>7 DEF TakeControl
    <2>2. PICK v \in Channels :
              /\ channel[v] = h.channel
              /\ controller' = [controller EXCEPT ![pane[v]] = channel[v]]
              /\ SendStatus(<<Told(channel[v], "control", None)>> \o
                            (IF controller[pane[v]] = None THEN <<>>
                             ELSE <<Told(controller[pane[v]], "readonly", None)>>))
        BY <1>7 DEF TakeControl
    <2>3. toServer' \in Seq(Telling)
        <3> DEFINE old == controller[pane[v]]
        <3>1. <<Told(channel[v], "control", None)>> \in Seq(Telling)
            BY <1>0, <1>a, <2>1, <2>2 DEF Statuses
        <3>2. old # None => <<Told(old, "readonly", None)>> \in Seq(Telling)
            <4>1. old \in Channels \cup {None}
                BY DEF TypeOK
            <4>2. QED
                BY <1>0, <4>1 DEF Statuses
        <3>3. <<Told(channel[v], "control", None)>> \o
                  (IF old = None THEN <<>> ELSE <<Told(old, "readonly", None)>>) \in Seq(Telling)
            BY <3>1, <3>2
        <3>4. QED
            BY <1>0, <2>2, <3>3
    <2>4. controller' \in [Panes -> Channels \cup {None}]
        BY <1>a, <2>1, <2>2 DEF TypeOK
    <2>5. readOnly' \in [Channels -> BOOLEAN] /\ bridge' \in [Channels -> BOOLEAN]
        <3>1. readOnly' \in [Channels -> BOOLEAN]
            BY <1>7 DEF TakeControl, TypeOK
        <3>2. PICK x \in Channels :
                  bridge' = [w \in Channels |-> bridge[w] \/ w = x \/ w \in Current(pane[x])]
            BY <1>7 DEF TakeControl
        <3>3. bridge' \in [Channels -> BOOLEAN]
            BY <3>2, Zenon
        <3>4. QED
            BY <3>1, <3>3
    <2>6. QED
        BY <1>7, <1>a, <2>1, <2>3, <2>4, <2>5 DEF TypeOK, TakeControl
<1>8. CASE FailControl
    <2>1. Receive("control")
        BY <1>8 DEF FailControl
    <2>2. toServer' \in Seq(Telling)
        BY <1>0, <1>8, <1>a, <2>1 DEF FailControl, Statuses
    <2>3. /\ controller' \in [Panes -> Channels \cup {None}]
          /\ readOnly' \in [Channels -> BOOLEAN] /\ bridge' \in [Channels -> BOOLEAN]
        <3>1. controller' \in [Panes -> Channels \cup {None}]
            BY <1>8 DEF FailControl, TypeOK
        <3>2. /\ \/ readOnly' = readOnly
                 \/ \E x \in Channels : readOnly' = [w \in Channels |-> readOnly[w] \/ w \in Current(pane[x])]
              /\ \/ \E x \in Channels :
                        bridge' = [w \in Channels |-> (bridge[w] \/ w \in Current(pane[x])) /\ w # x]
                 \/ \E x \in Channels : \E lost \in {{}, {x}} :
                        bridge' = [w \in Channels |-> bridge[w] /\ w \notin lost \cup Current(pane[x])]
            BY <1>8 DEF FailControl
        <3>3. readOnly' \in [Channels -> BOOLEAN]
            BY <3>2, Zenon DEF TypeOK
        <3>4. bridge' \in [Channels -> BOOLEAN]
            BY <3>2, Zenon
        <3>5. QED
            BY <3>1, <3>3, <3>4
    <2>4. QED
        BY <1>8, <1>a, <1>d, <2>1, <2>2, <2>3 DEF TypeOK, FailControl
<1>9. CASE FocusIdle
    BY <1>9, <1>a DEF TypeOK, FocusIdle
<1>10. CASE Focus
    <2>1. Receive("focus")
        BY <1>10 DEF Focus
    <2>2. toServer' \in Seq(Telling)
        BY <1>0, <1>10, <1>a, <2>1 DEF Focus, Statuses
    <2>3. /\ controller' \in [Panes -> Channels \cup {None}]
          /\ readOnly' \in [Channels -> BOOLEAN] /\ pane' \in [Channels -> Panes]
        BY <1>10, <1>a, <2>1 DEF Focus, TypeOK
    <2>4. QED
        BY <1>10, <1>a, <2>1, <2>2, <2>3 DEF TypeOK, Focus
<1>11. QED
    BY <1>1, <1>2, <1>3, <1>4, <1>5, <1>6, <1>7, <1>8, <1>9, <1>10 DEF Handle

LEMMA OtherTypes ==
    ASSUME TypeOK,
           \/ \E v \in Channels : Sweep(v)
           \/ Break \/ Notice \/ Reconnect \/ ServerRestart \/ AgentRestart
    PROVE  TypeOK'
<1> USE DEF browser, server, wire, manager, viewers
<1>1. ASSUME NEW v \in Channels, Sweep(v) PROVE TypeOK'
    BY <1>1, TerminalAssumption DEF TypeOK, Sweep, Uncontrol
<1>2. CASE Break
    BY <1>2 DEF TypeOK, Break, Fault
<1>3. CASE Notice
    BY <1>3 DEF TypeOK, Notice
<1>4. CASE Reconnect
    BY <1>4 DEF TypeOK, Reconnect
<1>5. CASE ServerRestart
    BY <1>5, ForgetTypes DEF TypeOK, ServerRestart, Fault
<1>6. CASE AgentRestart
    BY <1>6, TerminalAssumption DEF TypeOK, AgentRestart, Fault
<1>7. QED
    BY <1>1, <1>2, <1>3, <1>4, <1>5, <1>6

LEMMA TypeStep == ASSUME TypeOK, [Next]_vars PROVE TypeOK'
<1>1. CASE UNCHANGED vars
    BY <1>1 DEF TypeOK, vars, browser, server, wire, manager, viewers
<1>2. QED
    BY <1>1, BrowserTypes, ServerTypes, HandleTypes, OtherTypes DEF Next

LEMMA TypeInit == Init => TypeOK
<1> SUFFICES ASSUME Init PROVE TypeOK
    OBVIOUS
<1>1. toAgent \in Seq(Asking) /\ toServer \in Seq(Telling)
    BY DEF Init
<1>2. QED
    BY <1>1, TerminalAssumption DEF Init, TypeOK

(* Every variable holds a value of its kind, for every number of tabs,         *)
(* channels, panes and faults.                                                 *)
THEOREM TypeCorrect == Spec => []TypeOK
<1>1. QED
    BY TypeInit, TypeStep, PTL DEF Spec

-----------------------------------------------------------------------------
\* Channel ids are given out once (routes/terminal.ts:382).

Attaching(i) == toAgent[i].op = "attach"

OneHolder ==
    \A v, w \in Channels : channel[v] # None /\ channel[v] = channel[w] => v = w

HeldIsUsed == \A v \in Channels : channel[v] # None => owner[channel[v]] # None

AttachedOnce ==
    \A i \in 1..Len(toAgent) : Attaching(i) =>
        /\ owner[toAgent[i].channel] # None
        /\ \A v \in Channels : channel[v] # toAgent[i].channel
        /\ \A j \in 1..Len(toAgent) :
              Attaching(j) /\ toAgent[j].channel = toAgent[i].channel => j = i

NameInv == OneHolder /\ HeldIsUsed /\ AttachedOnce

LEMMA Named ==
    ASSUME TypeOK
    PROVE  \A i \in 1..Len(toAgent) : toAgent[i] \in Asking /\ toAgent[i].channel \in Channels
<1>1. \A i \in 1..Len(toAgent) : toAgent[i] \in Asking
    BY ElementOfSeq DEF TypeOK
<1>2. QED
    BY <1>1 DEF Asking

\* A step that gives out no id, attaches nobody and queues no attachment.
LEMMA NamesKept ==
    ASSUME TypeOK, NameInv, owner' = owner,
           \A v \in Channels : channel'[v] \in {channel[v], None},
           \A i \in 1..Len(toAgent') : Attaching(i)' =>
               i \in 1..Len(toAgent) /\ toAgent'[i] = toAgent[i]
    PROVE  NameInv'
<1>1. OneHolder' /\ HeldIsUsed'
    BY DEF NameInv, OneHolder, HeldIsUsed
<1>2. ASSUME NEW i \in 1..Len(toAgent'), Attaching(i)'
      PROVE  /\ owner'[toAgent'[i].channel] # None
             /\ \A v \in Channels : channel'[v] # toAgent'[i].channel
             /\ \A j \in 1..Len(toAgent') :
                   Attaching(j)' /\ toAgent'[j].channel = toAgent'[i].channel => j = i
    <2>1. i \in 1..Len(toAgent) /\ toAgent'[i] = toAgent[i] /\ Attaching(i)
        BY <1>2 DEF Attaching
    <2>2. toAgent[i].channel \in Channels
        BY <2>1, Named
    <2>3. QED
        BY <2>1, <2>2, TerminalAssumption DEF NameInv, AttachedOnce, Attaching
<1>3. QED
    BY <1>1, <1>2 DEF NameInv, AttachedOnce

\* agentd takes a message that attaches nobody.
LEMMA NamesReceived ==
    ASSUME TypeOK, NameInv, owner' = owner, NEW op, Receive(op),
           \A v \in Channels : channel'[v] \in {channel[v], None}
    PROVE  NameInv'
<1> USE Received DEF TypeOK
<1>1. OneHolder' /\ HeldIsUsed'
    BY DEF NameInv, OneHolder, HeldIsUsed
<1>2. ASSUME NEW i \in 1..Len(toAgent'), Attaching(i)'
      PROVE  /\ owner'[toAgent'[i].channel] # None
             /\ \A v \in Channels : channel'[v] # toAgent'[i].channel
             /\ \A j \in 1..Len(toAgent') :
                   Attaching(j)' /\ toAgent'[j].channel = toAgent'[i].channel => j = i
    <2>1. i + 1 \in 1..Len(toAgent) /\ toAgent'[i] = toAgent[i + 1] /\ Attaching(i + 1)
        BY <1>2 DEF Attaching
    <2>2. toAgent[i + 1].channel \in Channels
        BY <2>1, Named
    <2>3. ASSUME NEW j \in 1..Len(toAgent'), Attaching(j)', toAgent'[j].channel = toAgent'[i].channel
          PROVE  j = i
        <3>1. j + 1 \in 1..Len(toAgent) /\ toAgent'[j] = toAgent[j + 1] /\ Attaching(j + 1)
            BY <2>3 DEF Attaching
        <3>2. j + 1 = i + 1
            BY <2>1, <2>3, <3>1 DEF NameInv, AttachedOnce
        <3>3. QED
            BY <3>2
    <2>4. QED
        BY <2>1, <2>2, <2>3, TerminalAssumption DEF NameInv, AttachedOnce
<1>3. QED
    BY <1>1, <1>2 DEF NameInv, AttachedOnce

LEMMA NamesConnect ==
    ASSUME TypeOK, NameInv, NEW t \in Tabs, NEW c \in Channels, Connect(t, c)
    PROVE  NameInv'
<1>1. /\ owner[c] = None /\ t # None
      /\ owner' = [owner EXCEPT ![c] = t] /\ channel' = channel
    BY TerminalAssumption DEF Connect, Fresh, manager, viewers
<1>2. OneHolder' /\ HeldIsUsed'
    BY <1>1 DEF NameInv, OneHolder, HeldIsUsed, TypeOK
<1> DEFINE attach == Asked("attach", c, resumeToken[t], Home)
<1>3. PICK ds \in Detaches(Replaced(t)) : SendToAgent(ds \o <<attach>>)
    BY DEF Connect
<1>4. /\ ds \in Seq(Asking)
      /\ \A i \in 1..Len(ds) : ds[i].op = "detach"
    <2>1. Replaced(t) \subseteq Channels
        BY DEF Replaced, TypeOK
    <2>2. ds \in Seq(Asking) /\ \A i \in 1..Len(ds) : \E d \in Channels : ds[i] = Detaching(d)
        BY <2>1, DetachesAll
    <2>3. \A d \in Channels : Detaching(d).op = "detach"
        BY DEF Detaching, Asked
    <2>4. QED
        BY <2>2, <2>3
<1>5. attach \in Asking
    BY Messages, TerminalAssumption DEF TypeOK
<1>6. /\ ds \o <<attach>> \in Seq(Asking)
      /\ Len(ds) \in Nat /\ Len(ds \o <<attach>>) = Len(ds) + 1
      /\ \A i \in 1..Len(ds) : (ds \o <<attach>>)[i] = ds[i]
      /\ (ds \o <<attach>>)[Len(ds) + 1] = attach
    BY <1>4, <1>5
<1>7. ASSUME NEW i \in 1..Len(toAgent'), Attaching(i)'
      PROVE  \/ i \in 1..Len(toAgent) /\ toAgent'[i] = toAgent[i]
             \/ i = Len(toAgent) + Len(ds) + 1 /\ toAgent'[i] = attach
    <2>1. CASE i \in 1..Len(toAgent)
        BY <1>3, <1>6, <2>1, Appended DEF TypeOK
    <2>2. CASE i \notin 1..Len(toAgent)
        <3> DEFINE k == i - Len(toAgent)
        <3>1. k \in 1..Len(ds) + 1 /\ toAgent'[i] = (ds \o <<attach>>)[k]
            BY <1>3, <1>6, <2>2, Appended DEF TypeOK
        <3>2. k \notin 1..Len(ds)
            BY <1>4, <1>6, <1>7, <3>1 DEF Attaching
        <3>3. k = Len(ds) + 1
            BY <1>6, <3>1, <3>2
        <3>4. Len(toAgent) \in Nat
            BY DEF TypeOK
        <3>5. QED
            BY <1>6, <3>1, <3>3, <3>4
    <2>3. QED
        BY <2>1, <2>2
<1>8. ASSUME NEW i \in 1..Len(toAgent), Attaching(i)
      PROVE  toAgent[i].channel # c /\ toAgent[i].channel \in Channels
    BY <1>1, <1>8, Named DEF NameInv, AttachedOnce
<1>9. \A v \in Channels : channel[v] # c
    BY <1>1, TerminalAssumption DEF NameInv, HeldIsUsed
<1>10. attach.channel = c
    BY DEF Asked
<1>11. ASSUME NEW i \in 1..Len(toAgent'), Attaching(i)'
       PROVE  /\ owner'[toAgent'[i].channel] # None
              /\ \A v \in Channels : channel'[v] # toAgent'[i].channel
              /\ \A j \in 1..Len(toAgent') :
                    Attaching(j)' /\ toAgent'[j].channel = toAgent'[i].channel => j = i
    <2>1. CASE i \in 1..Len(toAgent) /\ toAgent'[i] = toAgent[i]
        <3>1. Attaching(i) /\ toAgent'[i].channel # c /\ toAgent'[i].channel \in Channels
            BY <1>8, <1>11, <2>1 DEF Attaching
        <3>2. owner'[toAgent'[i].channel] # None
            BY <1>1, <2>1, <3>1 DEF NameInv, AttachedOnce, TypeOK
        <3>3. \A v \in Channels : channel'[v] # toAgent'[i].channel
            BY <1>1, <2>1, <3>1 DEF NameInv, AttachedOnce
        <3>4. ASSUME NEW j \in 1..Len(toAgent'), Attaching(j)',
                     toAgent'[j].channel = toAgent'[i].channel
              PROVE  j = i
            <4>1. j \in 1..Len(toAgent) /\ toAgent'[j] = toAgent[j] /\ Attaching(j)
                BY <1>7, <1>10, <3>1, <3>4 DEF Attaching
            <4>2. QED
                BY <2>1, <3>1, <3>4, <4>1 DEF NameInv, AttachedOnce
        <3>5. QED
            BY <3>2, <3>3, <3>4
    <2>2. CASE i = Len(toAgent) + Len(ds) + 1 /\ toAgent'[i] = attach
        <3>1. toAgent'[i].channel = c
            BY <1>10, <2>2
        <3>2. owner'[c] # None
            BY <1>1 DEF TypeOK
        <3>3. ASSUME NEW j \in 1..Len(toAgent'), Attaching(j)', toAgent'[j].channel = c
              PROVE  j = i
            <4>1. ~(j \in 1..Len(toAgent) /\ toAgent'[j] = toAgent[j])
                BY <1>8, <3>3 DEF Attaching
            <4>2. QED
                BY <1>7, <2>2, <3>3, <4>1
        <3>4. QED
            BY <1>1, <1>9, <3>1, <3>2, <3>3
    <2>3. QED
        BY <1>7, <1>11, <2>1, <2>2
<1>12. QED
    BY <1>2, <1>11 DEF NameInv, AttachedOnce

LEMMA NamesAttach == ASSUME TypeOK, NameInv, HandleAttach PROVE NameInv'
<1> USE Received DEF TypeOK
<1> DEFINE c == Head(toAgent).channel
           u == IF Head(toAgent).token = None THEN c ELSE Head(toAgent).token
<1>1. /\ Receive("attach") /\ owner' = owner
      /\ channel' = [channel EXCEPT ![u] = c]
    BY DEF HandleAttach, server
<1>2. c \in Channels /\ u \in Channels /\ c = toAgent[1].channel /\ Attaching(1)
    BY <1>1 DEF Asking, Attaching
<1>3. /\ owner[c] # None
      /\ \A v \in Channels : channel[v] # c
      /\ \A j \in 1..Len(toAgent) : Attaching(j) /\ toAgent[j].channel = c => j = 1
    BY <1>1, <1>2 DEF NameInv, AttachedOnce
<1>4. OneHolder' /\ HeldIsUsed'
    BY <1>1, <1>2, <1>3 DEF NameInv, OneHolder, HeldIsUsed
<1>5. ASSUME NEW i \in 1..Len(toAgent'), Attaching(i)'
      PROVE  /\ i + 1 \in 1..Len(toAgent) /\ toAgent'[i] = toAgent[i + 1] /\ Attaching(i + 1)
             /\ toAgent[i + 1].channel # c
    <2>1. i + 1 \in 1..Len(toAgent) /\ toAgent'[i] = toAgent[i + 1] /\ Attaching(i + 1)
        BY <1>1, <1>5 DEF Attaching
    <2>2. i + 1 # 1
        OBVIOUS
    <2>3. QED
        BY <1>3, <2>1, <2>2
<1>6. ASSUME NEW i \in 1..Len(toAgent'), Attaching(i)', NEW j \in 1..Len(toAgent'), Attaching(j)',
             toAgent'[j].channel = toAgent'[i].channel
      PROVE  j = i
    <2>1. /\ i + 1 \in 1..Len(toAgent) /\ Attaching(i + 1) /\ toAgent'[i] = toAgent[i + 1]
          /\ j + 1 \in 1..Len(toAgent) /\ Attaching(j + 1) /\ toAgent'[j] = toAgent[j + 1]
        BY <1>5, <1>6
    <2>2. toAgent[j + 1].channel = toAgent[i + 1].channel
        BY <1>6, <2>1
    <2>3. j + 1 = i + 1
        BY <2>1, <2>2 DEF NameInv, AttachedOnce
    <2>4. QED
        BY <2>3
<1>7. AttachedOnce'
    BY <1>1, <1>2, <1>5, <1>6 DEF NameInv, AttachedOnce
<1>8. QED
    BY <1>4, <1>7 DEF NameInv

\* What a step of Next does to the channels and to agentd's queue.
LEMMA QueueKept ==
    ASSUME TypeOK, NEW op \in {"control", "detach", "focus"}, NEW c \in Channels, NEW p \in Panes,
           SendToAgent(<<Asked(op, c, None, p)>>)
    PROVE  \A i \in 1..Len(toAgent') : Attaching(i)' =>
               i \in 1..Len(toAgent) /\ toAgent'[i] = toAgent[i]
<1>1. Asked(op, c, None, p) \in Asking /\ Asked(op, c, None, p).op # "attach"
    <2>1. Asked(op, c, None, p).op = op
        BY DEF Asked
    <2>2. QED
        BY <2>1, Messages
<1>2. <<Asked(op, c, None, p)>> \in Seq(Asking)
    BY <1>1
<1>3. ASSUME NEW i \in 1..Len(toAgent'), Attaching(i)', i \notin 1..Len(toAgent)
      PROVE  FALSE
    <2>1. /\ i - Len(toAgent) \in 1..1
          /\ toAgent'[i] = <<Asked(op, c, None, p)>>[i - Len(toAgent)]
        BY <1>2, <1>3, Appended DEF TypeOK
    <2>2. toAgent'[i] = Asked(op, c, None, p)
        BY <2>1
    <2>3. QED
        BY <1>1, <1>3, <2>2 DEF Attaching
<1>4. QED
    BY <1>2, <1>3, Appended DEF TypeOK

LEMMA NameStep == ASSUME TypeOK, NameInv, [Next]_vars PROVE NameInv'
<1> USE DEF browser, server, wire, viewers, manager
<1>0. ASSUME owner' = owner, toAgent' = toAgent \/ toAgent' = <<>>,
             \A v \in Channels : channel'[v] \in {channel[v], None}
      PROVE  NameInv'
    <2>1. \A i \in 1..Len(toAgent') : i \in 1..Len(toAgent) /\ toAgent'[i] = toAgent[i]
        BY <1>0
    <2>2. QED
        BY <1>0, <2>1, NamesKept
<1>1. CASE UNCHANGED vars
    BY <1>0, <1>1 DEF vars
<1>2. CASE Browser
    <2>1. ASSUME NEW t \in Tabs, NEW c \in Channels, Connect(t, c) PROVE NameInv'
        BY <2>1, NamesConnect
    <2>2. ASSUME NEW t \in Tabs, ConnectRefused(t) \/ Leave(t) PROVE NameInv'
        BY <1>0, <2>2 DEF ConnectRefused, Leave
    <2>3. ASSUME NEW t \in Tabs, NEW op \in {"control", "focus"}, NEW p \in Panes, Ask(t, op, p)
          PROVE  NameInv'
        <3>1. /\ socket[t] \in Channels /\ owner' = owner /\ channel' = channel
              /\ SendToAgent(<<Asked(op, socket[t], None, p)>>)
            BY <2>3 DEF Ask, TypeOK
        <3>2. QED
            BY <3>1, QueueKept, NamesKept
    <2>4. QED
        BY <1>2, <2>1, <2>2, <2>3, TerminalAssumption DEF Browser, AskControl, AskFocus
<1>3. CASE Server
    <2>1. CASE DeliverStatus
        BY <1>0, <2>1 DEF DeliverStatus
    <2>2. ASSUME NEW c \in Channels, SocketClosed(c) \/ IdleTimeout(c) PROVE NameInv'
        <3>1. owner' = owner /\ channel' = channel /\ SendToAgent(<<Asked("detach", c, None, Home)>>)
            BY <2>2 DEF SocketClosed, IdleTimeout, DetachChannel, Detaching
        <3>2. QED
            BY <3>1, QueueKept, NamesKept, TerminalAssumption
    <2>3. QED
        BY <1>3, <2>1, <2>2 DEF Server
<1>4. CASE Handle
    <2>1. CASE HandleAttach
        BY <2>1, NamesAttach
    <2>2. CASE RefuseAttach \/ ControlIdle \/ TakeControl \/ FailControl \/ FocusIdle \/ Focus
        <3>1. owner' = owner /\ channel' = channel /\ \E op : Receive(op)
            BY <2>2 DEF RefuseAttach, ControlIdle, TakeControl, FailControl, FocusIdle, Focus
        <3>2. QED
            BY <3>1, NamesReceived
    <2>3. CASE FailAttach
        <3>1. /\ owner' = owner /\ Receive("attach")
              /\ \/ channel' = channel
                 \/ channel' = [channel EXCEPT ![Head(toAgent).token] = None]
            BY <2>3 DEF FailAttach
        <3>2. QED
            BY <3>1, NamesReceived DEF TypeOK
    <2>4. CASE HandleDetach
        <3>1. /\ owner' = owner /\ Receive("detach")
              /\ \/ channel' = channel
                 \/ \E v \in Channels : channel' = [channel EXCEPT ![v] = None]
            BY <2>4 DEF HandleDetach
        <3>2. QED
            BY <3>1, NamesReceived DEF TypeOK
    <2>5. CASE AssignNext
        BY <1>0, <2>5 DEF AssignNext
    <2>6. QED
        BY <1>4, <2>1, <2>2, <2>3, <2>4, <2>5 DEF Handle
<1>5. ASSUME NEW v \in Channels, Sweep(v) PROVE NameInv'
    BY <1>0, <1>5 DEF Sweep, TypeOK
<1>6. CASE Break \/ Notice \/ Reconnect \/ ServerRestart
    BY <1>0, <1>6 DEF Break, Notice, Reconnect, ServerRestart
<1>7. CASE AgentRestart
    BY <1>0, <1>7 DEF AgentRestart
<1>8. QED
    BY <1>1, <1>2, <1>3, <1>4, <1>5, <1>6, <1>7 DEF Next

-----------------------------------------------------------------------------
\* One writer (terminal.go).

LiveIsAttached == \A v \in Channels : viewer[v] = "live" => channel[v] # None

WriterControls ==
    \A v \in Channels : viewer[v] = "live" /\ ~readOnly[v] => controller[pane[v]] = channel[v]

\* Nobody takes control of a pane while Detach is about to give it away.
HandingIsFree == handing # None => controller[handing] = None

WriterInv == LiveIsAttached /\ WriterControls /\ HandingIsFree

LEMMA WriterImplies == ASSUME NameInv, WriterInv PROVE OneWriter
BY DEF NameInv, OneHolder, WriterInv, LiveIsAttached, WriterControls, OneWriter

LEMMA WriterAttach == ASSUME TypeOK, NameInv, WriterInv, HandleAttach PROVE WriterInv'
<1> USE Received DEF TypeOK
<1> DEFINE c == Head(toAgent).channel
           u == IF Head(toAgent).token = None THEN c ELSE Head(toAgent).token
           locked == Freed[Home] # None
<1>1. /\ Receive("attach") /\ handing = None /\ handing' = handing
      /\ viewer' = [viewer EXCEPT ![u] = "live"]
      /\ channel' = [channel EXCEPT ![u] = c]
      /\ pane' = [pane EXCEPT ![u] = Home]
      /\ readOnly' = [readOnly EXCEPT ![u] = locked]
      /\ controller' = IF locked THEN Freed ELSE [Freed EXCEPT ![Home] = c]
    BY DEF HandleAttach, Receive
<1>2. /\ c \in Channels /\ u \in Channels /\ c # None
      /\ Home \in Panes
    BY <1>1, TerminalAssumption DEF Asking
<1>3. LiveIsAttached' /\ HandingIsFree'
    BY <1>1, <1>2 DEF WriterInv, LiveIsAttached, HandingIsFree
<1>4. ASSUME NEW w \in Channels, w # u, viewer[w] = "live", ~readOnly[w]
      PROVE  controller'[pane[w]] = channel[w]
    <2>1. controller[pane[w]] = channel[w] /\ channel[w] # None
        BY <1>4 DEF WriterInv, WriterControls, LiveIsAttached
    <2>2. ~StaleControl \/ pane[w] # Home
        BY <1>4, <2>1 DEF StaleControl, NameInv, OneHolder
    <2>3. Freed[pane[w]] = channel[w]
        BY <1>2, <2>1, <2>2 DEF Freed
    <2>4. QED
        BY <1>1, <1>2, <2>1, <2>3
<1>5. ASSUME NEW w \in Channels, viewer'[w] = "live", ~readOnly'[w]
      PROVE  controller'[pane'[w]] = channel'[w]
    <2>1. CASE w = u
        <3>1. ~locked /\ pane'[w] = Home /\ channel'[w] = c
            BY <1>1, <1>5, <2>1
        <3>2. controller'[Home] = c
            BY <1>1, <1>2, <3>1 DEF Freed
        <3>3. QED
            BY <3>1, <3>2
    <2>2. CASE w # u
        <3>1. /\ viewer[w] = "live" /\ ~readOnly[w]
              /\ pane'[w] = pane[w] /\ channel'[w] = channel[w]
            BY <1>1, <1>5, <2>2
        <3>2. QED
            BY <1>4, <2>2, <3>1
    <2>3. QED
        BY <2>1, <2>2
<1>6. QED
    BY <1>3, <1>5 DEF WriterInv, WriterControls

LEMMA WriterFailAttach == ASSUME TypeOK, NameInv, WriterInv, FailAttach PROVE WriterInv'
<1> USE Received DEF TypeOK
<1>1. CASE UNCHANGED manager
    BY <1>1 DEF manager, viewers, WriterInv, LiveIsAttached, WriterControls, HandingIsFree
<1>2. CASE controller' = Freed /\ ~UNCHANGED manager
    <2> DEFINE u == Head(toAgent).token
    <2>1. /\ Receive("attach") /\ handing = None /\ handing' = None /\ pane' = pane
          /\ \/ viewer' = viewer /\ channel' = channel /\ readOnly' = readOnly
             \/ /\ viewer[u] = "stale" /\ u \in Channels
                /\ viewer' = [viewer EXCEPT ![u] = "detached"]
                /\ channel' = [channel EXCEPT ![u] = None]
                /\ readOnly' = [readOnly EXCEPT ![u] = TRUE]
        BY <1>2 DEF FailAttach, Receive, Asking
    <2>2. ASSUME NEW w \in Channels, viewer[w] = "live", ~readOnly[w]
          PROVE  controller'[pane[w]] = channel[w]
        <3>1. controller[pane[w]] = channel[w] /\ channel[w] # None
            BY <2>2 DEF WriterInv, WriterControls, LiveIsAttached
        <3>2. ~StaleControl \/ pane[w] # Home
            BY <2>2, <3>1 DEF StaleControl, NameInv, OneHolder
        <3>3. QED
            BY <1>2, <3>1, <3>2, TerminalAssumption DEF Freed
    <2>3. LiveIsAttached' /\ HandingIsFree'
        BY <2>1 DEF WriterInv, LiveIsAttached, HandingIsFree
    <2>4. WriterControls'
        BY <2>1, <2>2 DEF WriterControls
    <2>5. QED
        BY <2>3, <2>4 DEF WriterInv
<1>3. QED
    BY <1>1, <1>2 DEF FailAttach, manager, viewers

LEMMA WriterDetach == ASSUME TypeOK, NameInv, WriterInv, HandleDetach PROVE WriterInv'
<1> USE Received DEF TypeOK
<1> DEFINE c == Head(toAgent).channel
<1>1. Receive("detach") /\ handing = None /\ c \in Channels
    BY DEF HandleDetach, Receive, Asking
<1>2. CASE UNCHANGED manager
    BY <1>2 DEF manager, viewers, WriterInv, LiveIsAttached, WriterControls, HandingIsFree
<1>3. ASSUME NEW v \in Channels, channel[v] = c,
             viewer' = [viewer EXCEPT ![v] = "detached"],
             channel' = [channel EXCEPT ![v] = None],
             readOnly' = [readOnly EXCEPT ![v] = TRUE],
             controller' = Uncontrol(v),
             handing' = IF controller[pane[v]] = c THEN pane[v] ELSE None,
             pane' = pane
      PROVE  WriterInv'
    <2>1. \A p \in Panes :
              controller'[p] = IF p = pane[v] /\ controller[p] = c THEN None ELSE controller[p]
        BY <1>3 DEF Uncontrol
    <2>2. LiveIsAttached'
        BY <1>3 DEF WriterInv, LiveIsAttached
    <2>3. HandingIsFree'
        BY <1>3, <2>1 DEF HandingIsFree
    <2>4. ASSUME NEW w \in Channels, viewer'[w] = "live", ~readOnly'[w]
          PROVE  controller'[pane'[w]] = channel'[w]
        <3>1. w # v /\ viewer[w] = "live" /\ ~readOnly[w] /\ channel'[w] = channel[w]
            BY <1>3, <2>4
        <3>2. controller[pane[w]] = channel[w] /\ channel[w] # None
            BY <3>1 DEF WriterInv, WriterControls, LiveIsAttached
        <3>3. channel[w] # c
            BY <1>3, <3>1, <3>2 DEF NameInv, OneHolder
        <3>4. QED
            BY <1>3, <2>1, <3>1, <3>2, <3>3
    <2>5. QED
        BY <2>2, <2>3, <2>4 DEF WriterInv, WriterControls
<1>4. QED
    BY <1>2, <1>3 DEF HandleDetach

LEMMA WriterAssign == ASSUME TypeOK, NameInv, WriterInv, AssignNext PROVE WriterInv'
<1> USE DEF TypeOK
<1>1. /\ handing \in Panes /\ handing' = None /\ controller[handing] = None
      /\ viewer' = viewer /\ channel' = channel /\ pane' = pane
    BY DEF AssignNext, viewers, WriterInv, HandingIsFree
<1>2. CASE readOnly' = readOnly /\ controller' = controller
    BY <1>1, <1>2 DEF WriterInv, LiveIsAttached, WriterControls, HandingIsFree
<1>3. ASSUME NEW v \in Candidates,
             readOnly' = [readOnly EXCEPT ![v] = FALSE],
             controller' = [controller EXCEPT ![handing] = channel[v]]
      PROVE  WriterInv'
    <2>1. v \in Channels /\ pane[v] = handing
        BY DEF Candidates
    <2>2. \A w \in Channels : viewer[w] = "live" /\ ~readOnly[w] => pane[w] # handing
        BY <1>1 DEF WriterInv, LiveIsAttached, WriterControls
    <2>3. WriterControls'
        BY <1>1, <1>3, <2>1, <2>2 DEF WriterInv, WriterControls
    <2>4. QED
        BY <1>1, <2>3 DEF WriterInv, LiveIsAttached, HandingIsFree
<1>4. QED
    BY <1>2, <1>3 DEF AssignNext, viewers

LEMMA WriterTake == ASSUME TypeOK, NameInv, WriterInv, TakeControl PROVE WriterInv'
<1> USE Received DEF TypeOK
<1>1. PICK v \in Channels :
          /\ channel[v] = Head(toAgent).channel
          /\ readOnly' = [w \in Channels |->
                 IF Attached(w) /\ pane[w] = pane[v] THEN w # v ELSE readOnly[w]]
          /\ controller' = [controller EXCEPT ![pane[v]] = channel[v]]
    BY DEF TakeControl
<1>2. /\ handing = None /\ handing' = None
      /\ viewer' = viewer /\ channel' = channel /\ pane' = pane
    BY DEF TakeControl, Receive
<1>3. ASSUME NEW w \in Channels, viewer[w] = "live", ~readOnly'[w]
      PROVE  controller'[pane[w]] = channel[w]
    <2>1. Attached(w)
        BY <1>3 DEF WriterInv, LiveIsAttached, Attached
    <2>2. CASE pane[w] = pane[v]
        BY <1>1, <1>3, <2>1, <2>2
    <2>3. CASE pane[w] # pane[v]
        BY <1>1, <1>3, <2>3 DEF WriterInv, WriterControls
    <2>4. QED
        BY <2>2, <2>3
<1>4. QED
    BY <1>2, <1>3 DEF WriterInv, LiveIsAttached, WriterControls, HandingIsFree

LEMMA WriterFailControl == ASSUME TypeOK, NameInv, WriterInv, FailControl PROVE WriterInv'
<1> USE Received DEF TypeOK
<1>1. PICK v \in Channels :
          \/ readOnly' = readOnly /\ controller' = controller
          \/ /\ readOnly' = [w \in Channels |-> readOnly[w] \/ w \in Current(pane[v])]
             /\ controller' = [controller EXCEPT ![pane[v]] = None]
    BY DEF FailControl
<1>2. /\ handing = None /\ handing' = None
      /\ viewer' = viewer /\ channel' = channel /\ pane' = pane
    BY DEF FailControl, Receive
<1>3. ASSUME NEW w \in Channels, viewer[w] = "live", ~readOnly'[w]
      PROVE  controller'[pane[w]] = channel[w]
    <2>1. ~readOnly[w]
        BY <1>1, <1>3
    <2>2. controller[pane[w]] = channel[w] /\ Attached(w)
        BY <1>3, <2>1 DEF WriterInv, WriterControls, LiveIsAttached, Attached
    <2>3. pane[w] = pane[v] => w \in Current(pane[v])
        BY <2>2 DEF Current
    <2>4. controller' = controller \/ pane[w] # pane[v]
        BY <1>1, <1>3, <2>3
    <2>5. QED
        BY <1>1, <2>2, <2>4
<1>4. QED
    BY <1>2, <1>3 DEF WriterInv, LiveIsAttached, WriterControls, HandingIsFree

LEMMA WriterFocus == ASSUME TypeOK, NameInv, WriterInv, Focus PROVE WriterInv'
<1> USE Received DEF TypeOK
<1> DEFINE p == Head(toAgent).pane
<1>1. Receive("focus") /\ Head(toAgent) \in Asking
    BY DEF Focus
<1>2. p \in Panes /\ Head(toAgent).channel \in Channels
    BY <1>1 DEF Asking
<1>3. PICK v \in Channels :
          LET c == channel[v]
              writes == controller[p] = c \/ (controller[p] = None /\ Controls(v))
          IN  /\ c = Head(toAgent).channel
              /\ controller' = [q \in Panes |->
                     IF q = p /\ writes THEN c
                     ELSE IF q # p /\ q = pane[v] /\ Controls(v) THEN None ELSE controller[q]]
              /\ pane' = [pane EXCEPT ![v] = p]
              /\ readOnly' = [readOnly EXCEPT ![v] = ~writes]
    BY DEF Focus
<1>4. /\ handing = None /\ handing' = None
      /\ viewer' = viewer /\ channel' = channel
    BY <1>1 DEF Focus, Receive
<1> DEFINE writes == controller[p] = channel[v] \/ (controller[p] = None /\ Controls(v))
<1>5. ASSUME NEW w \in Channels, viewer[w] = "live", ~readOnly'[w]
      PROVE  controller'[pane'[w]] = channel[w]
    <2>1. CASE w = v
        <3>1. pane'[w] = p /\ writes
            BY <1>3, <1>5, <2>1
        <3>2. QED
            BY <1>2, <1>3, <2>1, <3>1
    <2>2. CASE w # v
        <3>1. pane'[w] = pane[w] /\ ~readOnly[w] /\ pane[w] \in Panes
            BY <1>3, <1>5, <2>2
        <3>2. controller[pane[w]] = channel[w] /\ channel[w] # None /\ channel[w] # channel[v]
            BY <1>5, <2>2, <3>1
            DEF WriterInv, WriterControls, LiveIsAttached, NameInv, OneHolder
        <3>3. ~(pane[w] = p /\ writes) /\ ~(pane[w] = pane[v] /\ Controls(v))
            BY <3>2 DEF Controls
        <3>4. QED
            BY <1>3, <3>1, <3>2, <3>3
    <2>3. QED
        BY <2>1, <2>2
<1>6. QED
    BY <1>4, <1>5 DEF WriterInv, LiveIsAttached, WriterControls, HandingIsFree

LEMMA WriterSweep ==
    ASSUME TypeOK, NameInv, WriterInv, NEW v \in Channels, Sweep(v) PROVE WriterInv'
<1> USE DEF TypeOK
<1>1. \A p \in Panes :
          controller'[p] = IF p = pane[v] /\ controller[p] = channel[v] THEN None ELSE controller[p]
    BY DEF Sweep, Uncontrol
<1>2. ASSUME NEW w \in Channels, viewer'[w] = "live"
      PROVE  /\ viewer[w] = "live" /\ channel'[w] = channel[w] /\ pane'[w] = pane[w]
             /\ readOnly'[w] = readOnly[w]
             /\ channel[w] # None /\ channel[w] # channel[v]
    BY <1>2 DEF Sweep, WriterInv, LiveIsAttached, NameInv, OneHolder
<1>3. LiveIsAttached' /\ WriterControls'
    BY <1>1, <1>2 DEF WriterInv, LiveIsAttached, WriterControls
<1>4. HandingIsFree'
    BY <1>1 DEF Sweep, WriterInv, HandingIsFree
<1>5. QED
    BY <1>3, <1>4 DEF WriterInv

LEMMA WriterStep == ASSUME TypeOK, NameInv, WriterInv, [Next]_vars PROVE WriterInv'
<1> USE DEF browser, server, wire, viewers, manager
<1>0. ASSUME channel' = channel, pane' = pane, readOnly' = readOnly, controller' = controller,
             handing' = handing,
             \A v \in Channels : viewer'[v] = "live" => viewer[v] = "live"
      PROVE  WriterInv'
    BY <1>0 DEF WriterInv, LiveIsAttached, WriterControls, HandingIsFree
<1>1. CASE UNCHANGED manager
    BY <1>0, <1>1
<1>2. CASE Handle
    <2>1. CASE RefuseAttach \/ ControlIdle \/ FocusIdle
        BY <1>1, <2>1 DEF RefuseAttach, ControlIdle, FocusIdle
    <2>2. QED
        BY <1>2, <2>1, WriterAttach, WriterFailAttach, WriterDetach, WriterAssign, WriterTake,
           WriterFailControl, WriterFocus DEF Handle
<1>3. ASSUME NEW v \in Channels, Sweep(v) PROVE WriterInv'
    BY <1>3, WriterSweep
<1>4. CASE Notice
    BY <1>0, <1>4 DEF Notice, TypeOK
<1>5. CASE AgentRestart
    BY <1>5 DEF AgentRestart, WriterInv, LiveIsAttached, WriterControls, HandingIsFree
<1>6. CASE Browser \/ Server \/ Break \/ Reconnect \/ ServerRestart
    <2>1. Browser => UNCHANGED manager
        BY DEF Browser, Connect, ConnectRefused, Leave, AskControl, AskFocus, Ask
    <2>2. Server => UNCHANGED manager
        BY DEF Server, DeliverStatus, SocketClosed, IdleTimeout
    <2>3. QED
        BY <1>1, <1>6, <2>1, <2>2 DEF Break, Reconnect, ServerRestart
<1>7. UNCHANGED vars => UNCHANGED manager
    BY DEF vars
<1>8. QED
    BY <1>1, <1>2, <1>3, <1>4, <1>5, <1>6, <1>7 DEF Next

LEMMA WriterInit == Init => NameInv /\ WriterInv
BY DEF Init, NameInv, OneHolder, HeldIsUsed, AttachedOnce, WriterInv, LiveIsAttached,
       WriterControls, HandingIsFree

(* Of the viewers of a pane whose channel agentd does not hold for stale, one  *)
(* at most may write, for every number of tabs, channels, panes and faults     *)
(* (terminal.go).                                                              *)
THEOREM WriterIsOne == Spec => []OneWriter
<1> DEFINE Inv == TypeOK /\ NameInv /\ WriterInv
<1>1. Init => Inv
    BY TypeInit, WriterInit
<1>2. Inv /\ [Next]_vars => Inv'
    BY TypeStep, NameStep, WriterStep
<1>3. Inv => OneWriter
    BY WriterImplies
<1>4. QED
    BY <1>1, <1>2, <1>3, PTL DEF Spec

-----------------------------------------------------------------------------
\* No ghosts (routes/terminal.ts, terminal.go).

\* Nothing waits on a broken connection, and its end made every viewer stale.
LinkInv ==
    /\ link # "up" => toAgent = <<>>
    /\ link = "down" => \A v \in Channels : channel[v] # None => viewer[v] = "stale"

\* The attachment of a channel given up meanwhile is undone by what follows it.
DetachFollows ==
    \A i \in 1..Len(toAgent) :
        Attaching(i) /\ toAgent[i].channel \notin served \cup failed =>
            \E j \in 1..Len(toAgent) : j > i /\ toAgent[j] = Detaching(toAgent[i].channel)

\* A channel that was detached or refused is not attached, and never will be.
Gone(c) ==
    /\ owner[c] # None
    /\ \A v \in Channels : channel[v] # c
    /\ \A i \in 1..Len(toAgent) : Attaching(i) => toAgent[i].channel # c

EndedIsGone ==
    \A k \in 1..Len(toServer) :
        toServer[k].status \in {"detached", "refused"} => Gone(toServer[k].channel)

LeavingInv == LinkInv /\ GhostIsLeaving /\ DetachFollows

\* The control plane sends, and says so of every channel it gives up.
LEMMA GhostSends ==
    ASSUME TypeOK, LeavingInv, NEW ms \in Seq(Asking), SendToAgent(ms),
           link' = link, UNCHANGED manager, failed' = failed,
           link = "up" => \A d \in served \ served' : \E k \in 1..Len(ms) : ms[k] = Detaching(d),
           \A k \in 1..Len(ms) : ms[k].op = "attach" => ms[k].channel \in served'
    PROVE  LeavingInv'
<1> USE DEF LeavingInv, manager, viewers
<1>1. LinkInv'
    BY Appended DEF LinkInv, TypeOK
<1>2. ASSUME NEW d \in served \ served', link = "up"
      PROVE  \E j \in 1..Len(toAgent') : j > Len(toAgent) /\ toAgent'[j] = Detaching(d)
    <2>1. PICK k \in 1..Len(ms) : ms[k] = Detaching(d)
        BY <1>2
    <2>2. /\ Len(toAgent) \in Nat /\ k + Len(toAgent) \in 1..Len(toAgent')
          /\ toAgent'[k + Len(toAgent)] = Detaching(d)
        BY <1>2, <2>1, Appended DEF TypeOK
    <2>3. QED
        BY <2>2
<1>3. ASSUME NEW v \in Channels, channel'[v] # None, channel'[v] \notin served' \cup failed'
      PROVE  viewer'[v] = "stale" \/ link' = "dead" \/ DetachOnTheWay(channel[v])'
    <2>1. CASE channel[v] \in served
        <3>1. CASE link = "up"
            BY <1>2, <1>3, <2>1, <3>1 DEF DetachOnTheWay
        <3>2. CASE link # "up"
            BY <1>3, <3>2 DEF LinkInv, TypeOK
        <3>3. QED
            BY <3>1, <3>2
    <2>2. CASE channel[v] \notin served
        <3>1. viewer[v] = "stale" \/ link = "dead" \/ DetachOnTheWay(channel[v])
            BY <1>3, <2>2 DEF GhostIsLeaving
        <3>2. DetachOnTheWay(channel[v]) => DetachOnTheWay(channel[v])'
            BY Appended DEF DetachOnTheWay, TypeOK, Detaching, Asked
        <3>3. QED
            BY <3>1, <3>2
    <2>3. QED
        BY <2>1, <2>2
<1>4. GhostIsLeaving'
    BY <1>3 DEF GhostIsLeaving
<1>5. ASSUME NEW i \in 1..Len(toAgent'), Attaching(i)',
             toAgent'[i].channel \notin served' \cup failed'
      PROVE  \E j \in 1..Len(toAgent') : j > i /\ toAgent'[j] = Detaching(toAgent'[i].channel)
    <2>1. i \in 1..Len(toAgent) /\ toAgent'[i] = toAgent[i] /\ Attaching(i)
        <3>1. ASSUME i \notin 1..Len(toAgent) PROVE FALSE
            <4>1. /\ i - Len(toAgent) \in 1..Len(ms)
                  /\ toAgent'[i] = ms[i - Len(toAgent)]
                BY <3>1, Appended DEF TypeOK
            <4>2. QED
                BY <1>5, <4>1 DEF Attaching
        <3>2. toAgent'[i] = toAgent[i]
            BY <3>1, Appended DEF TypeOK
        <3>3. QED
            BY <1>5, <3>1, <3>2 DEF Attaching
    <2>2. link = "up"
        BY <2>1 DEF LinkInv
    <2>3. CASE toAgent[i].channel \in served
        <3>1. PICK j \in 1..Len(toAgent') :
                  j > Len(toAgent) /\ toAgent'[j] = Detaching(toAgent[i].channel)
            BY <1>2, <1>5, <2>1, <2>2, <2>3
        <3>2. j > i
            BY <2>1, <3>1, Appended DEF TypeOK
        <3>3. QED
            BY <2>1, <3>1, <3>2
    <2>4. CASE toAgent[i].channel \notin served
        <3>1. PICK j \in 1..Len(toAgent) : j > i /\ toAgent[j] = Detaching(toAgent[i].channel)
            BY <1>5, <2>1, <2>4 DEF DetachFollows
        <3>2. QED
            BY <2>1, <3>1, Appended DEF TypeOK
    <2>5. QED
        BY <2>3, <2>4
<1>6. DetachFollows'
    BY <1>5 DEF DetachFollows
<1>7. QED
    BY <1>1, <1>4, <1>6

\* agentd takes a message, and attaches at most the channel it names.
LEMMA GhostReceives ==
    ASSUME TypeOK, LeavingInv, NEW op, Receive(op),
           link' = link, served' = served, failed' = failed,
           \A v \in Channels :
               \/ channel'[v] = None
               \/ channel'[v] = channel[v] /\ viewer'[v] = viewer[v]
               \/ op = "attach" /\ channel'[v] = toAgent[1].channel,
           op = "detach" => \A v \in Channels : channel'[v] # toAgent[1].channel
    PROVE  LeavingInv'
<1> USE Received DEF TypeOK, LeavingInv
<1>1. link = "up" /\ LinkInv'
    BY DEF LinkInv
<1>2. ASSUME NEW j \in 2..Len(toAgent)
      PROVE  \E i \in 1..Len(toAgent') : toAgent'[i] = toAgent[j]
    <2>1. j - 1 \in 1..Len(toAgent') /\ toAgent'[j - 1] = toAgent[j]
        OBVIOUS
    <2>2. QED
        BY <2>1
<1>3. ASSUME NEW v \in Channels, channel'[v] # None, channel'[v] \notin served' \cup failed'
      PROVE  \/ viewer'[v] = "stale"
             \/ \E i \in 1..Len(toAgent') : toAgent'[i] = Detaching(channel'[v])
    <2>1. CASE channel'[v] = channel[v] /\ viewer'[v] = viewer[v]
        <3>1. viewer[v] = "stale" \/ \E i \in 1..Len(toAgent) : toAgent[i] = Detaching(channel[v])
            BY <1>1, <1>3, <2>1 DEF GhostIsLeaving, DetachOnTheWay
        <3>2. ASSUME NEW i \in 1..Len(toAgent), toAgent[i] = Detaching(channel[v])
              PROVE  \E k \in 1..Len(toAgent') : toAgent'[k] = Detaching(channel'[v])
            <4>1. toAgent[i].op = "detach" /\ toAgent[i].channel = channel[v]
                BY <3>2 DEF Detaching, Asked
            <4>2. i # 1
                BY <2>1, <4>1
            <4>3. i \in 2..Len(toAgent)
                BY <4>2
            <4>4. Detaching(channel'[v]) = toAgent[i]
                BY <2>1, <3>2
            <4>5. QED
                BY <1>2, <4>3, <4>4
        <3>3. QED
            BY <2>1, <3>1, <3>2
    <2>2. CASE op = "attach" /\ channel'[v] = toAgent[1].channel
        <3>1. PICK j \in 1..Len(toAgent) : j > 1 /\ toAgent[j] = Detaching(toAgent[1].channel)
            BY <1>3, <2>2 DEF DetachFollows, Attaching
        <3>2. j \in 2..Len(toAgent)
            BY <3>1
        <3>3. QED
            BY <1>2, <2>2, <3>1, <3>2
    <2>3. QED
        BY <1>3, <2>1, <2>2
<1>4. GhostIsLeaving'
    BY <1>3 DEF GhostIsLeaving, DetachOnTheWay
<1>5. ASSUME NEW i \in 1..Len(toAgent'), Attaching(i)',
             toAgent'[i].channel \notin served' \cup failed'
      PROVE  \E j \in 1..Len(toAgent') : j > i /\ toAgent'[j] = Detaching(toAgent'[i].channel)
    <2>1. i + 1 \in 1..Len(toAgent) /\ toAgent'[i] = toAgent[i + 1] /\ Attaching(i + 1)
        BY <1>5 DEF Attaching
    <2>2. PICK j \in 1..Len(toAgent) : j > i + 1 /\ toAgent[j] = Detaching(toAgent[i + 1].channel)
        BY <1>5, <2>1 DEF DetachFollows
    <2>3. j - 1 \in 1..Len(toAgent') /\ toAgent'[j - 1] = toAgent[j] /\ j - 1 > i
        BY <2>2
    <2>4. QED
        BY <2>1, <2>2, <2>3
<1>6. DetachFollows'
    BY <1>5 DEF DetachFollows
<1>7. QED
    BY <1>1, <1>4, <1>6

\* What was ended stays gone.
LEMMA GoneKept ==
    ASSUME TypeOK, EndedIsGone,
           \A d \in Channels : owner[d] # None => owner'[d] # None,
           \A v \in Channels :
               \/ channel'[v] \in {channel[v], None}
               \/ \E i \in 1..Len(toAgent) : Attaching(i) /\ channel'[v] = toAgent[i].channel,
           \A i \in 1..Len(toAgent') : Attaching(i)' =>
               \/ owner[toAgent'[i].channel] = None
               \/ \E j \in 1..Len(toAgent) : Attaching(j) /\ toAgent'[i].channel = toAgent[j].channel,
           \A k \in 1..Len(toServer') : \A c \in Channels :
               toServer'[k].channel = c /\ toServer'[k].status \in {"detached", "refused"} =>
                   \/ Gone(c)'
                   \/ \E j \in 1..Len(toServer) : toServer[j] = toServer'[k],
           toServer' \in Seq(Telling)
    PROVE  EndedIsGone'
<1>1. ASSUME NEW c \in Channels, Gone(c) PROVE Gone(c)'
    BY <1>1, TerminalAssumption DEF Gone, Attaching
<1>2. ASSUME NEW k \in 1..Len(toServer'), toServer'[k].status \in {"detached", "refused"},
             NEW c \in Channels, toServer'[k].channel = c
      PROVE  Gone(c)'
    BY <1>1, <1>2 DEF EndedIsGone
<1>3. \A k \in 1..Len(toServer') : toServer'[k].channel \in Channels
    <2>1. \A k \in 1..Len(toServer') : toServer'[k] \in Telling
        BY ElementOfSeq
    <2>2. QED
        BY <2>1 DEF Telling
<1>4. QED
    BY <1>2, <1>3 DEF EndedIsGone, Gone

\* The channel whose attachment agentd has turned down.
LEMMA TurnedDown ==
    ASSUME TypeOK, NameInv, Receive("attach"), owner' = owner,
           \A v \in Channels : channel'[v] \in {channel[v], None},
           NEW c, c = toAgent[1].channel
    PROVE  Gone(c)'
<1> USE Received DEF TypeOK
<1>1. Attaching(1) /\ 1 \in 1..Len(toAgent) /\ c \in Channels
    BY Named DEF Attaching
<1>2. owner'[c] # None /\ \A v \in Channels : channel'[v] # c
    BY <1>1, TerminalAssumption DEF NameInv, AttachedOnce
<1>3. ASSUME NEW i \in 1..Len(toAgent'), Attaching(i)' PROVE toAgent'[i].channel # c
    <2>1. i + 1 \in 1..Len(toAgent) /\ toAgent'[i] = toAgent[i + 1] /\ Attaching(i + 1) /\ i + 1 # 1
        BY <1>3 DEF Attaching
    <2>2. QED
        BY <1>1, <2>1 DEF NameInv, AttachedOnce
<1>4. QED
    BY <1>2, <1>3 DEF Gone

\* The channel that agentd has detached.
LEMMA TakenOff ==
    ASSUME TypeOK, NameInv, Receive("detach"), owner' = owner, NEW v \in Channels,
           NEW c \in Channels, channel[v] = c, channel' = [channel EXCEPT ![v] = None]
    PROVE  Gone(c)'
<1> USE Received DEF TypeOK
<1>0. c # None
    BY TerminalAssumption
<1>1. owner'[c] # None /\ \A w \in Channels : channel'[w] # c
    BY <1>0 DEF NameInv, OneHolder, HeldIsUsed
<1>2. ASSUME NEW i \in 1..Len(toAgent'), Attaching(i)' PROVE toAgent'[i].channel # c
    <2>1. i + 1 \in 1..Len(toAgent) /\ toAgent'[i] = toAgent[i + 1] /\ Attaching(i + 1)
        BY <1>2 DEF Attaching
    <2>2. QED
        BY <2>1 DEF NameInv, AttachedOnce
<1>3. QED
    BY <1>1, <1>2 DEF Gone

\* agentd takes a message and reports ms.
LEMMA GoneReceived ==
    ASSUME TypeOK, EndedIsGone, NEW op, Receive(op), owner' = owner,
           \A v \in Channels :
               \/ channel'[v] \in {channel[v], None}
               \/ op = "attach" /\ channel'[v] = toAgent[1].channel,
           NEW ms \in Seq(Telling), toServer' = toServer \/ SendStatus(ms),
           \A k \in 1..Len(ms) : \A c \in Channels :
               ms[k].channel = c /\ ms[k].status \in {"detached", "refused"} => Gone(c)'
    PROVE  EndedIsGone'
<1> USE Received DEF TypeOK
<1>1. \A v \in Channels :
          \/ channel'[v] \in {channel[v], None}
          \/ \E i \in 1..Len(toAgent) : Attaching(i) /\ channel'[v] = toAgent[i].channel
    BY DEF Attaching
<1>2. ASSUME NEW i \in 1..Len(toAgent'), Attaching(i)'
      PROVE  \E j \in 1..Len(toAgent) : Attaching(j) /\ toAgent'[i].channel = toAgent[j].channel
    <2>1. i + 1 \in 1..Len(toAgent) /\ toAgent'[i] = toAgent[i + 1] /\ Attaching(i + 1)
        BY <1>2 DEF Attaching
    <2>2. QED
        BY <2>1
<1>3. /\ toServer' \in Seq(Telling)
      /\ \A k \in 1..Len(toServer') :
            \/ k \in 1..Len(toServer) /\ toServer'[k] = toServer[k]
            \/ \E j \in 1..Len(ms) : toServer'[k] = ms[j]
    BY Reported
<1>4. ASSUME NEW k \in 1..Len(toServer'), NEW c \in Channels,
             toServer'[k].channel = c, toServer'[k].status \in {"detached", "refused"}
      PROVE  \/ Gone(c)'
             \/ \E j \in 1..Len(toServer) : toServer[j] = toServer'[k]
    <2>1. CASE k \in 1..Len(toServer) /\ toServer'[k] = toServer[k]
        BY <2>1
    <2>2. ASSUME NEW j \in 1..Len(ms), toServer'[k] = ms[j] PROVE Gone(c)'
        <3>1. ms[j].channel = c /\ ms[j].status \in {"detached", "refused"}
            BY <1>4, <2>2
        <3>2. QED
            BY <3>1
    <2>3. QED
        BY <1>3, <2>1, <2>2
<1>5. QED
    BY <1>1, <1>2, <1>3, <1>4, GoneKept

LEMMA TailIsOld ==
    ASSUME NEW S, NEW s \in Seq(S), s # <<>>
    PROVE  Tail(s) \in Seq(S) /\ \A k \in 1..Len(Tail(s)) : \E j \in 1..Len(s) : s[j] = Tail(s)[k]
<1> DEFINE n == Len(Tail(s))
<1>1. /\ Tail(s) \in Seq(S) /\ Len(s) \in Nat /\ n = Len(s) - 1
      /\ \A k \in 1..n : Tail(s)[k] = s[k + 1]
    BY HeadTailProperties
<1> HIDE DEF n
<1>2. ASSUME NEW k \in 1..n PROVE k + 1 \in 1..Len(s)
    BY <1>1
<1>3. \A k \in 1..n : \E j \in 1..Len(s) : s[j] = Tail(s)[k]
    BY <1>1, <1>2
<1>4. QED
    BY <1>1, <1>3 DEF n

\* A step that neither attaches nor reports anything.
LEMMA GoneQuiet ==
    ASSUME TypeOK, EndedIsGone, \A d \in Channels : owner[d] # None => owner'[d] # None,
           \A v \in Channels : channel'[v] \in {channel[v], None},
           \A i \in 1..Len(toAgent') : Attaching(i)' =>
               \/ owner[toAgent'[i].channel] = None
               \/ i \in 1..Len(toAgent) /\ toAgent'[i] = toAgent[i],
           \/ toServer' = toServer \/ toServer' = <<>>
           \/ toServer # <<>> /\ toServer' = Tail(toServer)
    PROVE  EndedIsGone'
<1>1. /\ toServer' \in Seq(Telling)
      /\ \A k \in 1..Len(toServer') : \E j \in 1..Len(toServer) : toServer[j] = toServer'[k]
    <2>1. toServer \in Seq(Telling)
        BY DEF TypeOK
    <2>2. CASE toServer' = toServer
        BY <2>1, <2>2
    <2>3. CASE toServer' = <<>>
        <3>1. toServer' \in Seq(Telling) /\ Len(toServer') = 0
            BY <2>3, EmptySeq
        <3>2. QED
            BY <3>1
    <2>4. CASE toServer # <<>> /\ toServer' = Tail(toServer)
        BY <2>1, <2>4, TailIsOld
    <2>5. QED
        BY <2>2, <2>3, <2>4
<1>2. \A i \in 1..Len(toAgent') : Attaching(i)' =>
          \/ owner[toAgent'[i].channel] = None
          \/ \E j \in 1..Len(toAgent) : Attaching(j) /\ toAgent'[i].channel = toAgent[j].channel
    BY DEF Attaching
<1>3. QED
    BY <1>1, <1>2, GoneKept

\* What a tab's connection sends: a detach for each channel it replaces, then
\* the attachment of a channel that is served.
LEMMA Connecting ==
    ASSUME TypeOK, NEW t \in Tabs, NEW c \in Channels, Connect(t, c)
    PROVE  \E ms \in Seq(Asking) :
               /\ SendToAgent(ms)
               /\ \A d \in served \ served' : \E k \in 1..Len(ms) : ms[k] = Detaching(d)
               /\ \A k \in 1..Len(ms) : ms[k].op = "attach" => ms[k].channel = c
               /\ \A k \in 1..Len(ms) : ms[k].token \in {None, resumeToken[t]}
<1> DEFINE attach == Asked("attach", c, resumeToken[t], Home)
<1>1. PICK ds \in Detaches(Replaced(t)) : SendToAgent(ds \o <<attach>>)
    BY DEF Connect
<1>2. /\ ds \in Seq(Asking)
      /\ \A k \in 1..Len(ds) : \E d \in Replaced(t) : ds[k] = Detaching(d)
      /\ \A d \in Replaced(t) : \E k \in 1..Len(ds) : ds[k] = Detaching(d)
    <2>1. Replaced(t) \subseteq Channels
        BY DEF Replaced, TypeOK
    <2>2. QED
        BY <2>1, DetachesAll
<1>3. attach \in Asking /\ attach.channel = c /\ attach.token = resumeToken[t]
    <2>1. resumeToken[t] \in Channels \cup {None} /\ Home \in Panes
        BY TerminalAssumption DEF TypeOK
    <2>2. attach \in Asking
        BY <2>1, Messages
    <2>3. QED
        BY <2>2 DEF Asked
<1> DEFINE ms == ds \o <<attach>>
<1> HIDE DEF attach
<1>4. /\ ms \in Seq(Asking) /\ Len(ds) \in Nat /\ Len(ms) = Len(ds) + 1
      /\ \A k \in 1..Len(ds) : ms[k] = ds[k]
      /\ ms[Len(ds) + 1] = attach
    BY <1>2, <1>3
<1> HIDE DEF ms
<1>5. \A d \in Channels : Detaching(d).op = "detach" /\ Detaching(d).token = None
    BY DEF Detaching, Asked
<1>6. ASSUME NEW k \in 1..Len(ms), ms[k].op = "attach" PROVE ms[k].channel = c
    <2>1. k \notin 1..Len(ds)
        <3>1. Replaced(t) \subseteq Channels
            BY DEF Replaced, TypeOK
        <3>2. QED
            BY <1>2, <1>4, <1>5, <1>6, <3>1
    <2>2. k = Len(ds) + 1
        BY <1>4, <2>1
    <2>3. QED
        BY <1>3, <1>4, <2>2
<1>7. \A d \in served \ served' : d \in Replaced(t)
    BY DEF Connect
<1>8. \A d \in served \ served' : \E k \in 1..Len(ms) : ms[k] = Detaching(d)
    BY <1>2, <1>4, <1>7
<1>9. ASSUME NEW k \in 1..Len(ms) PROVE ms[k].token \in {None, resumeToken[t]}
    <2>1. CASE k \in 1..Len(ds)
        <3>1. Replaced(t) \subseteq Channels
            BY DEF Replaced, TypeOK
        <3>2. QED
            BY <1>2, <1>4, <1>5, <2>1, <3>1
    <2>2. CASE k \notin 1..Len(ds)
        <3>1. k = Len(ds) + 1
            BY <1>4, <2>2
        <3>2. QED
            BY <1>3, <1>4, <3>1
    <2>3. QED
        BY <2>1, <2>2
<1>10. QED
    BY <1>1, <1>4, <1>6, <1>8, <1>9 DEF ms

LEMMA LeavingBrowser == ASSUME TypeOK, LeavingInv, Browser PROVE LeavingInv'
<1> USE DEF browser, server, wire
<1>1. ASSUME NEW t \in Tabs, NEW c \in Channels, Connect(t, c) PROVE LeavingInv'
    <2>1. PICK ms \in Seq(Asking) :
              /\ SendToAgent(ms)
              /\ \A d \in served \ served' : \E k \in 1..Len(ms) : ms[k] = Detaching(d)
              /\ \A k \in 1..Len(ms) : ms[k].op = "attach" => ms[k].channel = c
        BY <1>1, Connecting
    <2>2. link' = link /\ UNCHANGED manager /\ failed' = failed /\ c \in served'
        BY <1>1 DEF Connect
    <2>3. QED
        BY <2>1, <2>2, GhostSends
<1>2. ASSUME NEW t \in Tabs, ConnectRefused(t) PROVE LeavingInv'
    BY <1>2 DEF ConnectRefused, LeavingInv, LinkInv, GhostIsLeaving, DetachFollows, DetachOnTheWay,
                Attaching, manager, viewers
<1>3. ASSUME NEW t \in Tabs, Leave(t) PROVE LeavingInv'
    BY <1>3 DEF Leave, LeavingInv, LinkInv, GhostIsLeaving, DetachFollows, DetachOnTheWay,
                Attaching, manager, viewers
<1>4. ASSUME NEW t \in Tabs, NEW op \in {"control", "focus"}, NEW p \in Panes, Ask(t, op, p)
      PROVE  LeavingInv'
    <2> DEFINE m == Asked(op, socket[t], None, p)
    <2>1. m \in Asking /\ m.op = op
        <3>1. socket[t] \in Channels
            BY <1>4 DEF Ask, TypeOK
        <3>2. QED
            BY <3>1, Messages DEF Asked
    <2>2. SendToAgent(<<m>>)
        BY <1>4 DEF Ask
    <2> HIDE DEF m
    <2>3. <<m>> \in Seq(Asking) /\ \A k \in 1..Len(<<m>>) : <<m>>[k] = m
        BY <2>1
    <2>4. link' = link /\ UNCHANGED manager /\ failed' = failed /\ served' = served
        BY <1>4 DEF Ask
    <2>5. QED
        BY <2>1, <2>2, <2>3, <2>4, GhostSends
<1>5. QED
    BY <1>1, <1>2, <1>3, <1>4, TerminalAssumption DEF Browser, AskControl, AskFocus

LEMMA LeavingServer == ASSUME TypeOK, LeavingInv, EndedIsGone, Server PROVE LeavingInv'
<1> USE DEF browser, server, wire
<1>1. ASSUME NEW c \in Channels, SocketClosed(c) \/ IdleTimeout(c) PROVE LeavingInv'
    <2>1. /\ served' = served \ {c} /\ SendToAgent(<<Detaching(c)>>)
          /\ link' = link /\ UNCHANGED manager /\ failed' = failed
        BY <1>1 DEF SocketClosed, IdleTimeout, DetachChannel
    <2>2. Detaching(c) \in Asking /\ Detaching(c).op = "detach"
        BY Messages DEF Detaching, Asked
    <2> DEFINE ms == <<Detaching(c)>>
    <2>3. ms \in Seq(Asking) /\ Len(ms) = 1 /\ ms[1] = Detaching(c)
        BY <2>2
    <2> HIDE DEF ms
    <2>4. SendToAgent(ms)
        BY <2>1 DEF ms
    <2>5. \A d \in served \ served' : \E k \in 1..Len(ms) : ms[k] = Detaching(d)
        BY <2>1, <2>3
    <2>6. \A k \in 1..Len(ms) : ms[k].op = "attach" => ms[k].channel \in served'
        BY <2>2, <2>3
    <2>7. QED
        BY <2>1, <2>3, <2>4, <2>5, <2>6, GhostSends
<1>2. CASE DeliverStatus
    <2> DEFINE m == Head(toServer)
    <2>1. /\ toServer # <<>> /\ UNCHANGED <<link, toAgent, owner, manager>>
          /\ \/ served' = served /\ failed' = failed
             \/ /\ served' = served \ {m.channel} /\ Ends(m.status)
                /\ failed' = IF m.status = "error" THEN failed \cup {m.channel} ELSE failed
        <3>1. CASE m.channel \notin served
            BY <1>2, <3>1 DEF DeliverStatus
        <3>2. CASE m.channel \in served /\ Ends(m.status)
            BY <1>2, <3>2 DEF DeliverStatus
        <3>3. CASE m.channel \in served /\ ~Ends(m.status)
            <4>1. m.status # "error"
                BY <3>3 DEF Ends
            <4>2. QED
                BY <1>2, <3>3, <4>1 DEF DeliverStatus
        <3>4. QED
            BY <3>1, <3>2, <3>3
    <2>2. 1 \in 1..Len(toServer) /\ toServer[1] = m
        BY <2>1 DEF TypeOK
    <2>3. /\ served \cup failed \subseteq served' \cup failed' \cup {m.channel}
          /\ m.channel \in served' \cup failed' \/ Gone(m.channel) \/ (served' = served /\ failed' = failed)
        BY <2>1, <2>2 DEF EndedIsGone, Ends
    <2>4. LinkInv'
        BY <2>1 DEF LeavingInv, LinkInv, manager, viewers
    <2>5. GhostIsLeaving'
        BY <2>1, <2>3 DEF LeavingInv, GhostIsLeaving, DetachOnTheWay, Gone, manager, viewers
    <2>6. DetachFollows'
        BY <2>1, <2>3 DEF LeavingInv, DetachFollows, Attaching, Gone, manager, viewers
    <2>7. QED
        BY <2>4, <2>5, <2>6 DEF LeavingInv
<1>3. QED
    BY <1>1, <1>2 DEF Server

LEMMA LeavingHandle == ASSUME TypeOK, NameInv, LeavingInv, Handle PROVE LeavingInv'
<1> USE DEF browser, server, wire, viewers
<1>1. CASE RefuseAttach \/ ControlIdle \/ TakeControl \/ FailControl \/ FocusIdle \/ Focus
    <2>1. /\ \E op \in {"attach", "control", "focus"} : Receive(op)
          /\ UNCHANGED <<link, served, failed, channel, viewer>>
        BY <1>1 DEF RefuseAttach, ControlIdle, TakeControl, FailControl, FocusIdle, Focus, manager
    <2>2. QED
        BY <2>1, GhostReceives
<1>2. CASE HandleAttach
    <2> DEFINE h == Head(toAgent)
               u == IF h.token = None THEN h.channel ELSE h.token
    <2>1. /\ Receive("attach") /\ UNCHANGED <<link, served, failed>>
          /\ channel' = [channel EXCEPT ![u] = h.channel]
          /\ viewer' = [viewer EXCEPT ![u] = "live"]
        BY <1>2 DEF HandleAttach
    <2>2. h = toAgent[1]
        BY <2>1, Received DEF TypeOK
    <2>3. \A v \in Channels :
              \/ channel'[v] = channel[v] /\ viewer'[v] = viewer[v]
              \/ channel'[v] = toAgent[1].channel
        BY <2>1, <2>2 DEF TypeOK
    <2>4. QED
        BY <2>1, <2>3, GhostReceives
<1>3. CASE FailAttach
    <2>1. /\ Receive("attach") /\ UNCHANGED <<link, served, failed>>
          /\ \/ channel' = channel /\ viewer' = viewer
             \/ \E u : /\ channel' = [channel EXCEPT ![u] = None]
                       /\ viewer' = [viewer EXCEPT ![u] = "detached"]
        BY <1>3 DEF FailAttach, manager
    <2>2. \A v \in Channels :
              channel'[v] = None \/ (channel'[v] = channel[v] /\ viewer'[v] = viewer[v])
        BY <2>1 DEF TypeOK
    <2>3. QED
        BY <2>1, <2>2, GhostReceives
<1>4. CASE HandleDetach
    <2> DEFINE c == Head(toAgent).channel
    <2>1. /\ Receive("detach") /\ UNCHANGED <<link, served, failed>>
          /\ \/ UNCHANGED manager /\ \A v \in Channels : channel[v] # c
             \/ \E v \in Channels :
                    /\ channel[v] = c
                    /\ channel' = [channel EXCEPT ![v] = None]
                    /\ viewer' = [viewer EXCEPT ![v] = "detached"]
        BY <1>4 DEF HandleDetach
    <2>2. c = toAgent[1].channel /\ c # None
        <3>1. c = toAgent[1].channel /\ 1 \in 1..Len(toAgent)
            BY <2>1, Received DEF TypeOK
        <3>2. QED
            BY <3>1, Named, TerminalAssumption
    <2>3. \A v \in Channels :
              /\ channel'[v] = None \/ (channel'[v] = channel[v] /\ viewer'[v] = viewer[v])
              /\ channel'[v] # c
        BY <2>1, <2>2 DEF manager, TypeOK, NameInv, OneHolder
    <2>4. QED
        BY <2>1, <2>2, <2>3, GhostReceives
<1>5. CASE AssignNext
    BY <1>5 DEF AssignNext, LeavingInv, LinkInv, GhostIsLeaving, DetachFollows, DetachOnTheWay, Attaching
<1>6. QED
    BY <1>1, <1>2, <1>3, <1>4, <1>5 DEF Handle

LEMMA LeavingStep == ASSUME TypeOK, NameInv, LeavingInv, EndedIsGone, [Next]_vars PROVE LeavingInv'
<1> USE DEF browser, server, wire, viewers
<1>1. CASE UNCHANGED vars
    BY <1>1 DEF vars, manager, LeavingInv, LinkInv, GhostIsLeaving, DetachFollows, DetachOnTheWay,
                Attaching
<1>2. ASSUME NEW v \in Channels, Sweep(v) PROVE LeavingInv'
    <2>1. /\ UNCHANGED <<link, toAgent, served, failed>>
          /\ \A w \in Channels :
                 channel'[w] = None \/ (channel'[w] = channel[w] /\ viewer'[w] = viewer[w])
        BY <1>2 DEF Sweep, TypeOK
    <2>2. QED
        BY <2>1 DEF LeavingInv, LinkInv, GhostIsLeaving, DetachFollows, DetachOnTheWay, Attaching
<1>3. CASE Break
    <2>1. link' = "dead" /\ toAgent' = <<>> /\ Len(toAgent') = 0
        BY <1>3 DEF Break
    <2>2. QED
        BY <2>1 DEF LeavingInv, LinkInv, GhostIsLeaving, DetachFollows
<1>4. CASE Notice
    <2>1. /\ link = "dead" /\ link' = "down" /\ UNCHANGED <<toAgent, channel, served, failed>>
          /\ viewer' = [v \in Channels |-> IF Attached(v) THEN "stale" ELSE viewer[v]]
        BY <1>4 DEF Notice
    <2>2. toAgent' = <<>> /\ Len(toAgent') = 0
        BY <2>1 DEF LeavingInv, LinkInv
    <2>3. \A v \in Channels : channel'[v] # None => viewer'[v] = "stale"
        BY <2>1 DEF Attached
    <2>4. QED
        BY <2>1, <2>2, <2>3 DEF LeavingInv, LinkInv, GhostIsLeaving, DetachFollows
<1>5. CASE Reconnect
    <2>1. /\ link = "down" /\ link' = "up"
          /\ UNCHANGED <<toAgent, channel, viewer, served, failed>>
        BY <1>5 DEF Reconnect, manager
    <2>2. \A v \in Channels : channel'[v] # None => viewer'[v] = "stale"
        BY <2>1 DEF LeavingInv, LinkInv
    <2>3. toAgent' = <<>> /\ Len(toAgent') = 0
        BY <2>1 DEF LeavingInv, LinkInv
    <2>4. QED
        BY <2>1, <2>2, <2>3 DEF LeavingInv, LinkInv, GhostIsLeaving, DetachFollows
<1>6. CASE ServerRestart
    <2>1. /\ toAgent' = <<>> /\ Len(toAgent') = 0 /\ UNCHANGED <<channel, viewer>>
          /\ link' = IF link = "up" THEN "dead" ELSE link
        BY <1>6 DEF ServerRestart, manager
    <2>2. link' = "dead" \/ link' = "down"
        BY <2>1 DEF TypeOK
    <2>3. link' = "down" => \A v \in Channels : channel'[v] # None => viewer'[v] = "stale"
        BY <2>1 DEF LeavingInv, LinkInv
    <2>4. QED
        BY <2>1, <2>2, <2>3 DEF LeavingInv, LinkInv, GhostIsLeaving, DetachFollows
<1>7. CASE AgentRestart
    <2>1. /\ toAgent' = <<>> /\ Len(toAgent') = 0
          /\ \A v \in Channels : channel'[v] = None
        BY <1>7 DEF AgentRestart
    <2>2. QED
        BY <2>1 DEF LeavingInv, LinkInv, GhostIsLeaving, DetachFollows
<1>8. QED
    BY <1>1, <1>2, <1>3, <1>4, <1>5, <1>6, <1>7, LeavingBrowser, LeavingServer, LeavingHandle
       DEF Next

\* agentd takes a message and reports one status.
LEMMA EndedReport ==
    ASSUME TypeOK, EndedIsGone, NEW op, Receive(op), owner' = owner,
           \A v \in Channels :
               \/ channel'[v] \in {channel[v], None}
               \/ op = "attach" /\ channel'[v] = toAgent[1].channel,
           NEW c \in Channels, NEW s \in Statuses, NEW u \in Channels \cup {None},
           SendStatus(<<Told(c, s, u)>>), s \in {"detached", "refused"} => Gone(c)'
    PROVE  EndedIsGone'
<1> DEFINE m == Told(c, s, u)
           ms == <<m>>
<1>1. m \in Telling /\ m.channel = c /\ m.status = s
    BY Messages DEF Told
<1> HIDE DEF m
<1>2. ms \in Seq(Telling) /\ \A k \in 1..Len(ms) : ms[k] = m
    BY <1>1
<1>3. SendStatus(ms)
    BY DEF m
<1> HIDE DEF ms
<1>4. \A k \in 1..Len(ms) : \A d \in Channels :
          ms[k].channel = d /\ ms[k].status \in {"detached", "refused"} => Gone(d)'
    BY <1>1, <1>2
<1>5. QED
    BY <1>2, <1>3, <1>4, GoneReceived

\* What agentd reports is an end only of a channel that it has let go.
LEMMA EndedHandle == ASSUME TypeOK, NameInv, EndedIsGone, Handle PROVE EndedIsGone'
<1> USE DEF browser, server, wire, viewers
<1>0. ASSUME NEW op, Receive(op)
      PROVE  /\ Head(toAgent) = toAgent[1] /\ toAgent[1].channel \in Channels
             /\ toAgent[1].token \in Channels \cup {None}
    BY <1>0, Received DEF TypeOK, Asking
\* Nothing is reported.
<1>a. ASSUME NEW op, Receive(op), owner' = owner, channel' = channel, toServer' = toServer
      PROVE  EndedIsGone'
    <2>1. <<>> \in Seq(Telling) /\ \A k \in 1..Len(<<>>) : FALSE
        BY EmptySeq
    <2>2. QED
        BY <1>a, <2>1, GoneReceived
<1>1. CASE RefuseAttach
    <2>1. Receive("attach") /\ owner' = owner /\ channel' = channel
        BY <1>1 DEF RefuseAttach, manager
    <2>2. PICK c \in Channels : c = toAgent[1].channel
        BY <1>0, <2>1
    <2>3. SendStatus(<<Told(c, "refused", None)>>)
        BY <1>0, <1>1, <2>1, <2>2 DEF RefuseAttach
    <2>4. Gone(c)'
        BY <2>1, <2>2, TurnedDown
    <2>5. QED
        BY <2>1, <2>3, <2>4, EndedReport DEF Statuses
<1>2. CASE HandleAttach
    <2> DEFINE w == IF toAgent[1].token = None THEN toAgent[1].channel ELSE toAgent[1].token
    <2>1. Receive("attach") /\ owner' = owner
        BY <1>2 DEF HandleAttach
    <2>2. PICK c \in Channels, u \in Channels, s \in {"readonly", "control"} :
              /\ c = toAgent[1].channel
              /\ channel' = [channel EXCEPT ![u] = c]
              /\ SendStatus(<<Told(c, s, u)>>)
        <3>1. w \in Channels
            BY <1>0, <2>1
        <3>2. /\ channel' = [channel EXCEPT ![w] = toAgent[1].channel]
              /\ \E s \in {"readonly", "control"} : SendStatus(<<Told(toAgent[1].channel, s, w)>>)
            BY <1>0, <1>2, <2>1 DEF HandleAttach
        <3>3. QED
            BY <1>0, <2>1, <3>1, <3>2
    <2>3. \A v \in Channels : channel'[v] = channel[v] \/ channel'[v] = toAgent[1].channel
        BY <2>2 DEF TypeOK
    <2>4. s \in Statuses /\ s \notin {"detached", "refused"}
        BY DEF Statuses
    <2>5. QED
        BY <2>1, <2>2, <2>3, <2>4, EndedReport
<1>3. CASE FailAttach
    <2>1. /\ Receive("attach") /\ owner' = owner
          /\ \/ channel' = channel
             \/ channel' = [channel EXCEPT ![Head(toAgent).token] = None]
        BY <1>3 DEF FailAttach, manager
    <2>2. \A v \in Channels : channel'[v] \in {channel[v], None}
        BY <2>1 DEF TypeOK
    <2>3. PICK c \in Channels : c = toAgent[1].channel
        BY <1>0, <2>1
    <2>4. PICK s \in {"error", "refused"} : SendStatus(<<Told(c, s, None)>>)
        BY <1>0, <1>3, <2>1, <2>3 DEF FailAttach
    <2>5. Gone(c)' /\ s \in Statuses
        BY <2>1, <2>2, <2>3, TurnedDown DEF Statuses
    <2>6. QED
        BY <2>1, <2>2, <2>4, <2>5, EndedReport
<1>4. CASE HandleDetach
    <2>1. Receive("detach") /\ owner' = owner
        BY <1>4 DEF HandleDetach
    <2>2. PICK c \in Channels : c = toAgent[1].channel
        BY <1>0, <2>1
    <2>3. CASE UNCHANGED <<manager, toServer>>
        BY <1>a, <2>1, <2>3 DEF manager
    <2>4. ASSUME NEW v \in Channels, channel[v] = c, channel' = [channel EXCEPT ![v] = None],
                 SendStatus(<<Told(c, "detached", None)>>)
          PROVE  EndedIsGone'
        <3>1. \A w \in Channels : channel'[w] \in {channel[w], None}
            BY <2>4 DEF TypeOK
        <3>2. Gone(c)'
            BY <2>1, <2>4, TakenOff
        <3>3. QED
            BY <2>1, <2>4, <3>1, <3>2, EndedReport DEF Statuses
    <2>5. QED
        BY <1>0, <1>4, <2>1, <2>2, <2>3, <2>4 DEF HandleDetach
<1>5. CASE AssignNext
    <2>1. owner' = owner /\ channel' = channel /\ toAgent' = toAgent
        BY <1>5 DEF AssignNext
    <2>2. CASE toServer' = toServer
        BY <2>1, <2>2, GoneQuiet
    <2>3. ASSUME NEW c \in Channels, SendStatus(<<Told(c, "control", None)>>)
          PROVE  EndedIsGone'
        <3> DEFINE m == Told(c, "control", None)
                   ms == <<m>>
        <3>1. m \in Telling /\ m.status = "control"
            BY Messages DEF Told, Statuses
        <3> HIDE DEF m
        <3>2. ms \in Seq(Telling) /\ \A k \in 1..Len(ms) : ms[k] = m
            BY <3>1
        <3>3. SendStatus(ms)
            BY <2>3 DEF m
        <3> HIDE DEF ms
        <3>4. /\ toServer' \in Seq(Telling)
              /\ \A k \in 1..Len(toServer') :
                    \/ k \in 1..Len(toServer) /\ toServer'[k] = toServer[k]
                    \/ toServer'[k].status = "control"
            <4>1. /\ toServer' \in Seq(Telling)
                  /\ \A k \in 1..Len(toServer') :
                        \/ k \in 1..Len(toServer) /\ toServer'[k] = toServer[k]
                        \/ \E j \in 1..Len(ms) : toServer'[k] = ms[j]
                BY <3>2, <3>3, Reported DEF TypeOK
            <4>2. QED
                BY <3>1, <3>2, <4>1
        <3>5. Len(toAgent') = Len(toAgent) /\ \A i : Attaching(i)' = Attaching(i)
            BY <2>1 DEF Attaching
        <3>6. QED
            BY <2>1, <3>4, <3>5, GoneKept
    <2>4. \A v \in Candidates : channel[v] \in Channels
        BY DEF Candidates, Attached, TypeOK
    <2>5. QED
        BY <1>5, <2>2, <2>3, <2>4 DEF AssignNext
<1>6. CASE ControlIdle \/ FocusIdle \/ FailControl \/ Focus
    <2>1. PICK op : Receive(op)
        BY <1>6 DEF ControlIdle, FocusIdle, FailControl, Focus
    <2>2. owner' = owner /\ channel' = channel
        BY <1>6 DEF ControlIdle, FocusIdle, FailControl, Focus, manager
    <2>3. PICK c \in Channels : c = toAgent[1].channel
        BY <1>0, <2>1
    <2>4. \/ toServer' = toServer
          \/ \E s \in {"error", "control", "readonly"} : SendStatus(<<Told(c, s, None)>>)
        BY <1>0, <1>6, <2>1, <2>3 DEF ControlIdle, FocusIdle, FailControl, Focus
    <2>5. \A s \in {"error", "control", "readonly"} : s \in Statuses /\ s \notin {"detached", "refused"}
        BY DEF Statuses
    <2>6. CASE toServer' = toServer
        BY <1>a, <2>1, <2>2, <2>6
    <2>7. ASSUME NEW s \in {"error", "control", "readonly"}, SendStatus(<<Told(c, s, None)>>)
          PROVE  EndedIsGone'
        BY <2>1, <2>2, <2>5, <2>7, EndedReport
    <2>8. QED
        BY <2>4, <2>6, <2>7
<1>7. CASE TakeControl
    <2>1. Receive("control") /\ owner' = owner /\ channel' = channel
        BY <1>7 DEF TakeControl
    <2>2. PICK c \in Channels, old \in Channels \cup {None} :
              SendStatus(<<Told(c, "control", None)>> \o
                         (IF old = None THEN <<>> ELSE <<Told(old, "readonly", None)>>))
        <3>1. PICK v \in Channels :
                  /\ channel[v] = Head(toAgent).channel
                  /\ SendStatus(<<Told(channel[v], "control", None)>> \o
                                (IF controller[pane[v]] = None THEN <<>>
                                 ELSE <<Told(controller[pane[v]], "readonly", None)>>))
            BY <1>7 DEF TakeControl
        <3>2. channel[v] \in Channels /\ controller[pane[v]] \in Channels \cup {None}
            BY <1>0, <2>1, <3>1 DEF TypeOK
        <3>3. QED
            BY <3>1, <3>2
    <2> DEFINE m == Told(c, "control", None)
               n == Told(old, "readonly", None)
               one == <<m>>
               two == IF old = None THEN <<>> ELSE <<n>>
    <2>3. /\ m \in Telling /\ m.status = "control"
          /\ old # None => n \in Telling
          /\ n.status = "readonly"
        BY Messages DEF Told, Statuses
    <2> HIDE DEF m, n
    <2>4. one \in Seq(Telling) /\ \A k \in 1..Len(one) : one[k] = m
        BY <2>3
    <2>5. two \in Seq(Telling) /\ \A k \in 1..Len(two) : two[k] = n
        BY <2>3
    <2>6. SendStatus(one \o two)
        BY <2>2 DEF m, n
    <2> HIDE DEF one, two
    <2> DEFINE ms == one \o two
    <2>7. /\ ms \in Seq(Telling) /\ \A k \in 1..Len(ms) : ms[k] = m \/ ms[k] = n
        BY <2>4, <2>5, ConcatProperties
    <2>8. SendStatus(ms)
        BY <2>6
    <2> HIDE DEF ms
    <2>9. \A k \in 1..Len(ms) : ms[k].status \notin {"detached", "refused"}
        BY <2>3, <2>7
    <2>10. QED
        BY <2>1, <2>7, <2>8, <2>9, GoneReceived
<1>8. QED
    BY <1>1, <1>2, <1>3, <1>4, <1>5, <1>6, <1>7 DEF Handle

LEMMA EndedStep == ASSUME TypeOK, NameInv, EndedIsGone, [Next]_vars PROVE EndedIsGone'
<1> USE DEF browser, server, wire, viewers, manager
<1>0. ASSUME owner' = owner, toAgent' = toAgent \/ toAgent' = <<>>,
             \A v \in Channels : channel'[v] \in {channel[v], None},
             \/ toServer' = toServer \/ toServer' = <<>>
             \/ toServer # <<>> /\ toServer' = Tail(toServer)
      PROVE  EndedIsGone'
    <2>1. \A i \in 1..Len(toAgent') : i \in 1..Len(toAgent) /\ toAgent'[i] = toAgent[i]
        BY <1>0
    <2>2. QED
        BY <1>0, <2>1, GoneQuiet
<1>1. CASE UNCHANGED vars
    BY <1>0, <1>1 DEF vars
<1>2. CASE Browser
    <2>1. ASSUME NEW t \in Tabs, NEW c \in Channels, Connect(t, c) PROVE EndedIsGone'
        <3>1. PICK ms \in Seq(Asking) :
                  /\ SendToAgent(ms)
                  /\ \A k \in 1..Len(ms) : ms[k].op = "attach" => ms[k].channel = c
            BY <2>1, Connecting
        <3>2. /\ owner[c] = None /\ owner' = [owner EXCEPT ![c] = t]
              /\ channel' = channel /\ toServer' = toServer
            BY <2>1 DEF Connect, Fresh
        <3>3. \A d \in Channels : owner[d] # None => owner'[d] # None
            BY <3>2 DEF TypeOK
        <3>4. ASSUME NEW i \in 1..Len(toAgent'), Attaching(i)'
              PROVE  \/ owner[toAgent'[i].channel] = None
                     \/ i \in 1..Len(toAgent) /\ toAgent'[i] = toAgent[i]
            <4>1. \/ i \in 1..Len(toAgent) /\ toAgent'[i] = toAgent[i]
                  \/ i - Len(toAgent) \in 1..Len(ms) /\ toAgent'[i] = ms[i - Len(toAgent)]
                BY <3>1, Appended DEF TypeOK
            <4>2. QED
                BY <3>1, <3>2, <3>4, <4>1 DEF Attaching
        <3>5. QED
            BY <3>2, <3>3, <3>4, GoneQuiet
    <2>2. ASSUME NEW t \in Tabs, ConnectRefused(t) \/ Leave(t) PROVE EndedIsGone'
        BY <1>0, <2>2 DEF ConnectRefused, Leave
    <2>3. ASSUME NEW t \in Tabs, NEW op \in {"control", "focus"}, NEW p \in Panes, Ask(t, op, p)
          PROVE  EndedIsGone'
        <3>1. /\ socket[t] \in Channels /\ owner' = owner /\ channel' = channel
              /\ toServer' = toServer /\ SendToAgent(<<Asked(op, socket[t], None, p)>>)
            BY <2>3 DEF Ask, TypeOK
        <3>2. QED
            BY <3>1, QueueKept, GoneQuiet
    <2>4. QED
        BY <1>2, <2>1, <2>2, <2>3, TerminalAssumption DEF Browser, AskControl, AskFocus
<1>3. CASE Server
    <2>1. CASE DeliverStatus
        BY <1>0, <2>1 DEF DeliverStatus
    <2>2. ASSUME NEW c \in Channels, SocketClosed(c) \/ IdleTimeout(c) PROVE EndedIsGone'
        <3>1. /\ owner' = owner /\ channel' = channel /\ toServer' = toServer
              /\ SendToAgent(<<Asked("detach", c, None, Home)>>)
            BY <2>2 DEF SocketClosed, IdleTimeout, DetachChannel, Detaching
        <3>2. QED
            BY <3>1, QueueKept, GoneQuiet, TerminalAssumption
    <2>3. QED
        BY <1>3, <2>1, <2>2 DEF Server
<1>4. CASE Handle
    BY <1>4, EndedHandle
<1>5. ASSUME NEW v \in Channels, Sweep(v) PROVE EndedIsGone'
    BY <1>0, <1>5 DEF Sweep, TypeOK
<1>6. CASE Break \/ Notice \/ Reconnect \/ ServerRestart
    BY <1>0, <1>6 DEF Break, Notice, Reconnect, ServerRestart
<1>7. CASE AgentRestart
    BY <1>0, <1>7 DEF AgentRestart
<1>8. QED
    BY <1>1, <1>2, <1>3, <1>4, <1>5, <1>6, <1>7 DEF Next

LEMMA LeavingInit == Init => LeavingInv /\ EndedIsGone
<1> SUFFICES ASSUME Init PROVE LeavingInv /\ EndedIsGone
    OBVIOUS
<1>1. /\ toAgent = <<>> /\ Len(toAgent) = 0 /\ Len(toServer) = 0 /\ link = "up"
      /\ \A v \in Channels : channel[v] = None
    BY DEF Init
<1>2. QED
    BY <1>1 DEF LeavingInv, LinkInv, GhostIsLeaving, DetachFollows, EndedIsGone

(* A viewer whose channel the control plane has given up is on its way out:    *)
(* its detach is under way, or the connection has ended and the sweeper will   *)
(* take it, for every number of tabs, channels, panes and faults               *)
(* (routes/terminal.ts, terminal.go).                                          *)
THEOREM NoGhost == Spec => []GhostIsLeaving
<1> DEFINE Inv == TypeOK /\ NameInv /\ LeavingInv /\ EndedIsGone
<1>1. Init => Inv
    BY TypeInit, WriterInit, LeavingInit
<1>2. Inv /\ [Next]_vars => Inv'
    BY TypeStep, NameStep, LeavingStep, EndedStep
<1>3. Inv => GhostIsLeaving
    BY DEF LeavingInv
<1>4. QED
    BY <1>1, <1>2, <1>3, PTL DEF Spec

-----------------------------------------------------------------------------
\* The last status about a channel.

LEMMA LeastOfSet ==
    ASSUME NEW T \in SUBSET Nat, T # {} PROVE \E x \in T : \A y \in T : x <= y
<1> DEFINE R == OpToRel(<, Nat)
<1>1. IsWellFoundedOn(R, Nat)
    BY NatLessThanWellFounded
<1>2. \A x, y \in Nat : <<x, y>> \in R <=> x < y
    BY DEF OpToRel
<1> HIDE DEF R
<1>3. PICK x \in T : \A y \in T : ~(<<y, x>> \in R)
    BY <1>1, WFMin
<1>4. \A y \in T : y \in Nat /\ x \in Nat /\ ~(y < x)
    BY <1>2, <1>3
<1>5. QED
    BY <1>4

LEMMA GreatestOfSet ==
    ASSUME NEW n \in Nat, NEW S \in SUBSET (1..n), S # {}
    PROVE  \E x \in S : \A y \in S : y <= x
<1> DEFINE T == {n - i : i \in S}
<1>1. \A i \in S : i \in Nat /\ n - i \in Nat
    OBVIOUS
<1>2. T \in SUBSET Nat /\ T # {}
    BY <1>1
<1>3. PICK x \in T : \A y \in T : x <= y
    BY <1>2, LeastOfSet
<1>4. PICK i \in S : x = n - i
    BY <1>3
<1>5. \A j \in S : n - j \in T
    OBVIOUS
<1> HIDE DEF T
<1>6. \A j \in S : n - i <= n - j
    BY <1>3, <1>4, <1>5
<1>7. QED
    BY <1>1, <1>6

\* What the queue q says of the channel c in the end, if it says anything.
SaidLast(q, c, shown) ==
    LET later == {i \in 1..Len(q) : q[i].channel = c}
    IN  IF later = {} THEN shown
        ELSE q[CHOOSE i \in later : \A j \in later : j <= i].status

\* Nothing but the last status counts.
LEMMA SaidAt ==
    ASSUME NEW q \in Seq(Telling), NEW c, NEW shown
    PROVE  /\ (\A i \in 1..Len(q) : q[i].channel # c) => SaidLast(q, c, shown) = shown
           /\ \A k \in 1..Len(q) :
                 q[k].channel = c /\ (\A i \in 1..Len(q) : q[i].channel = c => i <= k) =>
                     SaidLast(q, c, shown) = q[k].status
           /\ \/ \A i \in 1..Len(q) : q[i].channel # c
              \/ \E k \in 1..Len(q) :
                    q[k].channel = c /\ \A i \in 1..Len(q) : q[i].channel = c => i <= k
<1> DEFINE later == {i \in 1..Len(q) : q[i].channel = c}
<1>1. Len(q) \in Nat /\ later \in SUBSET (1..Len(q))
    OBVIOUS
<1>2. (\A i \in 1..Len(q) : q[i].channel # c) => SaidLast(q, c, shown) = shown
    BY DEF SaidLast
<1>3. ASSUME NEW k \in 1..Len(q), q[k].channel = c,
             \A i \in 1..Len(q) : q[i].channel = c => i <= k
      PROVE  SaidLast(q, c, shown) = q[k].status
    <2>1. k \in later /\ \A j \in later : j <= k
        BY <1>3
    <2>2. \A i \in later : (\A j \in later : j <= i) => i = k
        BY <1>1, <2>1
    <2>3. (CHOOSE i \in later : \A j \in later : j <= i) = k
        BY <2>1, <2>2
    <2>4. QED
        BY <2>1, <2>3 DEF SaidLast
<1>4. \/ \A i \in 1..Len(q) : q[i].channel # c
      \/ \E k \in 1..Len(q) :
            q[k].channel = c /\ \A i \in 1..Len(q) : q[i].channel = c => i <= k
    <2>1. CASE later = {}
        BY <2>1
    <2>2. CASE later # {}
        <3>1. PICK k \in later : \A j \in later : j <= k
            BY <1>1, <2>2, GreatestOfSet
        <3>2. QED
            BY <3>1
    <2>3. QED
        BY <2>1, <2>2
<1>5. QED
    BY <1>2, <1>3, <1>4

LEMMA SaidAppend ==
    ASSUME NEW q \in Seq(Telling), NEW m \in Telling, NEW c, NEW shown
    PROVE  /\ m.channel = c => SaidLast(Append(q, m), c, shown) = m.status
           /\ m.channel # c => SaidLast(Append(q, m), c, shown) = SaidLast(q, c, shown)
<1> DEFINE r == Append(q, m)
<1>1. /\ r \in Seq(Telling) /\ Len(q) \in Nat /\ Len(r) = Len(q) + 1
      /\ r[Len(q) + 1] = m
      /\ \A i \in 1..Len(q) : r[i] = q[i]
    OBVIOUS
<1>2. /\ 1..Len(r) = (1..Len(q)) \cup {Len(q) + 1}
      /\ Len(q) + 1 \in 1..Len(r) /\ \A i \in 1..Len(r) : i <= Len(q) + 1
    BY <1>1
<1> HIDE DEF r
<1>3. CASE m.channel = c
    <2>1. SaidLast(r, c, shown) = r[Len(q) + 1].status
        BY <1>1, <1>2, <1>3, SaidAt
    <2>2. QED
        BY <1>1, <1>3, <2>1 DEF r
<1>4. CASE m.channel # c
    <2>1. CASE \A i \in 1..Len(q) : q[i].channel # c
        <3>1. \A i \in 1..Len(r) : r[i].channel # c
            BY <1>1, <1>2, <1>4, <2>1
        <3>2. SaidLast(r, c, shown) = shown /\ SaidLast(q, c, shown) = shown
            BY <1>1, <2>1, <3>1, SaidAt
        <3>3. QED
            BY <1>4, <3>2 DEF r
    <2>2. ASSUME NEW k \in 1..Len(q), q[k].channel = c,
                 \A i \in 1..Len(q) : q[i].channel = c => i <= k
          PROVE  SaidLast(Append(q, m), c, shown) = SaidLast(q, c, shown)
        <3>1. k \in 1..Len(r) /\ r[k] = q[k] /\ \A i \in 1..Len(r) : r[i].channel = c => i <= k
            BY <1>1, <1>2, <1>4, <2>2
        <3>2. SaidLast(r, c, shown) = r[k].status
            BY <1>1, <2>2, <3>1, SaidAt
        <3>3. SaidLast(q, c, shown) = q[k].status
            BY <2>2, SaidAt
        <3>4. QED
            BY <3>1, <3>2, <3>3 DEF r
    <2>3. QED
        BY <1>4, <2>1, <2>2, SaidAt
<1>5. QED
    BY <1>3, <1>4

\* The head of the queue counts once it has been shown.
LEMMA SaidTail ==
    ASSUME NEW q \in Seq(Telling), q # <<>>, NEW c, NEW shown
    PROVE  /\ Head(q).channel = c =>
                  SaidLast(Tail(q), c, Head(q).status) = SaidLast(q, c, shown)
           /\ Head(q).channel # c => SaidLast(Tail(q), c, shown) = SaidLast(q, c, shown)
<1> DEFINE r == Tail(q)
<1>1. /\ r \in Seq(Telling) /\ Len(q) \in Nat /\ Len(q) >= 1 /\ Len(r) = Len(q) - 1
      /\ Head(q) = q[1]
      /\ \A i \in 1..Len(r) : r[i] = q[i + 1]
    BY HeadTailProperties
<1> HIDE DEF r
<1>2. /\ \A i \in 1..Len(r) : i + 1 \in 1..Len(q)
      /\ \A i \in 1..Len(q) : i = 1 \/ (i - 1 \in 1..Len(r) /\ r[i - 1] = q[i])
    BY <1>1
<1>3. ASSUME NEW other, \A i \in 1..Len(q) : i # 1 => q[i].channel # c
      PROVE  SaidLast(r, c, other) = other
    <2>1. \A i \in 1..Len(r) : i + 1 # 1 /\ r[i].channel # c
        BY <1>1, <1>2, <1>3
    <2>2. QED
        BY <1>1, <2>1, SaidAt
<1>4. ASSUME NEW other, NEW k \in 1..Len(q), k # 1, q[k].channel = c,
             \A i \in 1..Len(q) : q[i].channel = c => i <= k
      PROVE  SaidLast(r, c, other) = q[k].status
    <2>1. k - 1 \in 1..Len(r) /\ r[k - 1] = q[k]
        BY <1>2, <1>4
    <2>2. ASSUME NEW i \in 1..Len(r), r[i].channel = c PROVE i <= k - 1
        <3>1. i + 1 \in 1..Len(q) /\ q[i + 1].channel = c
            BY <1>1, <1>2, <2>2
        <3>2. i + 1 <= k
            BY <1>4, <3>1
        <3>3. QED
            BY <1>1, <3>2
    <2>3. QED
        BY <1>1, <1>4, <2>1, <2>2, SaidAt
<1>5. CASE \A i \in 1..Len(q) : q[i].channel # c
    <2>1. q[1].channel # c
        BY <1>1, <1>5
    <2>2. SaidLast(r, c, shown) = shown /\ SaidLast(q, c, shown) = shown
        BY <1>3, <1>5, SaidAt
    <2>3. QED
        BY <1>1, <2>1, <2>2 DEF r
<1>6. ASSUME NEW k \in 1..Len(q), q[k].channel = c,
             \A i \in 1..Len(q) : q[i].channel = c => i <= k
      PROVE  /\ Head(q).channel = c =>
                    SaidLast(Tail(q), c, Head(q).status) = SaidLast(q, c, shown)
             /\ Head(q).channel # c => SaidLast(Tail(q), c, shown) = SaidLast(q, c, shown)
    <2>1. SaidLast(q, c, shown) = q[k].status
        BY <1>6, SaidAt
    <2>2. CASE k = 1
        <3>1. \A i \in 1..Len(q) : i # 1 => q[i].channel # c
            BY <1>1, <1>6, <2>2
        <3>2. SaidLast(r, c, Head(q).status) = Head(q).status
            BY <1>3, <3>1
        <3>3. QED
            BY <1>1, <1>6, <2>1, <2>2, <3>2 DEF r
    <2>3. CASE k # 1
        <3>1. \A other : SaidLast(r, c, other) = q[k].status
            BY <1>4, <1>6, <2>3
        <3>2. QED
            BY <2>1, <3>1 DEF r
    <2>4. QED
        BY <2>2, <2>3
<1>7. QED
    BY <1>5, <1>6, SaidAt

-----------------------------------------------------------------------------
\* A viewer is named by a fresh id (terminal.go).

\* No viewer has had the name c, and no token for it is in circulation.
Unnamed(c) ==
    /\ channel[c] = None
    /\ \A t \in Tabs : resumeToken[t] # c
    /\ \A k \in 1..Len(toServer) : toServer[k].token # c
    /\ \A i \in 1..Len(toAgent) : toAgent[i].token # c

NewInv ==
    /\ \A c \in Channels : owner[c] = None => Unnamed(c)
    /\ \A i \in 1..Len(toAgent) :
           Attaching(i) /\ toAgent[i].token = None => Unnamed(toAgent[i].channel)

\* A step that names nobody, or x alone, and queues a new attachment only for a
\* fresh id.
LEMMA NewKept ==
    ASSUME TypeOK, NewInv, NEW x,
           \A d \in Channels : owner'[d] = None => owner[d] = None /\ d # x,
           \A v \in Channels : channel'[v] # None => v = x \/ ~Unnamed(v),
           \A t \in Tabs : \A d \in Channels : resumeToken'[t] = d => d = x \/ ~Unnamed(d),
           \A k \in 1..Len(toServer') : \A d \in Channels :
               toServer'[k].token = d => d = x \/ ~Unnamed(d),
           \A i \in 1..Len(toAgent') : \A d \in Channels :
               toAgent'[i].token = d => d = x \/ ~Unnamed(d),
           \A i \in 1..Len(toAgent') : Attaching(i)' /\ toAgent'[i].token = None =>
               /\ toAgent'[i].channel \in Channels /\ toAgent'[i].channel # x
               /\ \/ owner[toAgent'[i].channel] = None
                  \/ \E j \in 1..Len(toAgent) : Attaching(j) /\ toAgent[j] = toAgent'[i]
    PROVE  NewInv'
<1>1. ASSUME NEW d \in Channels, d # x, Unnamed(d) PROVE Unnamed(d)'
    BY <1>1 DEF Unnamed
<1>2. ASSUME NEW d \in Channels, owner'[d] = None PROVE Unnamed(d)'
    BY <1>1, <1>2 DEF NewInv
<1>3. ASSUME NEW i \in 1..Len(toAgent'), Attaching(i)', toAgent'[i].token = None,
             NEW d \in Channels, toAgent'[i].channel = d
      PROVE  Unnamed(d)'
    <2>1. Unnamed(d)
        BY <1>3 DEF NewInv
    <2>2. QED
        BY <1>1, <1>3, <2>1
<1>4. ASSUME NEW i \in 1..Len(toAgent'), Attaching(i)', toAgent'[i].token = None
      PROVE  Unnamed(toAgent[i].channel)'
    <2>1. PICK d \in Channels : toAgent'[i].channel = d
        BY <1>4
    <2>2. QED
        BY <1>3, <1>4, <2>1 DEF Unnamed
<1>5. QED
    BY <1>2, <1>4 DEF NewInv

\* A step that names nobody: no token, channel or attachment is new.
LEMMA NewQuiet ==
    ASSUME TypeOK, NewInv, owner' = owner,
           \A v \in Channels : channel'[v] \in {channel[v], None},
           \A t \in Tabs :
               \/ resumeToken'[t] \in {resumeToken[t], None}
               \/ \E k \in 1..Len(toServer) : resumeToken'[t] = toServer[k].token,
           \A k \in 1..Len(toServer') :
               \/ toServer'[k].token = None
               \/ \E j \in 1..Len(toServer) : toServer[j] = toServer'[k],
           \A i \in 1..Len(toAgent') :
               \/ toAgent'[i].token = None /\ ~Attaching(i)'
               \/ \E j \in 1..Len(toAgent) : toAgent[j] = toAgent'[i]
    PROVE  NewInv'
<1>0. None \notin Channels
    BY TerminalAssumption
<1>1. \A v \in Channels : channel'[v] # None => ~Unnamed(v)
    BY DEF Unnamed
<1>2. \A t \in Tabs : \A d \in Channels : resumeToken'[t] = d => ~Unnamed(d)
    BY <1>0 DEF Unnamed
<1>3. \A k \in 1..Len(toServer') : \A d \in Channels : toServer'[k].token = d => ~Unnamed(d)
    BY <1>0 DEF Unnamed
<1>4. \A i \in 1..Len(toAgent') : \A d \in Channels : toAgent'[i].token = d => ~Unnamed(d)
    BY <1>0 DEF Unnamed
<1>5. ASSUME NEW i \in 1..Len(toAgent'), Attaching(i)'
      PROVE  /\ toAgent'[i].channel \in Channels
             /\ \E j \in 1..Len(toAgent) : Attaching(j) /\ toAgent[j] = toAgent'[i]
    BY <1>5, Named DEF Attaching
<1>6. QED
    BY <1>0, <1>1, <1>2, <1>3, <1>4, <1>5, NewKept

LEMMA NewAttach == ASSUME TypeOK, NameInv, NewInv, HandleAttach PROVE NewInv'
<1> USE Received DEF TypeOK
<1> DEFINE c == Head(toAgent).channel
           w == Head(toAgent).token
           u == IF w = None THEN c ELSE w
<1>1. /\ Receive("attach") /\ owner' = owner /\ resumeToken' = resumeToken
      /\ channel' = [channel EXCEPT ![u] = c]
      /\ \E s \in {"readonly", "control"} : SendStatus(<<Told(c, s, u)>>)
    BY DEF HandleAttach, server, browser
<1>2. /\ c \in Channels /\ u \in Channels /\ w \in Channels \cup {None}
      /\ Head(toAgent) = toAgent[1] /\ Attaching(1) /\ 1 \in 1..Len(toAgent)
    BY <1>1 DEF Asking, Attaching
<1>3. w # None => ~Unnamed(u)
    BY <1>2 DEF Unnamed
<1>4. \A v \in Channels : channel'[v] # None => v = u \/ ~Unnamed(v)
    BY <1>1, <1>2 DEF Unnamed
<1>5. \A k \in 1..Len(toServer') : \A d \in Channels :
          toServer'[k].token = d => d = u \/ ~Unnamed(d)
    <2>1. PICK s \in {"readonly", "control"} : SendStatus(<<Told(c, s, u)>>)
        BY <1>1
    <2> DEFINE m == Told(c, s, u)
               ms == <<m>>
    <2>2. m \in Telling /\ m.token = u
        BY <1>2, Messages DEF Told, Statuses
    <2> HIDE DEF m
    <2>3. ms \in Seq(Telling) /\ \A k \in 1..Len(ms) : ms[k] = m
        BY <2>2
    <2>4. SendStatus(ms)
        BY <2>1 DEF m
    <2> HIDE DEF ms, u
    <2>5. \A k \in 1..Len(toServer') :
              \/ k \in 1..Len(toServer) /\ toServer'[k] = toServer[k]
              \/ \E j \in 1..Len(ms) : toServer'[k] = ms[j]
        BY <2>3, <2>4, Reported
    <2>6. QED
        BY <2>2, <2>3, <2>5 DEF Unnamed
<1>6. \A i \in 1..Len(toAgent') : \A d \in Channels : toAgent'[i].token = d => ~Unnamed(d)
    BY <1>1 DEF Unnamed
<1>7. ASSUME NEW i \in 1..Len(toAgent'), Attaching(i)'
      PROVE  /\ toAgent'[i].channel \in Channels /\ toAgent'[i].channel # c
             /\ \E j \in 1..Len(toAgent) : Attaching(j) /\ toAgent[j] = toAgent'[i]
    <2>1. i + 1 \in 1..Len(toAgent) /\ toAgent'[i] = toAgent[i + 1] /\ Attaching(i + 1) /\ i + 1 # 1
        BY <1>1, <1>7 DEF Attaching
    <2>2. QED
        BY <1>2, <2>1, Named DEF NameInv, AttachedOnce
<1>8. owner[c] # None
    BY <1>2 DEF NameInv, AttachedOnce
<1>9. CASE w = None
    <2>1. PICK x \in Channels : u = x /\ c = x
        BY <1>2, <1>9
    <2> HIDE DEF u, w, c
    <2>2. \A d \in Channels : owner'[d] = None => owner[d] = None /\ d # x
        BY <1>1, <1>8, <2>1
    <2>3. \A t \in Tabs : \A d \in Channels : resumeToken'[t] = d => d = x \/ ~Unnamed(d)
        BY <1>1 DEF Unnamed
    <2>4. \A v \in Channels : channel'[v] # None => v = x \/ ~Unnamed(v)
        BY <1>4, <2>1
    <2>5. \A k \in 1..Len(toServer') : \A d \in Channels :
              toServer'[k].token = d => d = x \/ ~Unnamed(d)
        BY <1>5, <2>1
    <2>6. \A i \in 1..Len(toAgent') : \A d \in Channels :
              toAgent'[i].token = d => d = x \/ ~Unnamed(d)
        BY <1>6
    <2>7. \A i \in 1..Len(toAgent') : Attaching(i)' /\ toAgent'[i].token = None =>
              /\ toAgent'[i].channel \in Channels /\ toAgent'[i].channel # x
              /\ \/ owner[toAgent'[i].channel] = None
                 \/ \E j \in 1..Len(toAgent) : Attaching(j) /\ toAgent[j] = toAgent'[i]
        BY <1>7, <2>1
    <2>8. QED
        <3> HIDE Received DEF TypeOK
        <3>1. TypeOK /\ NewInv
            OBVIOUS
        <3>2. QED
            BY <2>2, <2>3, <2>4, <2>5, <2>6, <2>7, <3>1, NewKept
<1>10. CASE w # None
    <2> HIDE DEF u, w, c
    <2>1. \A v \in Channels : channel'[v] # None => ~Unnamed(v)
        BY <1>3, <1>4, <1>10
    <2>2. \A k \in 1..Len(toServer') : \A d \in Channels : toServer'[k].token = d => ~Unnamed(d)
        BY <1>3, <1>5, <1>10
    <2>3. \A t \in Tabs : \A d \in Channels : resumeToken'[t] = d => ~Unnamed(d)
        BY <1>1 DEF Unnamed
    <2>4. \A d \in Channels : owner'[d] = None => owner[d] = None /\ d # None
        BY <1>1, TerminalAssumption
    <2>5. \A i \in 1..Len(toAgent') : Attaching(i)' => toAgent'[i].channel # None
        BY <1>7, TerminalAssumption
    <2>6. QED
        BY <1>6, <1>7, <2>1, <2>2, <2>3, <2>4, <2>5, NewKept
<1>11. QED
    BY <1>9, <1>10

\* Apart from attachments, what agentd reports carries no token.
LEMMA ReportsNoToken ==
    ASSUME TypeOK, Handle, ~HandleAttach
    PROVE  \A k \in 1..Len(toServer') :
               \/ toServer'[k].token = None
               \/ \E j \in 1..Len(toServer) : toServer[j] = toServer'[k]
<1> DEFINE Goal == \A k \in 1..Len(toServer') :
               \/ toServer'[k].token = None
               \/ \E j \in 1..Len(toServer) : toServer[j] = toServer'[k]
<1>0. CASE toServer' = toServer
    BY <1>0
<1>1. ASSUME NEW ms \in Seq(Telling), SendStatus(ms), \A k \in 1..Len(ms) : ms[k].token = None
      PROVE  Goal
    <2>1. \A k \in 1..Len(toServer') :
              \/ k \in 1..Len(toServer) /\ toServer'[k] = toServer[k]
              \/ \E j \in 1..Len(ms) : toServer'[k] = ms[j]
        BY <1>1, Reported DEF TypeOK
    <2>2. QED
        BY <1>1, <2>1
<1>2. ASSUME NEW c \in Channels, NEW s \in Statuses, SendStatus(<<Told(c, s, None)>>)
      PROVE  Goal
    <2> DEFINE m == Told(c, s, None)
               ms == <<m>>
    <2>1. m \in Telling /\ m.token = None
        BY Messages DEF Told
    <2> HIDE DEF m
    <2>2. ms \in Seq(Telling) /\ \A k \in 1..Len(ms) : ms[k] = m
        BY <2>1
    <2>3. SendStatus(ms)
        BY <1>2 DEF m
    <2> HIDE DEF ms
    <2>4. QED
        BY <1>1, <2>1, <2>2, <2>3
<1>3. ASSUME NEW c \in Channels, NEW old \in Channels \cup {None},
             SendStatus(<<Told(c, "control", None)>> \o
                        (IF old = None THEN <<>> ELSE <<Told(old, "readonly", None)>>))
      PROVE  Goal
    <2> DEFINE m == Told(c, "control", None)
               n == Told(old, "readonly", None)
               one == <<m>>
               two == IF old = None THEN <<>> ELSE <<n>>
               ms == one \o two
    <2>1. /\ m \in Telling /\ m.token = None
          /\ old # None => n \in Telling
          /\ n.token = None
        BY Messages DEF Told, Statuses
    <2> HIDE DEF m, n
    <2>2. one \in Seq(Telling) /\ \A k \in 1..Len(one) : one[k] = m
        BY <2>1
    <2>a. two \in Seq(Telling) /\ \A k \in 1..Len(two) : two[k] = n
        BY <2>1
    <2>3. SendStatus(one \o two)
        BY <1>3 DEF m, n
    <2> HIDE DEF one, two
    <2>4. ms \in Seq(Telling) /\ \A k \in 1..Len(ms) : ms[k] = m \/ ms[k] = n
        BY <2>2, <2>a, ConcatProperties
    <2>5. SendStatus(ms)
        BY <2>3
    <2> HIDE DEF ms
    <2>6. QED
        BY <1>1, <2>1, <2>4, <2>5
<1> HIDE DEF Goal
<1>4. ASSUME NEW op, Receive(op) PROVE Head(toAgent).channel \in Channels
    BY <1>4, Received DEF TypeOK, Asking
<1>5. CASE RefuseAttach \/ FailAttach
    <2>1. /\ Head(toAgent).channel \in Channels
          /\ \E s \in {"refused", "error"} : SendStatus(<<Told(Head(toAgent).channel, s, None)>>)
        BY <1>4, <1>5 DEF RefuseAttach, FailAttach
    <2>2. QED
        BY <1>2, <2>1 DEF Statuses, Goal
<1>6. CASE HandleDetach
    BY <1>0, <1>2, <1>4, <1>6 DEF HandleDetach, Statuses, Goal
<1>7. CASE AssignNext
    <2>1. \A v \in Candidates : channel[v] \in Channels
        BY DEF Candidates, Attached, TypeOK
    <2>2. QED
        BY <1>0, <1>2, <1>7, <2>1 DEF AssignNext, Statuses, Goal
<1>8. CASE ControlIdle \/ FocusIdle \/ FailControl
    BY <1>0, <1>2, <1>4, <1>8 DEF ControlIdle, FocusIdle, FailControl, Statuses, Goal
<1>9. CASE TakeControl
    <2>1. PICK v \in Channels :
              /\ channel[v] = Head(toAgent).channel
              /\ SendStatus(<<Told(channel[v], "control", None)>> \o
                            (IF controller[pane[v]] = None THEN <<>>
                             ELSE <<Told(controller[pane[v]], "readonly", None)>>))
        BY <1>9 DEF TakeControl
    <2>2. channel[v] \in Channels /\ controller[pane[v]] \in Channels \cup {None}
        BY <1>4, <1>9, <2>1 DEF TypeOK, TakeControl
    <2>3. QED
        BY <1>3, <2>1, <2>2 DEF Goal
<1>10. CASE Focus
    <2>1. /\ Head(toAgent).channel \in Channels
          /\ \E s \in {"readonly", "control"} : SendStatus(<<Told(Head(toAgent).channel, s, None)>>)
        BY <1>4, <1>10 DEF Focus
    <2>2. QED
        BY <1>2, <2>1 DEF Statuses, Goal
<1>11. QED
    BY <1>5, <1>6, <1>7, <1>8, <1>9, <1>10 DEF Handle, Goal

\* A question to agentd carries no token.
LEMMA AskedNoToken ==
    ASSUME TypeOK, NEW op \in {"control", "detach", "focus"}, NEW c \in Channels, NEW p \in Panes,
           SendToAgent(<<Asked(op, c, None, p)>>)
    PROVE  \A i \in 1..Len(toAgent') :
               \/ toAgent'[i].token = None /\ ~Attaching(i)'
               \/ \E j \in 1..Len(toAgent) : toAgent[j] = toAgent'[i]
<1> DEFINE m == Asked(op, c, None, p)
           ms == <<m>>
<1>1. m \in Asking /\ m.token = None /\ m.op # "attach"
    <2>1. m.op = op /\ m.token = None
        BY DEF Asked
    <2>2. QED
        BY <2>1, Messages
<1> HIDE DEF m
<1>2. ms \in Seq(Asking) /\ \A k \in 1..Len(ms) : ms[k] = m
    BY <1>1
<1>3. SendToAgent(ms)
    BY DEF m
<1> HIDE DEF ms
<1>4. \A i \in 1..Len(toAgent') :
          \/ i \in 1..Len(toAgent) /\ toAgent'[i] = toAgent[i]
          \/ i - Len(toAgent) \in 1..Len(ms) /\ toAgent'[i] = ms[i - Len(toAgent)]
    BY <1>2, <1>3, Appended DEF TypeOK
<1>5. QED
    BY <1>1, <1>2, <1>4 DEF Attaching

LEMMA NewStep == ASSUME TypeOK, NameInv, NewInv, [Next]_vars PROVE NewInv'
<1> USE DEF browser, server, wire, viewers, manager
<1>0. ASSUME owner' = owner, \A v \in Channels : channel'[v] \in {channel[v], None},
             resumeToken' = resumeToken, toServer' = toServer \/ toServer' = <<>>,
             toAgent' = toAgent \/ toAgent' = <<>>
      PROVE  NewInv'
    <2>1. \A k \in 1..Len(toServer') : \E j \in 1..Len(toServer) : toServer[j] = toServer'[k]
        BY <1>0
    <2>2. \A i \in 1..Len(toAgent') : \E j \in 1..Len(toAgent) : toAgent[j] = toAgent'[i]
        BY <1>0
    <2>3. QED
        BY <1>0, <2>1, <2>2, NewQuiet
<1>a. ASSUME NEW op \in {"control", "detach", "focus"}, NEW c \in Channels, NEW p \in Panes,
             SendToAgent(<<Asked(op, c, None, p)>>),
             owner' = owner, channel' = channel, resumeToken' = resumeToken, toServer' = toServer
      PROVE  NewInv'
    BY <1>a, AskedNoToken, NewQuiet
<1>1. CASE UNCHANGED vars
    BY <1>0, <1>1 DEF vars
<1>2. CASE Browser
    <2>1. ASSUME NEW t \in Tabs, NEW c \in Channels, Connect(t, c) PROVE NewInv'
        <3>1. PICK ms \in Seq(Asking) :
                  /\ SendToAgent(ms)
                  /\ \A k \in 1..Len(ms) : ms[k].op = "attach" => ms[k].channel = c
                  /\ \A k \in 1..Len(ms) : ms[k].token \in {None, resumeToken[t]}
            BY <2>1, Connecting
        <3>2. /\ owner[c] = None /\ owner' = [owner EXCEPT ![c] = t]
              /\ channel' = channel /\ toServer' = toServer /\ resumeToken' = resumeToken
              /\ None \notin Channels
            BY <2>1, TerminalAssumption DEF Connect, Fresh
        <3>3. \A d \in Channels : owner'[d] = None => owner[d] = None /\ d # None
            BY <3>2 DEF TypeOK
        <3>4. \A i \in 1..Len(toAgent') :
                  \/ i \in 1..Len(toAgent) /\ toAgent'[i] = toAgent[i]
                  \/ i - Len(toAgent) \in 1..Len(ms) /\ toAgent'[i] = ms[i - Len(toAgent)]
            BY <3>1, Appended DEF TypeOK
        <3>5. \A i \in 1..Len(toAgent') : \A d \in Channels : toAgent'[i].token = d => ~Unnamed(d)
            BY <3>1, <3>2, <3>4 DEF Unnamed
        <3>6. ASSUME NEW i \in 1..Len(toAgent'), Attaching(i)'
              PROVE  /\ toAgent'[i].channel \in Channels
                     /\ \/ owner[toAgent'[i].channel] = None
                        \/ \E j \in 1..Len(toAgent) : Attaching(j) /\ toAgent[j] = toAgent'[i]
            BY <3>1, <3>2, <3>4, <3>6, Named DEF Attaching
        <3>7. \A v \in Channels : channel'[v] # None => ~Unnamed(v)
            BY <3>2 DEF Unnamed
        <3>8. \A s \in Tabs : \A d \in Channels : resumeToken'[s] = d => ~Unnamed(d)
            BY <3>2 DEF Unnamed
        <3>9. \A k \in 1..Len(toServer') : \A d \in Channels : toServer'[k].token = d => ~Unnamed(d)
            BY <3>2 DEF Unnamed
        <3>10. QED
            BY <3>2, <3>3, <3>5, <3>6, <3>7, <3>8, <3>9, NewKept
    <2>2. ASSUME NEW t \in Tabs, ConnectRefused(t) \/ Leave(t) PROVE NewInv'
        BY <1>0, <2>2 DEF ConnectRefused, Leave
    <2>3. ASSUME NEW t \in Tabs, NEW op \in {"control", "focus"}, NEW p \in Panes, Ask(t, op, p)
          PROVE  NewInv'
        <3>1. /\ socket[t] \in Channels /\ SendToAgent(<<Asked(op, socket[t], None, p)>>)
              /\ owner' = owner /\ channel' = channel /\ resumeToken' = resumeToken
              /\ toServer' = toServer
            BY <2>3 DEF Ask, TypeOK
        <3>2. QED
            BY <1>a, <3>1
    <2>4. QED
        BY <1>2, <2>1, <2>2, <2>3, TerminalAssumption DEF Browser, AskControl, AskFocus
<1>3. CASE Server
    <2>1. CASE DeliverStatus
        <3>1. /\ owner' = owner /\ channel' = channel /\ toAgent' = toAgent
              /\ toServer # <<>> /\ toServer' = Tail(toServer)
            BY <2>1 DEF DeliverStatus
        <3>2. /\ toServer \in Seq(Telling) /\ 1 \in 1..Len(toServer) /\ Head(toServer) = toServer[1]
              /\ \A k \in 1..Len(toServer') : \E j \in 1..Len(toServer) : toServer[j] = toServer'[k]
            BY <3>1, TailIsOld DEF TypeOK
        <3>3. \A t \in Tabs : resumeToken'[t] \in {resumeToken[t], None, Head(toServer).token}
            BY <2>1 DEF DeliverStatus, TypeOK
        <3>4. QED
            BY <3>1, <3>2, <3>3, NewQuiet
    <2>2. ASSUME NEW c \in Channels, SocketClosed(c) \/ IdleTimeout(c) PROVE NewInv'
        <3>1. /\ owner' = owner /\ channel' = channel /\ toServer' = toServer
              /\ resumeToken' = resumeToken /\ SendToAgent(<<Asked("detach", c, None, Home)>>)
            BY <2>2 DEF SocketClosed, IdleTimeout, DetachChannel, Detaching
        <3>2. QED
            BY <1>a, <3>1, TerminalAssumption
    <2>3. QED
        BY <1>3, <2>1, <2>2 DEF Server
<1>4. CASE Handle
    <2>1. CASE HandleAttach
        BY <2>1, NewAttach
    <2>2. CASE ~HandleAttach
        <3>1. owner' = owner /\ resumeToken' = resumeToken
            BY <1>4, <2>2 DEF Handle, RefuseAttach, FailAttach, HandleDetach, AssignNext, ControlIdle,
               TakeControl, FailControl, FocusIdle, Focus
        <3>2. \A v \in Channels : channel'[v] \in {channel[v], None}
            <4>1. \/ channel' = channel
                  \/ \E v \in Channels \cup {None} : channel' = [channel EXCEPT ![v] = None]
                BY <1>4, <2>2, Received DEF Handle, RefuseAttach, FailAttach, HandleDetach, AssignNext,
                   ControlIdle, TakeControl, FailControl, FocusIdle, Focus, TypeOK, Asking
            <4>2. QED
                BY <4>1 DEF TypeOK
        <3>3. \A i \in 1..Len(toAgent') : \E j \in 1..Len(toAgent) : toAgent[j] = toAgent'[i]
            <4>1. toAgent' = toAgent \/ \E op : Receive(op)
                BY <1>4, <2>2 DEF Handle, RefuseAttach, FailAttach, HandleDetach, AssignNext,
                   ControlIdle, TakeControl, FailControl, FocusIdle, Focus
            <4>2. QED
                BY <4>1, Received DEF TypeOK
        <3>4. QED
            BY <1>4, <2>2, <3>1, <3>2, <3>3, ReportsNoToken, NewQuiet
    <2>3. QED
        BY <2>1, <2>2
<1>5. ASSUME NEW v \in Channels, Sweep(v) PROVE NewInv'
    BY <1>0, <1>5 DEF Sweep, TypeOK
<1>6. CASE Break \/ Notice \/ Reconnect \/ ServerRestart
    BY <1>0, <1>6 DEF Break, Notice, Reconnect, ServerRestart
<1>7. CASE AgentRestart
    BY <1>0, <1>7 DEF AgentRestart
<1>8. QED
    BY <1>1, <1>2, <1>3, <1>4, <1>5, <1>6, <1>7 DEF Next

-----------------------------------------------------------------------------
\* Every pane's controller is a viewer of the pane with a bridge (terminal.go).

IdleInv == \A v \in Channels : viewer[v] \in {"none", "detached"} => channel[v] = None

ControlsHere(v, p) == channel[v] = controller[p] /\ pane[v] = p /\ bridge[v]

ControlInv == \A p \in Panes : controller[p] # None => \E v \in Channels : ControlsHere(v, p)

\* A controller controls the pane of its viewer, and no other.
LEMMA OnePane ==
    ASSUME NameInv, ControlInv, NEW p \in Panes, NEW v \in Channels,
           channel[v] # None, controller[p] = channel[v]
    PROVE  pane[v] = p /\ bridge[v]
<1>1. PICK w \in Channels : ControlsHere(w, p)
    BY DEF ControlInv
<1>2. w = v
    BY <1>1 DEF ControlsHere, NameInv, OneHolder
<1>3. QED
    BY <1>1, <1>2 DEF ControlsHere

\* A step that gives no control: what controllers are left keep their viewers.
LEMMA ControlKept ==
    ASSUME ControlInv,
           \A p \in Panes : controller'[p] # None => controller'[p] = controller[p],
           \A p \in Panes, v \in Channels :
               controller'[p] # None /\ ControlsHere(v, p) =>
                   channel'[v] = channel[v] /\ pane'[v] = p /\ bridge'[v]
    PROVE  ControlInv'
<1> SUFFICES ASSUME NEW p \in Panes, controller'[p] # None
             PROVE  \E v \in Channels : channel'[v] = controller'[p] /\ pane'[v] = p /\ bridge'[v]
    BY DEF ControlInv, ControlsHere
<1>1. PICK v \in Channels : ControlsHere(v, p)
    BY DEF ControlInv
<1>2. QED
    BY <1>1 DEF ControlsHere

LEMMA IdleStep == ASSUME TypeOK, IdleInv, [Next]_vars PROVE IdleInv'
<1> USE DEF browser, server, wire, viewers, manager
<1>0. ASSUME channel' = channel,
             \A v \in Channels : viewer'[v] = viewer[v] \/ viewer'[v] = "stale"
      PROVE  IdleInv'
    BY <1>0 DEF IdleInv
<1>1. CASE UNCHANGED vars \/ Break \/ Reconnect \/ ServerRestart
    BY <1>0, <1>1 DEF vars, Break, Reconnect, ServerRestart
<1>2. CASE Notice
    BY <1>0, <1>2 DEF Notice, TypeOK
<1>3. CASE Browser \/ Server
    BY <1>0, <1>3 DEF Browser, Connect, ConnectRefused, Leave, AskControl, AskFocus, Ask,
       Server, DeliverStatus, SocketClosed, IdleTimeout
<1>4. CASE Handle
    <2>1. CASE HandleAttach
        <3> DEFINE u == IF Head(toAgent).token = None THEN Head(toAgent).channel
                        ELSE Head(toAgent).token
        <3>1. /\ viewer' = [viewer EXCEPT ![u] = "live"]
              /\ channel' = [channel EXCEPT ![u] = Head(toAgent).channel]
            BY <2>1 DEF HandleAttach
        <3> HIDE DEF u
        <3>2. QED
            BY <3>1 DEF IdleInv, TypeOK
    <2>2. CASE FailAttach
        <3> DEFINE u == Head(toAgent).token
        <3>1. \/ viewer' = viewer /\ channel' = channel
              \/ /\ viewer' = [viewer EXCEPT ![u] = "detached"]
                 /\ channel' = [channel EXCEPT ![u] = None]
            BY <2>2 DEF FailAttach
        <3> HIDE DEF u
        <3>2. QED
            BY <3>1 DEF IdleInv, TypeOK
    <2>3. CASE HandleDetach
        BY <2>3 DEF HandleDetach, IdleInv, TypeOK
    <2>4. CASE ~HandleAttach /\ ~FailAttach /\ ~HandleDetach
        BY <1>0, <1>4, <2>4 DEF Handle, RefuseAttach, AssignNext, ControlIdle, TakeControl, FailControl,
           FocusIdle, Focus
    <2>5. QED
        BY <2>1, <2>2, <2>3, <2>4
<1>5. ASSUME NEW v \in Channels, Sweep(v) PROVE IdleInv'
    BY <1>5 DEF Sweep, IdleInv, TypeOK
<1>6. CASE AgentRestart
    BY <1>6 DEF AgentRestart, IdleInv
<1>7. QED
    BY <1>1, <1>2, <1>3, <1>4, <1>5, <1>6 DEF Next

\* An attachment supersedes its own viewer's stale channel, control included.
LEMMA Superseded ==
    ASSUME TypeOK, NameInv, IdleInv, ControlInv, NEW u \in Channels, ~Unresumable(u),
           NEW p \in Panes, controller[p] # None, controller[p] = channel[u]
    PROVE  Freed[p] = None
<1>1. pane[u] = p
    BY OnePane
<1>2. viewer[u] = "stale" /\ pane[u] = Home
    BY TerminalAssumption DEF Unresumable, IdleInv, TypeOK
<1>3. StaleControl
    BY <1>1, <1>2 DEF StaleControl
<1>4. QED
    BY <1>1, <1>2, <1>3 DEF Freed, TypeOK

LEMMA ControlAttach ==
    ASSUME TypeOK, NameInv, NewInv, IdleInv, ControlInv, HandleAttach PROVE ControlInv'
<1> USE DEF TypeOK
<1> DEFINE c == Head(toAgent).channel
           w == Head(toAgent).token
           locked == Freed[Home] # None
<1>1. /\ Receive("attach") /\ ~Unresumable(w)
      /\ channel' = [channel EXCEPT ![IF w = None THEN c ELSE w] = c]
      /\ pane' = [pane EXCEPT ![IF w = None THEN c ELSE w] = Home]
      /\ bridge' = [bridge EXCEPT ![IF w = None THEN c ELSE w] = TRUE]
      /\ controller' = IF locked THEN Freed ELSE [Freed EXCEPT ![Home] = c]
    BY DEF HandleAttach
<1>2. /\ c \in Channels /\ w \in Channels \cup {None} /\ Home \in Panes /\ c # None
      /\ Attaching(1) /\ 1 \in 1..Len(toAgent) /\ toAgent[1] = Head(toAgent)
    BY <1>1, TerminalAssumption, Received DEF Asking, Attaching
<1>3. PICK u \in Channels : u = IF w = None THEN c ELSE w
    BY <1>2
<1>4. w = None => channel[u] = None
    BY <1>2, <1>3 DEF NewInv, Unnamed
<1>5. w # None => ~Unresumable(u)
    BY <1>1, <1>3
<1>6. /\ channel' = [channel EXCEPT ![u] = c]
      /\ pane' = [pane EXCEPT ![u] = Home]
      /\ bridge' = [bridge EXCEPT ![u] = TRUE]
    BY <1>1, <1>3
<1> HIDE DEF c, w
<1>7. ASSUME NEW p \in Panes, Freed[p] # None
      PROVE  \E v \in Channels : channel'[v] = Freed[p] /\ pane'[v] = p /\ bridge'[v]
    <2>1. Freed[p] = controller[p] /\ controller[p] # None
        BY <1>7 DEF Freed
    <2>2. PICK v \in Channels : ControlsHere(v, p)
        BY <2>1 DEF ControlInv
    <2>3. v # u
        BY <1>4, <1>5, <1>7, <2>1, <2>2, Superseded DEF ControlsHere
    <2>4. QED
        BY <1>6, <2>1, <2>2, <2>3 DEF ControlsHere
<1>8. ASSUME NEW p \in Panes, controller'[p] # None
      PROVE  \E v \in Channels : channel'[v] = controller'[p] /\ pane'[v] = p /\ bridge'[v]
    <2>1. CASE controller'[p] = Freed[p]
        BY <1>7, <1>8, <2>1
    <2>2. CASE controller'[p] # Freed[p]
        <3>1. p = Home /\ controller'[p] = c
            BY <1>1, <1>2, <2>2 DEF Freed
        <3>2. QED
            BY <1>2, <1>6, <3>1
    <2>3. QED
        BY <2>1, <2>2
<1>9. QED
    BY <1>8 DEF ControlInv, ControlsHere

LEMMA ControlFailAttach ==
    ASSUME TypeOK, NameInv, IdleInv, ControlInv, FailAttach PROVE ControlInv'
<1> USE DEF TypeOK
<1>1. CASE UNCHANGED manager
    BY <1>1 DEF manager, viewers, ControlInv, ControlsHere
<1>2. CASE controller' = Freed /\ UNCHANGED <<channel, pane, bridge>>
    BY <1>2, ControlKept DEF Freed, ControlsHere
<1>3. ASSUME NEW u \in Channels, u = Head(toAgent).token, ~Unresumable(u),
             controller' = Freed, pane' = pane,
             channel' = [channel EXCEPT ![u] = None],
             bridge' = [bridge EXCEPT ![u] = FALSE]
      PROVE  ControlInv'
    <2>1. \A p \in Panes : controller'[p] # None => controller'[p] = controller[p]
        BY <1>3 DEF Freed
    <2>2. ASSUME NEW p \in Panes, NEW v \in Channels, controller'[p] # None, ControlsHere(v, p)
          PROVE  channel'[v] = channel[v] /\ pane'[v] = p /\ bridge'[v]
        <3>1. v # u
            BY <1>3, <2>1, <2>2, Superseded DEF ControlsHere
        <3>2. QED
            BY <1>3, <2>2, <3>1 DEF ControlsHere
    <2>3. QED
        BY <2>1, <2>2, ControlKept
<1>4. \A u : u = Head(toAgent).token /\ Receive("attach") => u \in Channels \cup {None}
    BY Received DEF Asking
<1>5. QED
    <2>1. Receive("attach") /\ Head(toAgent).token \in Channels \cup {None}
        BY <1>4 DEF FailAttach
    <2>2. PICK u \in Channels \cup {None} : u = Head(toAgent).token
        BY <2>1
    <2>3. ~Unresumable(u)
        BY <2>2 DEF FailAttach
    <2>4. \/ UNCHANGED manager
          \/ controller' = Freed /\ UNCHANGED <<channel, pane, bridge>>
          \/ /\ controller' = Freed /\ pane' = pane /\ u # None
             /\ channel' = [channel EXCEPT ![u] = None]
             /\ bridge' = [bridge EXCEPT ![u] = FALSE]
        BY <2>2 DEF FailAttach
    <2>5. QED
        BY <1>1, <1>2, <1>3, <2>2, <2>3, <2>4

\* A viewer that goes loses its control.
LEMMA ControlGone ==
    ASSUME TypeOK, NameInv, ControlInv, NEW v \in Channels, controller' = Uncontrol(v),
           channel' = [channel EXCEPT ![v] = None], bridge' = [bridge EXCEPT ![v] = FALSE],
           \A w \in Channels : w # v => pane'[w] = pane[w]
    PROVE  ControlInv'
<1> USE DEF TypeOK
<1>1. \A p \in Panes :
          controller'[p] = IF p = pane[v] /\ controller[p] = channel[v] THEN None ELSE controller[p]
    BY DEF Uncontrol
<1>2. \A p \in Panes : controller'[p] # None => controller'[p] = controller[p]
    BY <1>1
<1>3. ASSUME NEW p \in Panes, NEW w \in Channels, controller'[p] # None, ControlsHere(w, p)
      PROVE  channel'[w] = channel[w] /\ pane'[w] = p /\ bridge'[w]
    <2>1. w # v
        BY <1>1, <1>3 DEF ControlsHere
    <2>2. QED
        BY <1>3, <2>1 DEF ControlsHere
<1>4. QED
    BY <1>2, <1>3, ControlKept

\* A viewer with a bridge takes the control of its pane, and gives up none.
LEMMA ControlGiven ==
    ASSUME TypeOK, NameInv, ControlInv, NEW v \in Channels, channel[v] # None,
           controller' = [controller EXCEPT ![pane[v]] = channel[v]],
           channel' = channel, pane' = pane, bridge'[v],
           \A w \in Channels : bridge[w] => bridge'[w]
    PROVE  ControlInv'
<1> SUFFICES ASSUME NEW p \in Panes, controller'[p] # None
             PROVE  \E w \in Channels : channel'[w] = controller'[p] /\ pane'[w] = p /\ bridge'[w]
    BY DEF ControlInv, ControlsHere
<1>1. CASE p = pane[v]
    BY <1>1 DEF TypeOK
<1>2. CASE p # pane[v]
    <2>1. controller'[p] = controller[p]
        BY <1>2 DEF TypeOK
    <2>2. PICK w \in Channels : ControlsHere(w, p)
        BY <2>1 DEF ControlInv
    <2>3. QED
        BY <2>1, <2>2 DEF ControlsHere
<1>3. QED
    BY <1>1, <1>2

LEMMA ControlFailControl ==
    ASSUME TypeOK, NameInv, ControlInv, FailControl PROVE ControlInv'
<1> USE DEF TypeOK
<1>1. PICK v \in Channels :
          /\ channel[v] = Head(toAgent).channel /\ ~Controls(v)
          /\ \/ /\ bridge' = [w \in Channels |-> (bridge[w] \/ w \in Current(pane[v])) /\ w # v]
                /\ controller' = controller
             \/ /\ \E lost \in {{}, {v}} :
                      bridge' = [w \in Channels |-> bridge[w] /\ w \notin lost \cup Current(pane[v])]
                /\ controller' = [controller EXCEPT ![pane[v]] = None]
    BY DEF FailControl
<1>2. channel' = channel /\ pane' = pane /\ channel[v] # None
    BY <1>1, Received, TerminalAssumption DEF FailControl, Asking
<1>3. \A p \in Panes : controller'[p] # None => controller'[p] = controller[p]
    BY <1>1
<1>4. ASSUME NEW p \in Panes, NEW w \in Channels, controller'[p] # None, ControlsHere(w, p)
      PROVE  bridge'[w]
    <2>1. w # v
        BY <1>1, <1>4 DEF ControlsHere, Controls
    <2>2. CASE bridge' = [x \in Channels |-> (bridge[x] \/ x \in Current(pane[v])) /\ x # v]
        BY <1>4, <2>1, <2>2 DEF ControlsHere
    <2>3. ASSUME NEW lost \in {{}, {v}},
                 bridge' = [x \in Channels |-> bridge[x] /\ x \notin lost \cup Current(pane[v])],
                 controller' = [controller EXCEPT ![pane[v]] = None]
          PROVE  bridge'[w]
        <3>1. p # pane[v]
            BY <1>4, <2>3
        <3>2. w \notin Current(pane[v])
            <4> SUFFICES ASSUME w \in Current(pane[v]) PROVE FALSE
                OBVIOUS
            <4>1. channel[w] # None /\ channel[w] = controller[pane[v]]
                BY DEF Current, Attached
            <4>2. pane[w] = pane[v]
                BY <4>1, OnePane
            <4>3. QED
                BY <1>4, <3>1, <4>2 DEF ControlsHere
        <3>3. QED
            BY <1>4, <2>1, <2>3, <3>2 DEF ControlsHere
    <2>4. QED
        BY <1>1, <2>2, <2>3
<1>5. QED
    BY <1>2, <1>3, <1>4, ControlKept DEF ControlsHere

LEMMA ControlFocus == ASSUME TypeOK, NameInv, ControlInv, Focus PROVE ControlInv'
<1> USE DEF TypeOK
<1>1. PICK p \in Panes, v \in Channels :
          LET c == channel[v]
              writes == controller[p] = c \/ (controller[p] = None /\ Controls(v))
          IN  /\ c # None /\ bridge[v]
              /\ controller' = [q \in Panes |->
                     IF q = p /\ writes THEN c
                     ELSE IF q # p /\ q = pane[v] /\ Controls(v) THEN None ELSE controller[q]]
              /\ pane' = [pane EXCEPT ![v] = p]
    <2>1. Receive("focus")
        BY DEF Focus
    <2>2. Head(toAgent).pane \in Panes /\ Head(toAgent).channel # None
        BY <2>1, Received, TerminalAssumption DEF Asking
    <2>3. PICK p \in Panes : p = Head(toAgent).pane
        BY <2>2
    <2>4. QED
        BY <2>2, <2>3 DEF Focus
<1>2. channel' = channel /\ bridge' = bridge
    BY DEF Focus
<1> DEFINE writes == controller[p] = channel[v] \/ (controller[p] = None /\ Controls(v))
<1>3. ASSUME NEW q \in Panes, controller'[q] # None
      PROVE  \E w \in Channels : channel'[w] = controller'[q] /\ pane'[w] = q /\ bridge'[w]
    <2>1. CASE q = p /\ writes
        <3>1. controller'[q] = channel[v] /\ pane'[v] = q
            BY <1>1, <2>1
        <3>2. QED
            BY <1>1, <1>2, <3>1
    <2>2. CASE ~(q = p /\ writes)
        <3>1. controller'[q] = controller[q] /\ ~(q # p /\ q = pane[v] /\ Controls(v))
            BY <1>1, <1>3, <2>2
        <3>2. PICK w \in Channels : ControlsHere(w, q)
            BY <1>3, <3>1 DEF ControlInv
        <3>3. w # v
            BY <1>1, <2>2, <3>1, <3>2 DEF ControlsHere, Controls
        <3>4. QED
            BY <1>1, <1>2, <3>1, <3>2, <3>3 DEF ControlsHere
    <2>3. QED
        BY <2>1, <2>2
<1>4. QED
    BY <1>3 DEF ControlInv, ControlsHere

LEMMA ControlStep ==
    ASSUME TypeOK, NameInv, NewInv, WriterInv, IdleInv, ControlInv, [Next]_vars
    PROVE  ControlInv'
<1> USE DEF browser, server, wire, viewers, manager
<1>0. CASE UNCHANGED <<channel, pane, bridge, controller>>
    BY <1>0 DEF ControlInv, ControlsHere
<1>1. CASE UNCHANGED vars \/ Break \/ Notice \/ Reconnect \/ ServerRestart
    BY <1>0, <1>1 DEF vars, Break, Notice, Reconnect, ServerRestart
<1>2. CASE Browser \/ Server
    BY <1>0, <1>2 DEF Browser, Connect, ConnectRefused, Leave, AskControl, AskFocus, Ask,
       Server, DeliverStatus, SocketClosed, IdleTimeout
<1>3. CASE Handle
    <2>1. CASE RefuseAttach \/ ControlIdle \/ FocusIdle
        BY <1>0, <2>1 DEF RefuseAttach, ControlIdle, FocusIdle
    <2>2. CASE HandleDetach
        BY <1>0, <2>2, ControlGone DEF HandleDetach
    <2>3. CASE AssignNext
        <3>1. controller[handing] = None /\ handing \in Panes
            BY <2>3 DEF AssignNext, WriterInv, HandingIsFree, TypeOK
        <3>2. ASSUME NEW v \in Candidates, bridge' = [bridge EXCEPT ![v] = TRUE],
                     controller' = [controller EXCEPT ![handing] = channel[v]],
                     channel' = channel, pane' = pane
              PROVE  ControlInv'
            <4>1. v \in Channels /\ channel[v] # None /\ pane[v] = handing
                BY DEF Candidates, Attached
            <4>2. QED
                BY <3>2, <4>1, ControlGiven DEF TypeOK
        <3>3. ASSUME NEW v \in Candidates, bridge' = [bridge EXCEPT ![v] = FALSE],
                     UNCHANGED <<controller, channel, pane>>
              PROVE  ControlInv'
            <4>1. v \in Channels /\ pane[v] = handing
                BY DEF Candidates
            <4>2. \A p \in Panes : controller[p] # None => ~ControlsHere(v, p)
                BY <3>1, <4>1 DEF ControlsHere
            <4>3. QED
                BY <3>3, <4>1, <4>2, ControlKept DEF ControlsHere, TypeOK
        <3>4. QED
            BY <1>0, <2>3, <3>2, <3>3 DEF AssignNext
    <2>4. CASE TakeControl
        <3>1. PICK v \in Channels :
                  /\ channel[v] = Head(toAgent).channel
                  /\ bridge' = [w \in Channels |-> bridge[w] \/ w = v \/ w \in Current(pane[v])]
                  /\ controller' = [controller EXCEPT ![pane[v]] = channel[v]]
            BY <2>4 DEF TakeControl
        <3>2. channel[v] # None /\ channel' = channel /\ pane' = pane
            BY <2>4, <3>1, Received, TerminalAssumption DEF TakeControl, Asking, TypeOK
        <3>3. QED
            BY <3>1, <3>2, ControlGiven DEF TypeOK
    <2>5. QED
        BY <1>3, <2>1, <2>2, <2>3, <2>4, ControlAttach, ControlFailAttach, ControlFailControl,
           ControlFocus DEF Handle
<1>4. ASSUME NEW v \in Channels, Sweep(v) PROVE ControlInv'
    BY <1>4, ControlGone DEF Sweep, TypeOK
<1>5. CASE AgentRestart
    BY <1>5 DEF AgentRestart, ControlInv
<1>6. QED
    BY <1>1, <1>2, <1>3, <1>4, <1>5 DEF Next

-----------------------------------------------------------------------------
\* Each tab is told what it may do (terminal.go, routes/terminal.ts).

Watched(v) ==
    /\ viewer[v] = "live" /\ bridge[v]
    /\ channel[v] \in served /\ socket[owner[channel[v]]] = channel[v]

Right(v) == Heard(channel[v]) = IF readOnly[v] THEN "readonly" ELSE "control"

Knows(v) == Watched(v) /\ ~Ends(Heard(channel[v])) => Right(v)

LEMMA HeardIs ==
    /\ \A c : Heard(c) = SaidLast(toServer, c, role[owner[c]])
    /\ RoleIsTold <=> (link = "up" => \A v \in Channels : Knows(v))
BY DEF Heard, SaidLast, RoleIsTold, Knows, Watched, Right

LEMMA HeardSame ==
    ASSUME NEW c, toServer' = toServer, role'[owner'[c]] = role[owner[c]]
    PROVE  Heard(c)' = Heard(c)
BY DEF Heard

\* A status that is sent is the last about its channel, and of no other.
LEMMA HeardReport ==
    ASSUME TypeOK, link = "up", role' = role, owner' = owner,
           NEW d \in Channels, NEW s \in Statuses, NEW u \in Channels \cup {None},
           SendStatus(<<Told(d, s, u)>>), NEW c \in Channels
    PROVE  Heard(c)' = IF c = d THEN s ELSE Heard(c)
<1> DEFINE m == Told(d, s, u)
<1>1. m \in Telling /\ m.channel = d /\ m.status = s
    BY Messages DEF Told
<1> HIDE DEF m
<1>2. toServer' = Append(toServer, m) /\ toServer \in Seq(Telling)
    <2>1. toServer' = toServer \o <<m>> /\ toServer \in Seq(Telling)
        BY DEF SendStatus, TypeOK, m
    <2>2. QED
        BY <1>1, <2>1, AppendIsConcat
<1>3. Heard(c)' = SaidLast(Append(toServer, m), c, role[owner[c]])
    <2>1. Heard(c)' = SaidLast(toServer', c, role'[owner'[c]])
        BY DEF Heard, SaidLast
    <2>2. QED
        BY <1>2, <2>1
<1>4. Heard(c) = SaidLast(toServer, c, role[owner[c]])
    BY HeardIs
<1>5. /\ m.channel = c => SaidLast(Append(toServer, m), c, role[owner[c]]) = m.status
      /\ m.channel # c => SaidLast(Append(toServer, m), c, role[owner[c]]) =
                              SaidLast(toServer, c, role[owner[c]])
    BY <1>1, <1>2, SaidAppend
<1>6. QED
    BY <1>1, <1>3, <1>4, <1>5

\* A hand-over tells the new controller, and the old one if there is one.
LEMMA HeardBoth ==
    ASSUME TypeOK, link = "up", role' = role, owner' = owner,
           NEW d \in Channels, NEW old \in Channels \cup {None}, old # d,
           SendStatus(<<Told(d, "control", None)>> \o
                      (IF old = None THEN <<>> ELSE <<Told(old, "readonly", None)>>)),
           NEW c \in Channels
    PROVE  Heard(c)' = IF c = d THEN "control" ELSE IF c = old THEN "readonly" ELSE Heard(c)
<1>1. CASE old = None
    <2>1. SendStatus(<<Told(d, "control", None)>>)
        BY <1>1 DEF SendStatus
    <2>2. c # old
        BY <1>1, TerminalAssumption
    <2>3. QED
        BY <2>1, <2>2, HeardReport DEF Statuses
<1>2. CASE old # None
    <2> DEFINE m == Told(d, "control", None)
               n == Told(old, "readonly", None)
               shown == role[owner[c]]
    <2>1. m \in Telling /\ m.channel = d /\ m.status = "control"
        BY Messages DEF Told, Statuses
    <2>2. n \in Telling /\ n.channel = old /\ n.status = "readonly"
        BY <1>2, Messages DEF Told, Statuses
    <2>3. toServer' = toServer \o (<<m>> \o <<n>>) /\ toServer \in Seq(Telling)
        BY <1>2 DEF SendStatus, TypeOK
    <2> HIDE DEF m, n
    <2> DEFINE q == Append(toServer, m)
    <2>4. q \in Seq(Telling) /\ toServer' = Append(q, n)
        BY <2>1, <2>2, <2>3
    <2>5. Heard(c)' = SaidLast(toServer', c, role'[owner'[c]])
        BY DEF Heard, SaidLast
    <2>6. Heard(c)' = SaidLast(Append(q, n), c, shown)
        BY <2>4, <2>5
    <2>7. /\ m.channel = c => SaidLast(q, c, shown) = m.status
          /\ m.channel # c => SaidLast(q, c, shown) = SaidLast(toServer, c, shown)
        BY <2>1, <2>3, SaidAppend
    <2> HIDE DEF q
    <2>8. /\ n.channel = c => SaidLast(Append(q, n), c, shown) = n.status
          /\ n.channel # c => SaidLast(Append(q, n), c, shown) = SaidLast(q, c, shown)
        BY <2>2, <2>4, SaidAppend
    <2>9. Heard(c) = SaidLast(toServer, c, shown)
        BY HeardIs
    <2> HIDE DEF shown
    <2>10. QED
        BY <2>1, <2>2, <2>6, <2>7, <2>8, <2>9
<1>3. QED
    BY <1>1, <1>2

\* The viewer's tab goes on hearing what it heard.
LEMMA KnowsKept ==
    ASSUME TypeOK, TypeOK', NEW v \in Channels, Knows(v),
           viewer'[v] = "live" => viewer[v] = "live",
           channel'[v] # None => channel'[v] = channel[v] /\ readOnly'[v] = readOnly[v],
           bridge'[v] => bridge[v],
           \A c \in Channels : channel[v] = c /\ c \in served' /\ socket'[owner'[c]] = c =>
               c \in served /\ socket[owner[c]] = c /\ Heard(c)' = Heard(c)
    PROVE  Knows(v)'
<1> SUFFICES ASSUME Watched(v)', ~Ends(Heard(channel[v])') PROVE Right(v)'
    BY DEF Knows, Ends
<1>1. channel'[v] \in served' /\ served' \subseteq Channels
    BY DEF Watched, TypeOK
<1>2. PICK c \in Channels : channel'[v] = c
    BY <1>1
<1>3. channel[v] = c /\ readOnly'[v] = readOnly[v]
    BY <1>2, TerminalAssumption
<1>4. /\ c \in served' /\ socket'[owner'[c]] = c
    BY <1>2 DEF Watched
<1>5. c \in served /\ socket[owner[c]] = c /\ Heard(c)' = Heard(c)
    BY <1>3, <1>4
<1>6. Heard(channel[v])' = Heard(c)' /\ Heard(channel[v]) = Heard(c)
    BY <1>2, <1>3 DEF Heard
<1>7. Right(v)
    BY <1>3, <1>5, <1>6 DEF Knows, Watched, Ends
<1>8. QED
    BY <1>3, <1>5, <1>6, <1>7 DEF Right

\* The viewer's tab has just been told.
LEMMA KnowsNow ==
    ASSUME NEW v \in Channels, NEW c \in Channels, channel'[v] = c,
           \/ Heard(c)' = IF readOnly'[v] THEN "readonly" ELSE "control"
           \/ Ends(Heard(c)')
    PROVE  Knows(v)'
<1>1. Heard(channel[v])' = Heard(c)'
    BY DEF Heard
<1>2. CASE Heard(c)' = IF readOnly'[v] THEN "readonly" ELSE "control"
    BY <1>1, <1>2 DEF Knows, Right
<1>3. CASE Ends(Heard(c)')
    BY <1>1, <1>3 DEF Knows, Ends
<1>4. QED
    BY <1>2, <1>3

\* What a status that arrives makes of the tabs that go on listening.
LEMMA HeardDelivered ==
    ASSUME TypeOK, DeliverStatus, NEW c \in Channels, owner[c] \in Tabs,
           c \in served', socket'[owner'[c]] = c
    PROVE  c \in served /\ socket[owner[c]] = c /\ Heard(c)' = Heard(c)
<1> DEFINE m == Head(toServer)
           t == owner[m.channel]
<1>1. /\ toServer \in Seq(Telling) /\ toServer # <<>> /\ toServer' = Tail(toServer)
      /\ owner' = owner /\ m \in Telling
    BY HeadTailProperties DEF DeliverStatus, TypeOK
<1>2. m.channel \in Channels /\ c # None
    BY <1>1, TerminalAssumption DEF Telling
<1>3. /\ Heard(c) = SaidLast(toServer, c, role[owner[c]])
      /\ Heard(c)' = SaidLast(Tail(toServer), c, role'[owner[c]])
    <2>1. Heard(c)' = SaidLast(toServer', c, role'[owner'[c]])
        BY DEF Heard, SaidLast
    <2>2. QED
        BY <1>1, <2>1, HeardIs
<1>4. /\ m.channel = c =>
             SaidLast(Tail(toServer), c, m.status) = SaidLast(toServer, c, role[owner[c]])
      /\ m.channel # c =>
             SaidLast(Tail(toServer), c, role[owner[c]]) = SaidLast(toServer, c, role[owner[c]])
    BY <1>1, SaidTail
<1>5. \/ m.channel \notin served /\ UNCHANGED <<socket, role, served>>
      \/ /\ m.channel \in served
         /\ served' = IF Ends(m.status) THEN served \ {m.channel} ELSE served
         /\ IF socket[t] # m.channel THEN socket' = socket /\ role' = role
            ELSE /\ socket' = IF Ends(m.status) THEN [socket EXCEPT ![t] = None] ELSE socket
                 /\ role' = [role EXCEPT ![t] = IF Ends(m.status) THEN "off" ELSE m.status]
    BY DEF DeliverStatus, browser
<1> HIDE DEF m
<1>6. c \in served /\ socket[owner[c]] = c
    <2>1. c \in served
        BY <1>5
    <2>2. socket'[owner[c]] = c
        BY <1>1
    <2>3. socket' = socket \/ socket' = [socket EXCEPT ![t] = None]
        BY <1>5
    <2>4. QED
        BY <1>2, <2>1, <2>2, <2>3 DEF TypeOK
<1>7. CASE m.channel # c
    <2>1. CASE owner[c] = t
        <3>1. socket[t] # m.channel
            BY <1>6, <1>7, <2>1
        <3>2. role' = role
            BY <1>5, <3>1
        <3>3. QED
            BY <1>3, <1>4, <1>6, <1>7, <3>2
    <2>2. CASE owner[c] # t
        <3>1. role' = role \/ \E x : role' = [role EXCEPT ![t] = x]
            BY <1>5
        <3>2. role'[owner[c]] = role[owner[c]]
            BY <2>2, <3>1 DEF TypeOK
        <3>3. QED
            BY <1>3, <1>4, <1>6, <1>7, <3>2
    <2>3. QED
        BY <2>1, <2>2
<1>8. CASE m.channel = c
    <2>1. c \in served /\ t = owner[c] /\ ~Ends(m.status)
        BY <1>5, <1>6, <1>8
    <2>2. role'[owner[c]] = m.status
        <3>1. role' = [role EXCEPT ![t] = m.status]
            BY <1>5, <1>6, <1>8, <2>1
        <3>2. t \in Tabs
            BY <2>1
        <3>3. QED
            BY <2>1, <3>1, <3>2 DEF TypeOK
    <2>3. QED
        BY <1>3, <1>4, <1>6, <1>8, <2>2
<1>9. QED
    BY <1>7, <1>8

LEMMA KnowsOther ==
    ASSUME TypeOK, TypeOK', UNCHANGED <<browser, server>>, NEW v \in Channels, Knows(v),
           viewer'[v] = "live" => viewer[v] = "live",
           channel'[v] # None => channel'[v] = channel[v] /\ readOnly'[v] = readOnly[v],
           bridge'[v] => bridge[v],
           \A c \in Channels : channel[v] = c => Heard(c)' = Heard(c)
    PROVE  Knows(v)'
<1>1. served' = served /\ socket' = socket /\ owner' = owner
    BY DEF browser, server
<1>2. \A c \in Channels : channel[v] = c /\ c \in served' /\ socket'[owner'[c]] = c =>
          c \in served /\ socket[owner[c]] = c /\ Heard(c)' = Heard(c)
    BY <1>1
<1>3. QED
    BY <1>2, KnowsKept

\* agentd tells one channel, and changes nothing else that a tab shows.
LEMMA KnowsTold ==
    ASSUME TypeOK, TypeOK', link = "up", UNCHANGED <<browser, server>>,
           NEW d \in Channels, NEW s \in Statuses, NEW u \in Channels \cup {None},
           SendStatus(<<Told(d, s, u)>>), NEW v \in Channels, Knows(v),
           \/ channel'[v] = d /\ (Ends(s) \/ s = IF readOnly'[v] THEN "readonly" ELSE "control")
           \/ channel'[v] = None \/ ~bridge'[v]
           \/ /\ channel[v] # d
              /\ viewer'[v] = "live" => viewer[v] = "live"
              /\ channel'[v] # None => channel'[v] = channel[v] /\ readOnly'[v] = readOnly[v]
              /\ bridge'[v] => bridge[v]
    PROVE  Knows(v)'
<1>1. role' = role /\ owner' = owner
    BY DEF browser, server
<1>2. \A c \in Channels : Heard(c)' = IF c = d THEN s ELSE Heard(c)
    BY <1>1, HeardReport
<1>3. CASE channel'[v] = d /\ (Ends(s) \/ s = IF readOnly'[v] THEN "readonly" ELSE "control")
    <2>1. Heard(d)' = s
        BY <1>2
    <2>2. \/ Heard(d)' = IF readOnly'[v] THEN "readonly" ELSE "control"
          \/ Ends(Heard(d)')
        BY <1>3, <2>1 DEF Ends
    <2>3. channel'[v] = d
        BY <1>3
    <2>4. QED
        BY <2>2, <2>3, KnowsNow
<1>4. CASE channel'[v] = None \/ ~bridge'[v]
    <2>1. None \notin served'
        BY TerminalAssumption DEF TypeOK
    <2>2. QED
        BY <1>4, <2>1 DEF Knows, Watched
<1>5. CASE /\ channel[v] # d
           /\ viewer'[v] = "live" => viewer[v] = "live"
           /\ channel'[v] # None => channel'[v] = channel[v] /\ readOnly'[v] = readOnly[v]
           /\ bridge'[v] => bridge[v]
    <2>1. \A c \in Channels : channel[v] = c => Heard(c)' = Heard(c)
        BY <1>2, <1>5
    <2>2. QED
        BY <1>5, <2>1, KnowsOther
<1>6. QED
    BY <1>3, <1>4, <1>5

\* The tabs and the control plane change nothing that a tab is told.
LEMMA KnowsBrowser ==
    ASSUME TypeOK, TypeOK', NameInv, Browser, NEW v \in Channels, Knows(v)
    PROVE  Knows(v)'
<1>1. UNCHANGED <<viewer, channel, readOnly, bridge, toServer>>
    BY DEF Browser, Connect, ConnectRefused, Leave, AskControl, AskFocus, Ask, manager, viewers,
       wire
<1> SUFFICES ASSUME NEW c \in Channels, channel[v] = c, c \in served', socket'[owner'[c]] = c
             PROVE  c \in served /\ socket[owner[c]] = c /\ Heard(c)' = Heard(c)
    BY <1>1, KnowsKept
<1>2. owner[c] \in Tabs /\ c # None
    BY TerminalAssumption DEF NameInv, HeldIsUsed, TypeOK
<1>3. ASSUME NEW t \in Tabs, NEW d \in Channels, Connect(t, d)
      PROVE  c \in served /\ socket[owner[c]] = c /\ Heard(c)' = Heard(c)
    <2>1. c # d /\ owner'[c] = owner[c]
        BY <1>2, <1>3, TerminalAssumption DEF Connect, Fresh, TypeOK
    <2>2. c \in served
        BY <1>3, <2>1 DEF Connect
    <2>3. owner[c] # t
        BY <1>2, <1>3, <2>1 DEF Connect, TypeOK
    <2>4. socket'[owner[c]] = socket[owner[c]] /\ role'[owner[c]] = role[owner[c]]
        BY <1>2, <1>3, <2>3 DEF Connect, TypeOK
    <2>5. QED
        BY <1>1, <2>1, <2>2, <2>4, HeardSame
<1>4. ASSUME NEW t \in Tabs, Leave(t)
      PROVE  c \in served /\ socket[owner[c]] = c /\ Heard(c)' = Heard(c)
    <2>1. owner' = owner /\ served' = served
        BY <1>4 DEF Leave, server
    <2>2. owner[c] # t
        BY <1>2, <1>4, <2>1 DEF Leave, TypeOK
    <2>3. socket'[owner[c]] = socket[owner[c]] /\ role'[owner[c]] = role[owner[c]]
        BY <1>2, <1>4, <2>2 DEF Leave, TypeOK
    <2>4. QED
        BY <1>1, <2>1, <2>3, HeardSame
<1>5. ASSUME NEW t \in Tabs, ConnectRefused(t) \/ \E op : \E p \in Panes : Ask(t, op, p)
      PROVE  c \in served /\ socket[owner[c]] = c /\ Heard(c)' = Heard(c)
    <2>1. owner' = owner /\ served' \subseteq served /\ socket' = socket /\ role' = role
        BY <1>5 DEF ConnectRefused, Ask, browser, server
    <2>2. QED
        BY <1>1, <2>1, HeardSame
<1>6. QED
    BY <1>3, <1>4, <1>5, TerminalAssumption DEF Browser, AskControl, AskFocus

LEMMA KnowsServer ==
    ASSUME TypeOK, TypeOK', NameInv, Server, NEW v \in Channels, Knows(v)
    PROVE  Knows(v)'
<1>1. UNCHANGED <<viewer, channel, readOnly, bridge>>
    BY DEF Server, DeliverStatus, SocketClosed, IdleTimeout, manager, viewers
<1> SUFFICES ASSUME NEW c \in Channels, channel[v] = c, c \in served', socket'[owner'[c]] = c
             PROVE  c \in served /\ socket[owner[c]] = c /\ Heard(c)' = Heard(c)
    BY <1>1, KnowsKept
<1>2. owner[c] \in Tabs /\ c # None
    BY TerminalAssumption DEF NameInv, HeldIsUsed, TypeOK
<1>3. CASE DeliverStatus
    BY <1>2, <1>3, HeardDelivered
<1>4. ASSUME NEW d \in Channels, SocketClosed(d) \/ IdleTimeout(d)
      PROVE  c \in served /\ socket[owner[c]] = c /\ Heard(c)' = Heard(c)
    <2>1. owner' = owner /\ served' = served \ {d} /\ toServer' = toServer
        BY <1>4 DEF SocketClosed, IdleTimeout, DetachChannel
    <2>2. \/ socket' = socket /\ role' = role
          \/ /\ socket' = [socket EXCEPT ![owner[d]] = None]
             /\ role' = [role EXCEPT ![owner[d]] = "off"]
        BY <1>4 DEF SocketClosed, IdleTimeout, browser
    <2>3. socket'[owner[c]] = socket[owner[c]] /\ role'[owner[c]] = role[owner[c]]
        BY <1>2, <2>1, <2>2 DEF TypeOK
    <2>4. QED
        BY <2>1, <2>3, HeardSame
<1>5. QED
    BY <1>3, <1>4 DEF Server

\* A message that agentd answers without a change that shows.
LEMMA KnowsAnswered ==
    ASSUME TypeOK, TypeOK', NameInv, link = "up", RefuseAttach \/ ControlIdle \/ FocusIdle,
           NEW v \in Channels, Knows(v)
    PROVE  Knows(v)'
<1>1. UNCHANGED <<browser, server, viewer, channel, readOnly, bridge>> /\ handing' = handing
    BY DEF RefuseAttach, ControlIdle, FocusIdle, manager, viewers
<1>2. ASSUME NEW d \in Channels, NEW s \in Statuses, SendStatus(<<Told(d, s, None)>>),
             channel[v] # d
      PROVE  Knows(v)'
    BY <1>1, <1>2, KnowsTold
<1>3. CASE RefuseAttach
    <2>1. Receive("attach") /\ SendStatus(<<Told(Head(toAgent).channel, "refused", None)>>)
        BY <1>3 DEF RefuseAttach
    <2>2. Head(toAgent) = toAgent[1] /\ Attaching(1) /\ 1 \in 1..Len(toAgent)
          /\ Head(toAgent).channel \in Channels
        BY <2>1, Received DEF Attaching, Asking, TypeOK
    <2>3. channel[v] # Head(toAgent).channel
        BY <2>2 DEF NameInv, AttachedOnce
    <2>4. QED
        BY <1>2, <2>1, <2>2, <2>3 DEF Statuses
<1>4. CASE toServer' = toServer
    <2>1. \A c \in Channels : channel[v] = c => Heard(c)' = Heard(c)
        BY <1>1, <1>4, HeardSame DEF browser, server
    <2>2. QED
        BY <1>1, <2>1, KnowsOther
<1>5. CASE ControlIdle /\ toServer' # toServer
    <2>1. /\ Receive("control") /\ channel[v] # Head(toAgent).channel
          /\ SendStatus(<<Told(Head(toAgent).channel, "error", None)>>)
        BY <1>5 DEF ControlIdle
    <2>2. Head(toAgent).channel \in Channels
        BY <2>1, Received DEF Asking, TypeOK
    <2>3. QED
        BY <1>2, <2>1, <2>2 DEF Statuses
<1>6. QED
    BY <1>3, <1>4, <1>5 DEF FocusIdle

LEMMA KnowsAttach ==
    ASSUME TypeOK, TypeOK', NameInv, link = "up", HandleAttach \/ FailAttach,
           NEW v \in Channels, Knows(v)
    PROVE  Knows(v)'
<1> DEFINE c == Head(toAgent).channel
           w == Head(toAgent).token
           u == IF w = None THEN c ELSE w
<1>1. Receive("attach") /\ UNCHANGED <<browser, server>>
    BY DEF HandleAttach, FailAttach
<1>2. /\ c \in Channels /\ u \in Channels /\ w \in Channels \cup {None}
      /\ Head(toAgent) = toAgent[1] /\ Attaching(1) /\ 1 \in 1..Len(toAgent)
    BY <1>1, Received DEF Attaching, Asking, TypeOK
<1>3. channel[v] # c
    BY <1>2 DEF NameInv, AttachedOnce
<1>4. CASE HandleAttach
    <2> DEFINE locked == Freed[Home] # None
               s == IF locked THEN "readonly" ELSE "control"
    <2>1. /\ viewer' = [viewer EXCEPT ![u] = "live"]
          /\ channel' = [channel EXCEPT ![u] = c]
          /\ readOnly' = [readOnly EXCEPT ![u] = locked]
          /\ bridge' = [bridge EXCEPT ![u] = TRUE]
          /\ SendStatus(<<Told(c, s, u)>>)
        BY <1>4 DEF HandleAttach
    <2>2. s \in Statuses
        BY DEF Statuses
    <2> HIDE DEF locked
    <2>3. CASE v = u
        <3>1. channel'[v] = c /\ s = IF readOnly'[v] THEN "readonly" ELSE "control"
            <4>1. channel'[v] = c /\ readOnly'[v] = locked
                BY <1>2, <2>1, <2>3 DEF TypeOK
            <4>2. QED
                BY <4>1
        <3> HIDE DEF c, u, s
        <3>2. QED
            BY <1>1, <1>2, <2>1, <2>2, <3>1, KnowsTold
    <2>4. CASE v # u
        <3>1. /\ viewer'[v] = viewer[v] /\ channel'[v] = channel[v]
              /\ readOnly'[v] = readOnly[v] /\ bridge'[v] = bridge[v]
            <4> HIDE DEF c, u, s
            <4>1. QED
                BY <1>2, <2>1, <2>4 DEF TypeOK
        <3> HIDE DEF c, u, s
        <3>2. QED
            BY <1>1, <1>2, <1>3, <2>1, <2>2, <3>1, KnowsTold
    <2>5. QED
        BY <2>3, <2>4
<1>5. CASE FailAttach
    <2>1. PICK s \in {"error", "refused"} : SendStatus(<<Told(c, s, None)>>)
        BY <1>5 DEF FailAttach
    <2>2. s \in Statuses
        BY DEF Statuses
    <2>3. \/ UNCHANGED <<viewer, channel, readOnly, bridge>>
          \/ /\ viewer' = [viewer EXCEPT ![w] = "detached"]
             /\ channel' = [channel EXCEPT ![w] = None]
             /\ readOnly' = [readOnly EXCEPT ![w] = TRUE]
             /\ bridge' = [bridge EXCEPT ![w] = FALSE]
        BY <1>5 DEF FailAttach, manager, viewers
    <2> HIDE DEF c, w
    <2>4. /\ viewer'[v] = "live" => viewer[v] = "live"
          /\ channel'[v] # None => channel'[v] = channel[v] /\ readOnly'[v] = readOnly[v]
          /\ bridge'[v] => bridge[v]
        <3>1. CASE UNCHANGED <<viewer, channel, readOnly, bridge>>
            BY <3>1
        <3>2. CASE v = w /\ ~UNCHANGED <<viewer, channel, readOnly, bridge>>
            BY <2>3, <3>2 DEF TypeOK
        <3>3. CASE v # w /\ ~UNCHANGED <<viewer, channel, readOnly, bridge>>
            BY <2>3, <3>3 DEF TypeOK
        <3>4. QED
            BY <3>1, <3>2, <3>3
    <2>5. QED
        BY <1>1, <1>2, <1>3, <2>1, <2>2, <2>4, KnowsTold
<1>6. QED
    BY <1>4, <1>5

LEMMA KnowsDetach ==
    ASSUME TypeOK, TypeOK', NameInv, link = "up", HandleDetach, NEW v \in Channels, Knows(v)
    PROVE  Knows(v)'
<1> DEFINE c == Head(toAgent).channel
<1>1. Receive("detach") /\ UNCHANGED <<browser, server>>
    BY DEF HandleDetach
<1>2. c \in Channels
    BY <1>1, Received DEF Asking, TypeOK
<1>3. CASE UNCHANGED <<manager, toServer>>
    <2>1. \A d \in Channels : channel[v] = d => Heard(d)' = Heard(d)
        BY <1>1, <1>3, HeardSame DEF browser, server
    <2>2. QED
        BY <1>1, <1>3, <2>1, KnowsOther DEF manager, viewers
<1>4. ASSUME NEW w \in Channels, channel[w] = c,
             viewer' = [viewer EXCEPT ![w] = "detached"],
             channel' = [channel EXCEPT ![w] = None],
             readOnly' = [readOnly EXCEPT ![w] = TRUE],
             bridge' = [bridge EXCEPT ![w] = FALSE],
             SendStatus(<<Told(c, "detached", None)>>)
      PROVE  Knows(v)'
    <2> HIDE DEF c
    <2>1. CASE v = w
        <3>1. channel'[v] = None
            BY <1>4, <2>1 DEF TypeOK
        <3>2. QED
            BY <1>1, <1>2, <1>4, <3>1, KnowsTold DEF Statuses
    <2>2. CASE v # w
        <3>1. channel[v] # c
            BY <1>2, <1>4, <2>2, TerminalAssumption DEF NameInv, OneHolder
        <3>2. /\ viewer'[v] = viewer[v] /\ channel'[v] = channel[v]
              /\ readOnly'[v] = readOnly[v] /\ bridge'[v] = bridge[v]
            BY <1>4, <2>2 DEF TypeOK
        <3>3. QED
            BY <1>1, <1>2, <1>4, <3>1, <3>2, KnowsTold DEF Statuses
    <2>3. QED
        BY <2>1, <2>2
<1>5. QED
    BY <1>3, <1>4 DEF HandleDetach

LEMMA KnowsAssign ==
    ASSUME TypeOK, TypeOK', NameInv, link = "up", AssignNext, NEW v \in Channels, Knows(v)
    PROVE  Knows(v)'
<1>1. UNCHANGED <<browser, server>> /\ UNCHANGED <<viewer, channel, pane>>
    BY DEF AssignNext, viewers
<1>2. CASE UNCHANGED <<readOnly, toServer>> /\ \A w \in Channels : bridge'[w] => bridge[w]
    <2>1. \A d \in Channels : channel[v] = d => Heard(d)' = Heard(d)
        BY <1>1, <1>2, HeardSame DEF browser, server
    <2>2. QED
        BY <1>1, <1>2, <2>1, KnowsOther
<1>3. ASSUME NEW w \in Channels, channel[w] # None,
             bridge' = [bridge EXCEPT ![w] = TRUE],
             readOnly' = [readOnly EXCEPT ![w] = FALSE],
             SendStatus(<<Told(channel[w], "control", None)>>)
      PROVE  Knows(v)'
    <2>1. PICK c \in Channels : channel[w] = c
        BY <1>3 DEF TypeOK
    <2>2. SendStatus(<<Told(c, "control", None)>>) /\ "control" \in Statuses
        BY <1>3, <2>1 DEF Statuses
    <2>3. CASE v = w
        <3>1. channel'[v] = c /\ readOnly'[v] = FALSE
            BY <1>1, <1>3, <2>1, <2>3 DEF TypeOK
        <3>2. QED
            BY <1>1, <2>2, <3>1, KnowsTold
    <2>4. CASE v # w
        <3>1. channel[v] # c
            BY <2>1, <2>4, TerminalAssumption DEF NameInv, OneHolder
        <3>2. readOnly'[v] = readOnly[v] /\ bridge'[v] = bridge[v]
            BY <1>3, <2>4 DEF TypeOK
        <3>3. QED
            BY <1>1, <2>2, <3>1, <3>2, KnowsTold
    <2>5. QED
        BY <2>3, <2>4
<1>4. CASE Candidates = {}
    BY <1>2, <1>4 DEF AssignNext, viewers
<1>5. ASSUME NEW w \in Candidates,
             \/ /\ bridge' = [bridge EXCEPT ![w] = TRUE]
                /\ readOnly' = [readOnly EXCEPT ![w] = FALSE]
                /\ SendStatus(<<Told(channel[w], "control", None)>>)
             \/ /\ bridge' = [bridge EXCEPT ![w] = FALSE]
                /\ UNCHANGED <<readOnly, toServer>>
      PROVE  Knows(v)'
    <2>1. w \in Channels /\ channel[w] # None
        BY <1>5 DEF Candidates, Attached
    <2>2. CASE bridge' = [bridge EXCEPT ![w] = FALSE] /\ UNCHANGED <<readOnly, toServer>>
        BY <1>2, <2>2 DEF TypeOK
    <2>3. QED
        BY <1>3, <1>5, <2>1, <2>2
<1>6. QED
    BY <1>4, <1>5 DEF AssignNext

LEMMA KnowsTake ==
    ASSUME TypeOK, TypeOK', NameInv, WriterInv, ControlInv, link = "up", TakeControl,
           NEW v \in Channels, Knows(v)
    PROVE  Knows(v)'
<1>1. PICK w \in Channels :
          /\ channel[w] = Head(toAgent).channel /\ ~Controls(w)
          /\ bridge' = [x \in Channels |-> bridge[x] \/ x = w \/ x \in Current(pane[w])]
          /\ readOnly' = [x \in Channels |->
                 IF Attached(x) /\ pane[x] = pane[w] THEN x # w ELSE readOnly[x]]
          /\ SendStatus(<<Told(channel[w], "control", None)>> \o
                        (IF controller[pane[w]] = None THEN <<>>
                         ELSE <<Told(controller[pane[w]], "readonly", None)>>))
    BY DEF TakeControl
<1>2. /\ Receive("control") /\ UNCHANGED <<browser, server>> /\ UNCHANGED <<viewer, channel, pane>>
      /\ role' = role /\ owner' = owner
    BY DEF TakeControl, browser, server
<1>3. PICK c \in Channels : channel[w] = c
    BY <1>1, <1>2, Received DEF Asking, TypeOK
<1>4. PICK old \in Channels \cup {None} : controller[pane[w]] = old
    BY DEF TypeOK
<1>5. old # c
    BY <1>1, <1>3, <1>4 DEF Controls
<1>6. SendStatus(<<Told(c, "control", None)>> \o
                 (IF old = None THEN <<>> ELSE <<Told(old, "readonly", None)>>))
    BY <1>1, <1>3, <1>4
<1>7. \A d \in Channels :
          Heard(d)' = IF d = c THEN "control" ELSE IF d = old THEN "readonly" ELSE Heard(d)
    BY <1>2, <1>5, <1>6, HeardBoth
<1>8. CASE v = w
    <2>1. channel'[v] = c /\ readOnly'[v] = FALSE
        <3>1. Attached(w)
            BY <1>3, TerminalAssumption DEF Attached
        <3>2. QED
            BY <1>1, <1>2, <1>3, <1>8, <3>1
    <2>2. Heard(c)' = "control"
        BY <1>7
    <2>3. QED
        BY <2>1, <2>2, KnowsNow
<1>9. CASE v # w /\ channel[v] = old /\ old # None
    <2>1. channel'[v] = old /\ old \in Channels
        BY <1>2, <1>9
    <2>2. pane[v] = pane[w]
        BY <1>4, <1>9, OnePane DEF TypeOK
    <2>3. readOnly'[v] = TRUE
        BY <1>1, <1>9, <2>2 DEF Attached
    <2>4. Heard(old)' = "readonly"
        BY <1>5, <1>7, <2>1
    <2>5. QED
        BY <2>1, <2>3, <2>4, KnowsNow
<1>10. CASE v # w /\ (channel[v] # old \/ old = None)
    <2>1. channel[v] # c
        BY <1>3, <1>10, TerminalAssumption DEF NameInv, OneHolder
    <2>2. \A d \in Channels : channel[v] = d => Heard(d)' = Heard(d)
        BY <1>7, <1>10, <2>1, TerminalAssumption
    <2>3. bridge'[v] => bridge[v]
        <3>1. v \notin Current(pane[w])
            BY <1>4, <1>10 DEF Current, Attached
        <3>2. QED
            BY <1>1, <1>10, <3>1
    <2>4. CASE viewer[v] = "live"
        <3>1. readOnly'[v] = readOnly[v]
            <4>1. CASE Attached(v) /\ pane[v] = pane[w]
                <5>1. controller[pane[v]] # channel[v]
                    BY <1>4, <1>10, <4>1 DEF Attached
                <5>2. readOnly[v]
                    BY <2>4, <5>1 DEF WriterInv, WriterControls
                <5>3. QED
                    BY <1>1, <1>10, <4>1, <5>2 DEF TypeOK
            <4>2. CASE ~(Attached(v) /\ pane[v] = pane[w])
                BY <1>1, <4>2
            <4>3. QED
                BY <4>1, <4>2
        <3>2. QED
            BY <1>2, <2>2, <2>3, <3>1, KnowsOther
    <2>5. CASE viewer[v] # "live"
        BY <1>2, <2>5 DEF Knows, Watched
    <2>6. QED
        BY <2>4, <2>5
<1>11. QED
    BY <1>8, <1>9, <1>10

LEMMA KnowsFailControl ==
    ASSUME TypeOK, TypeOK', NameInv, ControlInv, link = "up", FailControl,
           NEW v \in Channels, Knows(v)
    PROVE  Knows(v)'
<1>1. PICK w \in Channels :
          /\ channel[w] = Head(toAgent).channel
          /\ SendStatus(<<Told(channel[w], "error", None)>>)
          /\ \/ /\ bridge' = [x \in Channels |-> (bridge[x] \/ x \in Current(pane[w])) /\ x # w]
                /\ readOnly' = readOnly
             \/ /\ \E lost \in {{}, {w}} :
                      bridge' = [x \in Channels |-> bridge[x] /\ x \notin lost \cup Current(pane[w])]
                /\ readOnly' = [x \in Channels |-> readOnly[x] \/ x \in Current(pane[w])]
    BY DEF FailControl
<1>2. Receive("control") /\ UNCHANGED <<browser, server>> /\ UNCHANGED <<viewer, channel, pane>>
    BY DEF FailControl
<1>3. PICK c \in Channels : channel[w] = c
    BY <1>1, <1>2, Received DEF Asking, TypeOK
<1>4. SendStatus(<<Told(c, "error", None)>>) /\ "error" \in Statuses /\ Ends("error")
    BY <1>1, <1>3 DEF Statuses, Ends
<1>5. CASE v = w
    <2>1. channel'[v] = c
        BY <1>2, <1>3, <1>5
    <2>2. QED
        BY <1>2, <1>4, <2>1, KnowsTold
<1>6. CASE v # w
    <2>1. channel[v] # c
        BY <1>3, <1>6, TerminalAssumption DEF NameInv, OneHolder
    <2>2. v \in Current(pane[w]) => bridge[v]
        BY OnePane DEF Current, Attached, TypeOK
    <2>3. ~bridge'[v] \/ (bridge[v] /\ readOnly'[v] = readOnly[v])
        <3>1. CASE v \in Current(pane[w])
            BY <1>1, <2>2, <3>1
        <3>2. CASE v \notin Current(pane[w])
            <4>1. bridge'[v] => bridge[v]
                BY <1>1, <3>2
            <4>2. readOnly' = readOnly \/ (readOnly'[v] <=> readOnly[v] \/ v \in Current(pane[w]))
                BY <1>1
            <4>3. readOnly'[v] \in BOOLEAN /\ readOnly[v] \in BOOLEAN
                BY DEF TypeOK
            <4>4. readOnly' = readOnly \/ (readOnly'[v] <=> readOnly[v])
                BY <3>2, <4>2
            <4>5. readOnly'[v] = readOnly[v]
                BY <4>3, <4>4
            <4>6. QED
                BY <4>1, <4>5
        <3>3. QED
            BY <3>1, <3>2
    <2>4. QED
        BY <1>2, <1>4, <2>1, <2>3, KnowsTold
<1>7. QED
    BY <1>5, <1>6

LEMMA KnowsFocus ==
    ASSUME TypeOK, TypeOK', NameInv, link = "up", Focus, NEW v \in Channels, Knows(v)
    PROVE  Knows(v)'
<1>1. PICK w \in Channels, writes \in BOOLEAN :
          /\ channel[w] = Head(toAgent).channel
          /\ readOnly' = [readOnly EXCEPT ![w] = ~writes]
          /\ SendStatus(<<Told(channel[w], IF writes THEN "control" ELSE "readonly", None)>>)
    <2>1. \A p, w : (controller[p] = channel[w] \/ (controller[p] = None /\ Controls(w))) \in BOOLEAN
        OBVIOUS
    <2>2. QED
        BY <2>1 DEF Focus
<1>2. /\ Receive("focus") /\ UNCHANGED <<browser, server>>
      /\ UNCHANGED <<viewer, channel, bridge>>
    BY DEF Focus
<1>3. PICK c \in Channels : channel[w] = c
    BY <1>1, <1>2, Received DEF Asking, TypeOK
<1> DEFINE s == IF writes THEN "control" ELSE "readonly"
<1>4. SendStatus(<<Told(c, s, None)>>) /\ s \in Statuses
    BY <1>1, <1>3 DEF Statuses
<1>5. CASE v = w
    <2>1. channel'[v] = c /\ readOnly'[v] = ~writes
        BY <1>1, <1>2, <1>3, <1>5 DEF TypeOK
    <2>2. s = IF readOnly'[v] THEN "readonly" ELSE "control"
        BY <2>1
    <2> HIDE DEF s
    <2>3. QED
        BY <1>2, <1>4, <2>1, <2>2, KnowsTold
<1>6. CASE v # w
    <2>1. channel[v] # c
        BY <1>3, <1>6, TerminalAssumption DEF NameInv, OneHolder
    <2>2. readOnly'[v] = readOnly[v]
        BY <1>1, <1>6 DEF TypeOK
    <2> HIDE DEF s
    <2>3. QED
        BY <1>2, <1>4, <2>1, <2>2, KnowsTold
<1>7. QED
    BY <1>5, <1>6

RoleInv ==
    TypeOK /\ NameInv /\ WriterInv /\ LeavingInv /\ EndedIsGone /\ NewInv /\ IdleInv
        /\ ControlInv /\ RoleIsTold

LEMMA RoleStep == ASSUME RoleInv, TypeOK', [Next]_vars PROVE RoleIsTold'
<1> USE DEF RoleInv
<1>0. SUFFICES ASSUME link' = "up", NEW v \in Channels PROVE Knows(v)'
    BY HeardIs DEF RoleIsTold, Knows, Watched, Right
<1>1. CASE Reconnect
    <2>1. viewer' = viewer /\ channel' = channel /\ link = "down"
        BY <1>1 DEF Reconnect, manager, viewers
    <2>2. viewer[v] # "live"
        BY <2>1 DEF LeavingInv, LinkInv, WriterInv, LiveIsAttached
    <2>3. QED
        BY <2>1, <2>2 DEF Knows, Watched
<1>2. CASE Break \/ Notice \/ ServerRestart \/ AgentRestart
    BY <1>0, <1>2 DEF Break, Notice, ServerRestart, AgentRestart
<1>3. CASE ~Reconnect /\ ~(Break \/ Notice \/ ServerRestart \/ AgentRestart)
    <2>1. link = "up"
        BY <1>0, <1>3 DEF Next, vars, wire, Browser, Connect, ConnectRefused, Leave, AskControl,
           AskFocus, Ask, Server, DeliverStatus, SocketClosed, IdleTimeout, Handle, RefuseAttach,
           HandleAttach, FailAttach, HandleDetach, AssignNext, ControlIdle, TakeControl,
           FailControl, FocusIdle, Focus, Sweep
    <2>2. Knows(v)
        BY <2>1, HeardIs
    <2>3. CASE Browser
        BY <2>2, <2>3, KnowsBrowser
    <2>4. CASE Server
        BY <2>2, <2>4, KnowsServer
    <2>5. CASE Handle
        BY <2>1, <2>2, <2>5, KnowsAnswered, KnowsAttach, KnowsDetach, KnowsAssign, KnowsTake,
           KnowsFailControl, KnowsFocus DEF Handle
    <2>6. ASSUME NEW w \in Channels, Sweep(w) PROVE Knows(v)'
        <3>1. UNCHANGED <<browser, server>> /\ toServer' = toServer
            BY <2>6 DEF Sweep, wire
        <3>2. \A d \in Channels : channel[v] = d => Heard(d)' = Heard(d)
            BY <3>1, HeardSame DEF browser, server
        <3>3. CASE v = w
            BY <2>6, <3>3 DEF Sweep, Knows, Watched, TypeOK
        <3>4. CASE v # w
            <4>1. /\ viewer'[v] = viewer[v] /\ channel'[v] = channel[v]
                  /\ readOnly'[v] = readOnly[v] /\ bridge'[v] = bridge[v]
                BY <2>6, <3>4 DEF Sweep, TypeOK
            <4>2. QED
                BY <2>2, <3>1, <3>2, <4>1, KnowsOther
        <3>5. QED
            BY <3>3, <3>4
    <2>7. CASE UNCHANGED vars
        <3>1. UNCHANGED <<browser, server, viewer, channel, readOnly, bridge, toServer>>
            BY <2>7 DEF vars, wire, manager, viewers
        <3>2. \A d \in Channels : channel[v] = d => Heard(d)' = Heard(d)
            BY <3>1, HeardSame DEF browser, server
        <3>3. QED
            BY <2>2, <3>1, <3>2, KnowsOther
    <2>8. QED
        BY <1>3, <2>3, <2>4, <2>5, <2>6, <2>7 DEF Next
<1>4. QED
    BY <1>1, <1>2, <1>3

LEMMA RoleInit == Init => NewInv /\ IdleInv /\ ControlInv /\ RoleIsTold
<1> SUFFICES ASSUME Init PROVE NewInv /\ IdleInv /\ ControlInv /\ RoleIsTold
    OBVIOUS
<1>1. /\ Len(toAgent) = 0 /\ Len(toServer) = 0
      /\ \A v \in Channels : viewer[v] = "none" /\ channel[v] = None
      /\ \A t \in Tabs : resumeToken[t] = None
      /\ \A p \in Panes : controller[p] = None
    BY DEF Init
<1>2. NewInv
    BY <1>1, TerminalAssumption DEF NewInv, Unnamed
<1>3. IdleInv /\ ControlInv /\ RoleIsTold
    BY <1>1 DEF IdleInv, ControlInv, RoleIsTold
<1>4. QED
    BY <1>2, <1>3

(* While the connection is up, the last status about a channel, which its tab  *)
(* shows or is about to show, is what its viewer may do, for every number of   *)
(* tabs, channels, panes, faults and messages under way (terminal.go,          *)
(* routes/terminal.ts).                                                        *)
THEOREM RolesAreTold == Spec => []RoleIsTold
<1>1. Init => RoleInv
    BY TypeInit, WriterInit, LeavingInit, RoleInit DEF RoleInv
<1>2. RoleInv /\ [Next]_vars => RoleInv'
    BY TypeStep, NameStep, WriterStep, LeavingStep, EndedStep, NewStep, IdleStep, ControlStep,
       RoleStep DEF RoleInv
<1>3. RoleInv => RoleIsTold
    BY DEF RoleInv
<1>4. QED
    BY <1>1, <1>2, <1>3, PTL DEF Spec

=============================================================================
