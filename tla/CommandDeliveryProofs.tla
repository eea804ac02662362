------------------------ MODULE CommandDeliveryProofs ------------------------
(***************************************************************************)
(* Proofs about CommandDelivery, for every number of commands, sockets,    *)
(* hellos and restarts.                                                    *)
(*                                                                         *)
(* A row is held by the dispatch or the drain that has claimed it and may  *)
(* still put it back.  A held row has one holder and has not been written; *)
(* a row that has been written is neither queued nor held, and so nobody   *)
(* can claim it again.                                                     *)
(***************************************************************************)
EXTENDS CommandDelivery, TLAPS

Statuses == Live \cup Terminal \cup {"absent", "pruned"}
Written == {sent[i] : i \in DOMAIN sent}

LEMMA Settling ==
    /\ Live = {"queued", "sent"}
    /\ Terminal = {"completed", "failed", "expired"}
BY DEF Live, Terminal

-----------------------------------------------------------------------------
\* The sequence of what has been written.

LEMMA SendWrites ==
    ASSUME sent \in Seq(Cmds), NEW c \in Cmds, Send(c)
    PROVE  /\ sent' \in Seq(Cmds)
           /\ Written' = Written \cup {c}
           /\ SentAtMostOnce /\ c \notin Written => SentAtMostOnce'
<1>1. sent' = Append(sent, c)
    BY DEF Send
<1>2. /\ sent' \in Seq(Cmds)
      /\ DOMAIN sent' = DOMAIN sent \cup {Len(sent) + 1}
      /\ Len(sent) + 1 \notin DOMAIN sent
      /\ sent'[Len(sent) + 1] = c
      /\ \A i \in DOMAIN sent : sent'[i] = sent[i]
    BY <1>1
<1>3. Written' = Written \cup {c}
    BY <1>2 DEF Written
<1>4. ASSUME SentAtMostOnce, c \notin Written PROVE SentAtMostOnce'
    BY <1>2, <1>4 DEF SentAtMostOnce, Written
<1>5. QED
    BY <1>2, <1>3, <1>4

LEMMA NothingWritten ==
    ASSUME sent' = sent
    PROVE  Written' = Written /\ (SentAtMostOnce => SentAtMostOnce')
BY DEF Written, SentAtMostOnce

-----------------------------------------------------------------------------
\* Types.  The outbox's updates yield statuses.
LEMMA StatusTypes ==
    ASSUME TypeOK
    PROVE  /\ \A c \in Cmds : MarkQueued(c) => status' \in [Cmds -> Statuses]
           /\ \A c \in Cmds : MarkCompleted(c) => status' \in [Cmds -> Statuses]
           /\ \A c \in Cmds : MarkFailed(c) => status' \in [Cmds -> Statuses]
           /\ ExpireStale => status' \in [Cmds -> Statuses]
<1>0. status \in [Cmds -> Statuses]
    BY DEF TypeOK, Statuses
<1>1. ASSUME NEW c \in Cmds, NEW from, NEW to \in Statuses, SetStatus(c, from, to)
      PROVE  status' \in [Cmds -> Statuses]
    BY <1>0, <1>1 DEF SetStatus
<1>2. {"queued", "completed", "failed", "expired"} \subseteq Statuses
    BY Settling DEF Statuses
<1>3. ExpireStale => status' \in [Cmds -> Statuses]
    BY <1>0, <1>2 DEF ExpireStale
<1>4. QED
    BY <1>1, <1>2, <1>3 DEF MarkQueued, MarkCompleted, MarkFailed

LEMMA DispatchTypes == ASSUME TypeOK, NEW c \in Cmds, DispatchNext(c) PROVE TypeOK'
<1> USE DEF At, Unsent, Settle, socketVars, agentVars, tableVars
<1>1. CASE Enqueue(c)
    BY <1>1 DEF TypeOK, Enqueue, Live
<1>2. CASE CheckReady(c)
    BY <1>2 DEF TypeOK, CheckReady
<1>3. CASE ClaimOwn(c)
    BY <1>3 DEF TypeOK, ClaimOwn, Claim, Live
<1>4. CASE SendOwn(c)
    <2>1. sent' \in Seq(Cmds)
        BY <1>4, SendWrites DEF SendOwn, TypeOK
    <2>2. inbox' \subseteq [cmd : Cmds, on : Sockets]
        BY <1>4 DEF SendOwn, Send, Ready, TypeOK, NoSocket
    <2>3. QED
        BY <1>4, <2>1, <2>2 DEF TypeOK, SendOwn
<1>5. CASE RequeueOwn(c)
    BY <1>5, StatusTypes DEF TypeOK, RequeueOwn, Statuses
<1>6. CASE CompleteOwn(c)
    BY <1>6, StatusTypes DEF TypeOK, CompleteOwn, Statuses
<1>7. CASE Refuse(c)
    BY <1>7, StatusTypes DEF TypeOK, Refuse, Statuses
<1>8. CASE TimeOut(c)
    BY <1>8 DEF TypeOK, TimeOut
<1>9. QED
    BY <1>1, <1>2, <1>3, <1>4, <1>5, <1>6, <1>7, <1>8 DEF DispatchNext

LEMMA SocketTypes == ASSUME TypeOK, NEW s \in Sockets, SocketNext(s) PROVE TypeOK'
<1> USE DEF Register, Lose, agentVars, tableVars, routerVars
<1>1. CASE Connect(s)
    BY <1>1 DEF TypeOK, Connect
<1>2. CASE Authenticate(s)
    BY <1>2 DEF TypeOK, Authenticate
<1>3. CASE Hello(s)
    <2>1. nHellos' \in [Sockets -> Nat]
        BY <1>3 DEF TypeOK, Hello
    <2>2. registered' = s /\ ready' = FALSE /\ open' \subseteq Sockets
          /\ closing' \subseteq Sockets
        BY <1>3 DEF TypeOK, Hello
    <2>3. socket' \in [Sockets -> {"none", "preauth", "authed", "helloed", "closed"}]
        BY <1>3 DEF TypeOK, Hello
    <2>4. QED
        BY <1>3, <2>1, <2>2, <2>3 DEF TypeOK, Hello
<1>4. CASE Inventory(s)
    BY <1>4 DEF TypeOK, Inventory
<1>5. CASE Disconnect(s)
    BY <1>5 DEF TypeOK, Disconnect
<1>6. CASE CloseSeen(s)
    BY <1>6 DEF TypeOK, CloseSeen
<1>7. QED
    BY <1>1, <1>2, <1>3, <1>4, <1>5, <1>6 DEF SocketNext

\* A drain that holds, puts back or completes a row has a durable one in hand.
HeldRow ==
    \A s \in Sockets : drain[s] \in {"holding", "requeue", "complete"} => held[s] \in Durable

LEMMA DrainTypes ==
    ASSUME TypeOK, HeldRow, NEW s \in Sockets, DrainNext(s) PROVE TypeOK'
<1> USE DEF DrainAt, socketVars, agentVars, tableVars
<1>0. drain[s] \in {"holding", "requeue", "complete"} => held[s] \in Cmds
    BY DeliveryAssumption DEF HeldRow
<1>1. CASE DrainExpire(s)
    BY <1>1, StatusTypes DEF TypeOK, DrainExpire, Statuses
<1>2. CASE DrainClaim(s)
    BY <1>2 DEF TypeOK, DrainClaim, Live
<1>3. CASE DrainEnds(s)
    BY <1>3 DEF TypeOK, DrainEnds
<1>4. CASE DrainSend(s)
    <2>1. sent' \in Seq(Cmds)
        BY <1>0, <1>4, SendWrites DEF DrainSend, TypeOK
    <2>2. inbox' \subseteq [cmd : Cmds, on : Sockets]
        BY <1>0, <1>4 DEF DrainSend, Send, Ready, TypeOK, NoSocket
    <2>3. QED
        BY <1>4, <2>1, <2>2 DEF TypeOK, DrainSend
<1>5. CASE DrainRequeue(s)
    BY <1>0, <1>5, StatusTypes DEF TypeOK, DrainRequeue, Statuses
<1>6. CASE DrainComplete(s)
    BY <1>0, <1>6, StatusTypes DEF TypeOK, DrainComplete, Statuses
<1>7. QED
    BY <1>1, <1>2, <1>3, <1>4, <1>5, <1>6 DEF DrainNext

\* The steps of time, of agentd and of restarts.
OtherNext ==
    \/ \E c \in Cmds : Due(c) \/ SweepTerminal(c) \/ Finish(c) \/ HandleResult(c)
    \/ \E i \in inbox : Receive(i)
    \/ SweepStale \/ ServerRestart \/ AgentRestart

LEMMA NextSplits ==
    Next => \/ \E c \in Cmds : DispatchNext(c)
            \/ \E s \in Sockets : SocketNext(s)
            \/ \E s \in Sockets : DrainNext(s)
            \/ OtherNext
BY DEF Next, OtherNext

LEMMA OtherTypes == ASSUME TypeOK, OtherNext PROVE TypeOK'
<1> USE DEF routerVars, socketVars, agentVars, tableVars
<1>1. ASSUME NEW c \in Cmds, Due(c) PROVE TypeOK'
    BY <1>1 DEF TypeOK, Due
<1>2. ASSUME NEW c \in Cmds, SweepTerminal(c) PROVE TypeOK'
    BY <1>2 DEF TypeOK, SweepTerminal
<1>3. ASSUME NEW c \in Cmds, Finish(c) PROVE TypeOK'
    BY <1>3 DEF TypeOK, Finish
<1>4. ASSUME NEW c \in Cmds, HandleResult(c) PROVE TypeOK'
    <2>1. status' \in [Cmds -> Statuses]
        BY <1>4, StatusTypes DEF HandleResult, TypeOK, Statuses
    <2>2. waiter' \in [Cmds -> {"none", "waiting", "resolved", "timedOut", "refused"}]
        BY <1>4 DEF HandleResult, Settle, TypeOK
    <2>3. QED
        BY <1>4, <2>1, <2>2 DEF TypeOK, HandleResult, Statuses
<1>5. ASSUME NEW i \in inbox, Receive(i) PROVE TypeOK'
    BY <1>5 DEF TypeOK, Receive
<1>6. CASE SweepStale
    BY <1>6, StatusTypes DEF TypeOK, SweepStale, Statuses
<1>7. CASE ServerRestart
    <2>1. /\ dispatch' \in [Cmds -> {"none", "enqueued", "claiming", "claimed", "requeue",
                                    "complete", "refuse", "done"}]
          /\ waiter' \in [Cmds -> {"none", "waiting", "resolved", "timedOut", "refused"}]
        BY <1>7 DEF TypeOK, ServerRestart
    <2>2. /\ socket' \in [Sockets -> {"none", "preauth", "authed", "helloed", "closed"}]
          /\ drain' \in [Sockets -> {"idle", "expire", "list", "holding", "requeue",
                                    "complete", "done"}]
          /\ held' \in [Sockets -> Cmds \cup {None}]
        BY <1>7 DEF TypeOK, ServerRestart
    <2>3. nRestarts' \in Nat
        BY <1>7 DEF TypeOK, ServerRestart
    <2>4. QED
        BY <1>7, <2>1, <2>2, <2>3 DEF TypeOK, ServerRestart
<1>8. CASE AgentRestart
    BY <1>8 DEF TypeOK, AgentRestart, Lose
<1>9. QED
    BY <1>1, <1>2, <1>3, <1>4, <1>5, <1>6, <1>7, <1>8 DEF OtherNext

LEMMA HeldRowStep == TypeOK /\ HeldRow /\ [Next]_vars => HeldRow'
<1> SUFFICES ASSUME TypeOK, HeldRow, [Next]_vars PROVE HeldRow'
    OBVIOUS
<1> USE DEF tableVars, routerVars, socketVars, agentVars
<1>1. ASSUME NEW c \in Cmds, DispatchNext(c) PROVE HeldRow'
    BY <1>1 DEF HeldRow, DispatchNext, Enqueue, CheckReady, ClaimOwn, SendOwn,
       RequeueOwn, CompleteOwn, Refuse, TimeOut
<1>2. ASSUME NEW s \in Sockets, SocketNext(s) PROVE HeldRow'
    BY <1>2 DEF TypeOK, HeldRow, SocketNext, Connect, Authenticate, Hello, Inventory,
       Disconnect, CloseSeen
<1>3. ASSUME NEW s \in Sockets, DrainNext(s) PROVE HeldRow'
    <2>1. CASE DrainExpire(s) \/ DrainEnds(s)
        BY <2>1 DEF TypeOK, HeldRow, DrainExpire, DrainEnds, DrainAt
    <2>2. CASE DrainClaim(s)
        BY <2>2 DEF TypeOK, HeldRow, DrainClaim, DrainAt, Deliverable
    <2>3. CASE DrainSend(s)
        BY <2>3 DEF TypeOK, HeldRow, DrainSend, DrainAt
    <2>4. CASE DrainRequeue(s) \/ DrainComplete(s)
        BY <2>4 DEF TypeOK, HeldRow, DrainRequeue, DrainComplete, DrainAt
    <2>5. QED
        BY <1>3, <2>1, <2>2, <2>3, <2>4 DEF DrainNext
<1>4. CASE OtherNext
    BY <1>4 DEF TypeOK, HeldRow, OtherNext, Due, SweepTerminal, Finish, HandleResult,
       Receive, SweepStale, ServerRestart, AgentRestart
<1>5. CASE UNCHANGED vars
    BY <1>5 DEF HeldRow, vars
<1>6. QED
    BY <1>1, <1>2, <1>3, <1>4, <1>5, NextSplits

Typed == TypeOK /\ HeldRow

LEMMA TypedInit == Init => Typed
<1> SUFFICES ASSUME Init PROVE TypeOK /\ HeldRow
    BY DEF Typed
<1>1. HeldRow
    BY DEF Init, HeldRow
<1>2. order \in Seq(Cmds) /\ sent \in Seq(Cmds)
    BY DEF Init
<1>3. nHellos \in [Sockets -> Nat] /\ nRestarts \in Nat
    BY DEF Init
<1>4. inbox \subseteq [cmd : Cmds, on : Sockets] /\ status \in [Cmds -> Statuses]
    BY DEF Init, Statuses
<1>5. QED
    BY <1>1, <1>2, <1>3, <1>4 DEF Init, TypeOK, Statuses

LEMMA TypedStep == Typed /\ [Next]_vars => Typed'
<1> SUFFICES ASSUME TypeOK, HeldRow, [Next]_vars PROVE TypeOK'
    BY HeldRowStep DEF Typed
<1>1. CASE UNCHANGED vars
    BY <1>1 DEF TypeOK, vars, tableVars, routerVars, socketVars, agentVars
<1>2. QED
    BY <1>1, NextSplits, DispatchTypes, SocketTypes, DrainTypes, OtherTypes

\* The table, the router, the sockets and agentd keep their types.
THEOREM TypeCorrect == Spec => []TypeOK
<1>1. Typed => TypeOK
    BY DEF Typed
<1>2. QED
    BY <1>1, TypedInit, TypedStep, PTL DEF Spec

-----------------------------------------------------------------------------
\* Who holds a row: its own dispatch, or a drain that has claimed it.
DispatchHolds(c) == dispatch[c] \in {"claimed", "requeue"}
DrainHolds(s, c) == held[s] = c /\ drain[s] \in {"holding", "requeue"}

Taken(c) == status[c] \notin {"absent", "queued"}

\* A held row is taken, has not been written, and has no other holder; a written
\* row is taken.
HoldInv ==
    /\ \A c \in Cmds : DispatchHolds(c) =>
           Taken(c) /\ c \notin Written /\ \A s \in Sockets : ~DrainHolds(s, c)
    /\ \A c \in Cmds, s \in Sockets : DrainHolds(s, c) =>
           Taken(c) /\ c \notin Written /\ \A t \in Sockets : DrainHolds(t, c) => t = s
    /\ \A c \in Cmds \cap Written : Taken(c)
    /\ SentAtMostOnce

\* A volatile command is written by its own dispatch only, and a dispatch that
\* is to refuse, or has refused, its command has not written it.
RefuseInv ==
    /\ \A c \in Cmds : c \in Written /\ c \notin Durable => dispatch[c] \in {"complete", "done"}
    /\ \A c \in Cmds : dispatch[c] = "refuse" => c \notin Durable /\ c \notin Written
    /\ \A c \in Cmds : waiter[c] = "refused" =>
           c \notin Durable /\ dispatch[c] = "done" /\ c \notin Written

\* Rows are taken for good unless the holder of one that is still sent puts it
\* back; and a settled row is settled for good.
Reopened(c) == Taken(c) /\ ~Taken(c)'
Unsettled(c) ==
    /\ status[c] \in Terminal \cup {"pruned"}
    /\ status'[c] \notin Terminal \cup {"pruned"}

\* A step that claims, puts back and writes nothing keeps all three.
LEMMA Quiet ==
    ASSUME HoldInv, RefuseInv, sent' = sent,
           \A c \in Cmds : ~Reopened(c),
           \A c \in Cmds : DispatchHolds(c)' => DispatchHolds(c),
           \A c \in Cmds, s \in Sockets : DrainHolds(s, c)' => DrainHolds(s, c),
           \A c \in Cmds : dispatch[c] \in {"complete", "done"} =>
                               dispatch'[c] \in {"complete", "done"},
           \A c \in Cmds : dispatch[c] = "done" => dispatch'[c] = "done",
           \A c \in Cmds : dispatch'[c] = "refuse" =>
                               dispatch[c] = "refuse" \/ (c \notin Durable /\ c \notin Written),
           \A c \in Cmds : waiter'[c] = "refused" =>
                               \/ waiter[c] = "refused"
                               \/ dispatch[c] = "refuse" /\ dispatch'[c] = "done"
    PROVE  HoldInv' /\ RefuseInv'
<1>1. Written' = Written /\ SentAtMostOnce'
    BY NothingWritten DEF HoldInv
<1>2. HoldInv'
    BY <1>1 DEF HoldInv, Reopened
<1>3. RefuseInv'
    BY <1>1 DEF RefuseInv
<1>4. QED
    BY <1>2, <1>3

\* What the outbox's updates may do to a row.
LEMMA UpdateEffects ==
    ASSUME TypeOK
    PROVE  /\ \A c \in Cmds : MarkCompleted(c) \/ MarkFailed(c) \/ SweepTerminal(c) =>
                  \A d \in Cmds : ~Reopened(d) /\ ~Unsettled(d)
           /\ \A c \in Cmds : MarkQueued(c) =>
                  \A d \in Cmds : ~Unsettled(d) /\ (Reopened(d) => d = c)
           /\ ExpireStale => \A d \in Cmds : ~Reopened(d) /\ ~Unsettled(d)
           /\ UNCHANGED status => \A d \in Cmds : ~Reopened(d) /\ ~Unsettled(d)
<1> USE Settling DEF TypeOK, Taken, Reopened, Unsettled
<1>1. ASSUME NEW c \in Cmds, MarkCompleted(c) \/ MarkFailed(c)
      PROVE  \A d \in Cmds : ~Reopened(d) /\ ~Unsettled(d)
    BY <1>1 DEF MarkCompleted, MarkFailed, SetStatus
<1>2. ASSUME NEW c \in Cmds, SweepTerminal(c)
      PROVE  \A d \in Cmds : ~Reopened(d) /\ ~Unsettled(d)
    BY <1>2 DEF SweepTerminal
<1>3. ASSUME NEW c \in Cmds, MarkQueued(c)
      PROVE  \A d \in Cmds : ~Unsettled(d) /\ (Reopened(d) => d = c)
    BY <1>3 DEF MarkQueued, SetStatus
<1>4. ExpireStale => \A d \in Cmds : ~Reopened(d) /\ ~Unsettled(d)
    BY DEF ExpireStale
<1>5. QED
    BY <1>1, <1>2, <1>3, <1>4

Inv == Typed /\ HoldInv /\ RefuseInv

LEMMA DispatchHolding ==
    ASSUME Inv, NEW c \in Cmds, DispatchNext(c) PROVE HoldInv' /\ RefuseInv'
<1> USE DEF At, Unsent, DispatchHolds, DrainHolds
<1>0. TypeOK /\ HoldInv /\ RefuseInv
    BY DEF Inv, Typed
<1>1. CASE Enqueue(c)
    <2>1. \A d \in Cmds : ~Reopened(d)
        BY <1>0, <1>1 DEF Enqueue, TypeOK, Reopened, Taken
    <2>2. QED
        BY <1>0, <1>1, <2>1, Quiet DEF Enqueue, TypeOK
<1>2. CASE CheckReady(c)
    <2>1. \A d \in Cmds : ~Reopened(d)
        BY <1>0, <1>2, UpdateEffects DEF CheckReady, tableVars
    <2>2. c \notin Durable => c \notin Written
        BY <1>0, <1>2 DEF CheckReady, RefuseInv
    <2>3. QED
        BY <1>0, <1>2, <2>1, <2>2, Quiet DEF CheckReady, TypeOK
<1>3. CASE ClaimOwn(c)
    <2>1. CASE status[c] = "queued"
        \* Neither written nor held: the row becomes this dispatch's.
        <3>1. c \notin Written /\ \A s \in Sockets : ~DrainHolds(s, c)
            BY <1>0, <2>1 DEF HoldInv, Taken
        <3>2. /\ status' = [status EXCEPT ![c] = "sent"]
              /\ dispatch' = [dispatch EXCEPT ![c] = "claimed"]
              /\ UNCHANGED <<drain, held, waiter, sent>>
            BY <1>3, <2>1 DEF ClaimOwn, Claim
        <3>3. Written' = Written /\ SentAtMostOnce'
            BY <1>0, <3>2, NothingWritten DEF HoldInv
        <3>4. Taken(c)' /\ \A d \in Cmds : Taken(d) => Taken(d)'
            BY <1>0, <3>2 DEF TypeOK, Taken
        <3>5. HoldInv'
            BY <1>0, <3>1, <3>2, <3>3, <3>4 DEF HoldInv, TypeOK
        <3>6. RefuseInv'
            BY <1>0, <1>3, <3>1, <3>2, <3>3 DEF RefuseInv, TypeOK, ClaimOwn
        <3>7. QED
            BY <3>5, <3>6
    <2>2. CASE status[c] # "queued"
        <3>1. \A d \in Cmds : ~Reopened(d)
            BY <1>0, <1>3, <2>2, UpdateEffects DEF ClaimOwn, Claim
        <3>2. c \notin Durable => c \notin Written
            BY <1>0, <1>3 DEF ClaimOwn, RefuseInv
        <3>3. QED
            BY <1>0, <1>3, <2>2, <3>1, <3>2, Quiet DEF ClaimOwn, Claim, TypeOK
    <2>3. QED
        BY <2>1, <2>2
<1>4. CASE SendOwn(c)
    <2>0. /\ Taken(c) /\ c \notin Written /\ \A s \in Sockets : ~DrainHolds(s, c)
          /\ UNCHANGED <<status, drain, held, waiter>>
        BY <1>0, <1>4 DEF SendOwn, HoldInv, tableVars
    <2>1. CASE Ready
        <3>1. /\ Send(c)
              /\ dispatch' = [dispatch EXCEPT ![c] = IF c \in OneWay THEN "complete" ELSE "done"]
            BY <1>4, <2>1 DEF SendOwn
        <3>2. Written' = Written \cup {c} /\ SentAtMostOnce'
            BY <1>0, <2>0, <3>1, SendWrites DEF TypeOK, HoldInv
        <3>3. HoldInv'
            BY <1>0, <2>0, <3>1, <3>2 DEF HoldInv, TypeOK, Taken
        <3>4. RefuseInv'
            BY <1>0, <1>4, <2>0, <3>1, <3>2 DEF RefuseInv, TypeOK, SendOwn
        <3>5. QED
            BY <3>3, <3>4
    <2>2. CASE ~Ready
        <3>1. \A d \in Cmds : ~Reopened(d)
            BY <1>0, <2>0, UpdateEffects
        <3>2. QED
            BY <1>0, <1>4, <2>0, <2>2, <3>1, Quiet DEF SendOwn, TypeOK
    <2>3. QED
        BY <2>1, <2>2
<1>5. CASE RequeueOwn(c)
    <2>1. c \notin Written /\ \A s \in Sockets : ~DrainHolds(s, c)
        BY <1>0, <1>5 DEF RequeueOwn, HoldInv
    <2>2. /\ dispatch' = [dispatch EXCEPT ![c] = IF c \in Durable THEN "done" ELSE "refuse"]
          /\ UNCHANGED <<drain, held, waiter, sent>>
        BY <1>5 DEF RequeueOwn
    <2>3. \A d \in Cmds : d # c /\ Taken(d) => Taken(d)'
        BY <1>0, <1>5, UpdateEffects DEF RequeueOwn, Reopened
    <2>4. Written' = Written /\ SentAtMostOnce'
        BY <1>0, <2>2, NothingWritten DEF HoldInv
    <2>5. HoldInv'
        BY <1>0, <2>1, <2>2, <2>3, <2>4 DEF HoldInv, TypeOK
    <2>6. RefuseInv'
        BY <1>0, <1>5, <2>1, <2>2, <2>4 DEF RefuseInv, TypeOK, RequeueOwn
    <2>7. QED
        BY <2>5, <2>6
<1>6. CASE CompleteOwn(c)
    <2>1. \A d \in Cmds : ~Reopened(d)
        BY <1>0, <1>6, UpdateEffects DEF CompleteOwn
    <2>2. QED
        BY <1>0, <1>6, <2>1, Quiet DEF CompleteOwn, TypeOK
<1>7. CASE Refuse(c)
    <2>1. \A d \in Cmds : ~Reopened(d)
        BY <1>0, <1>7, UpdateEffects DEF Refuse
    <2>2. QED
        BY <1>0, <1>7, <2>1, Quiet DEF Refuse, Settle, TypeOK
<1>8. CASE TimeOut(c)
    <2>1. \A d \in Cmds : ~Reopened(d)
        BY <1>0, <1>8, UpdateEffects DEF TimeOut, tableVars
    <2>2. QED
        BY <1>0, <1>8, <2>1, Quiet DEF TimeOut, Settle, TypeOK
<1>9. QED
    BY <1>1, <1>2, <1>3, <1>4, <1>5, <1>6, <1>7, <1>8 DEF DispatchNext

LEMMA DrainHolding ==
    ASSUME Inv, NEW s \in Sockets, DrainNext(s) PROVE HoldInv' /\ RefuseInv'
<1> USE DEF DrainAt, DispatchHolds, DrainHolds
<1>0. TypeOK /\ HoldInv /\ RefuseInv
    BY DEF Inv, Typed
<1>h. drain[s] \in {"holding", "requeue", "complete"} =>
          held[s] \in Cmds /\ held[s] \in Durable
    BY DeliveryAssumption DEF Inv, Typed, HeldRow
<1>1. CASE DrainExpire(s)
    <2>1. \A d \in Cmds : ~Reopened(d)
        BY <1>0, <1>1, UpdateEffects DEF DrainExpire
    <2>2. QED
        BY <1>0, <1>1, <2>1, Quiet DEF DrainExpire, TypeOK
<1>2. CASE DrainClaim(s)
    <2>1. PICK c \in Cmds : /\ status[c] = "queued" /\ c \in Durable
                            /\ status' = [status EXCEPT ![c] = "sent"]
                            /\ held' = [held EXCEPT ![s] = c]
        BY <1>2 DEF DrainClaim, Deliverable
    <2>2. /\ drain' = [drain EXCEPT ![s] = "holding"] /\ drain[s] = "list"
          /\ UNCHANGED <<dispatch, waiter, sent>>
        BY <1>2 DEF DrainClaim, agentVars
    <2>3. c \notin Written /\ ~DispatchHolds(c) /\ \A t \in Sockets : ~DrainHolds(t, c)
        BY <1>0, <2>1 DEF HoldInv, Taken
    <2>4. Written' = Written /\ SentAtMostOnce'
        BY <1>0, <2>2, NothingWritten DEF HoldInv
    <2>5. Taken(c)' /\ \A d \in Cmds : Taken(d) => Taken(d)'
        BY <1>0, <2>1 DEF TypeOK, Taken
    <2>6. \A t \in Sockets, d \in Cmds :
              DrainHolds(t, d)' => DrainHolds(t, d) \/ (t = s /\ d = c)
        BY <1>0, <2>1, <2>2 DEF TypeOK
    <2>7. HoldInv'
        BY <1>0, <2>1, <2>2, <2>3, <2>4, <2>5, <2>6 DEF HoldInv
    <2>8. RefuseInv'
        BY <1>0, <2>2, <2>4 DEF RefuseInv
    <2>9. QED
        BY <2>7, <2>8
<1>3. CASE DrainEnds(s)
    <2>1. \A d \in Cmds : ~Reopened(d)
        BY <1>0, <1>3, UpdateEffects DEF DrainEnds, tableVars
    <2>2. QED
        BY <1>0, <1>3, <2>1, Quiet DEF DrainEnds, TypeOK
<1>4. CASE DrainSend(s)
    <2> DEFINE c == held[s]
    <2>0. /\ c \in Durable /\ c \in Cmds /\ DrainHolds(s, c)
          /\ UNCHANGED <<status, dispatch, waiter>>
        BY <1>h, <1>4 DEF DrainSend, tableVars
    <2>1. CASE Ready
        <3>1. /\ Send(c)
              /\ \/ drain' = [drain EXCEPT ![s] = "complete"] /\ held' = held
                 \/ drain' = [drain EXCEPT ![s] = "list"] /\ held' = [held EXCEPT ![s] = None]
            BY <1>4, <2>1 DEF DrainSend
        <3>2. Taken(c) /\ c \notin Written /\ ~DispatchHolds(c)
              /\ \A t \in Sockets : DrainHolds(t, c) => t = s
            BY <1>0, <2>0 DEF HoldInv
        <3>3. Written' = Written \cup {c} /\ SentAtMostOnce'
            BY <1>0, <2>0, <3>1, <3>2, SendWrites DEF TypeOK, HoldInv
        <3>4. \A t \in Sockets, d \in Cmds : DrainHolds(t, d)' => DrainHolds(t, d) /\ t # s
            BY <1>0, <3>1 DEF TypeOK
        <3>5. HoldInv'
            BY <1>0, <2>0, <3>2, <3>3, <3>4 DEF HoldInv, Taken
        <3>6. RefuseInv'
            BY <1>0, <2>0, <3>3 DEF RefuseInv
        <3>7. QED
            BY <3>5, <3>6
    <2>2. CASE ~Ready
        <3>1. \A d \in Cmds : ~Reopened(d)
            BY <1>0, <2>0, UpdateEffects
        <3>2. QED
            BY <1>0, <1>4, <2>0, <2>2, <3>1, Quiet DEF DrainSend, TypeOK
    <2>3. QED
        BY <2>1, <2>2
<1>5. CASE DrainRequeue(s)
    <2> DEFINE c == held[s]
    <2>0. c \in Cmds /\ DrainHolds(s, c) /\ UNCHANGED <<dispatch, waiter, sent>>
        BY <1>h, <1>5 DEF DrainRequeue, agentVars
    <2>1. c \notin Written /\ ~DispatchHolds(c) /\ \A t \in Sockets : DrainHolds(t, c) => t = s
        BY <1>0, <2>0 DEF HoldInv
    <2>2. \A d \in Cmds : d # c /\ Taken(d) => Taken(d)'
        BY <1>0, <1>5, <2>0, UpdateEffects DEF DrainRequeue, Reopened
    <2>3. \A t \in Sockets, d \in Cmds : DrainHolds(t, d)' => DrainHolds(t, d) /\ t # s
        BY <1>0, <1>5 DEF DrainRequeue, TypeOK
    <2>4. Written' = Written /\ SentAtMostOnce'
        BY <1>0, <2>0, NothingWritten DEF HoldInv
    <2>5. HoldInv'
        BY <1>0, <2>0, <2>1, <2>2, <2>3, <2>4 DEF HoldInv
    <2>6. RefuseInv'
        BY <1>0, <2>0, <2>4 DEF RefuseInv
    <2>7. QED
        BY <2>5, <2>6
<1>6. CASE DrainComplete(s)
    <2>1. \A d \in Cmds : ~Reopened(d)
        BY <1>0, <1>h, <1>6, UpdateEffects DEF DrainComplete
    <2>2. QED
        BY <1>0, <1>6, <2>1, Quiet DEF DrainComplete, TypeOK
<1>7. QED
    BY <1>1, <1>2, <1>3, <1>4, <1>5, <1>6 DEF DrainNext

LEMMA OtherHolding ==
    ASSUME Inv, OtherNext \/ \E s \in Sockets : SocketNext(s) PROVE HoldInv' /\ RefuseInv'
<1> USE DEF DispatchHolds, DrainHolds
<1>0. TypeOK /\ HoldInv /\ RefuseInv
    BY DEF Inv, Typed
<1>1. ASSUME NEW s \in Sockets, SocketNext(s) PROVE HoldInv' /\ RefuseInv'
    <2>1. UNCHANGED <<status, dispatch, drain, held, waiter, sent>> \/ Inventory(s)
        BY <1>1 DEF SocketNext, Connect, Authenticate, Hello, Disconnect, CloseSeen,
           tableVars, routerVars
    <2>2. /\ UNCHANGED <<status, dispatch, waiter, sent>>
          /\ \A d \in Cmds, t \in Sockets : DrainHolds(t, d)' => DrainHolds(t, d)
        BY <1>0, <2>1 DEF Inventory, tableVars, TypeOK
    <2>3. \A d \in Cmds : ~Reopened(d)
        BY <1>0, <2>2, UpdateEffects
    <2>4. QED
        BY <1>0, <2>2, <2>3, Quiet
<1>2. ASSUME NEW c \in Cmds, Due(c) \/ SweepTerminal(c) \/ Finish(c) PROVE HoldInv' /\ RefuseInv'
    <2>1. UNCHANGED <<dispatch, drain, held, waiter, sent>>
        BY <1>2 DEF Due, SweepTerminal, Finish, routerVars
    <2>2. \A d \in Cmds : ~Reopened(d)
        BY <1>0, <1>2, UpdateEffects DEF Due, Finish, tableVars
    <2>3. QED
        BY <1>0, <2>1, <2>2, Quiet
<1>3. ASSUME NEW c \in Cmds, HandleResult(c) PROVE HoldInv' /\ RefuseInv'
    <2>1. UNCHANGED <<dispatch, drain, held, sent>>
        BY <1>3 DEF HandleResult
    <2>2. \A d \in Cmds : waiter'[d] = "refused" => waiter[d] = "refused"
        BY <1>0, <1>3 DEF HandleResult, Settle, TypeOK
    <2>3. \A d \in Cmds : ~Reopened(d)
        BY <1>0, <1>3, UpdateEffects DEF HandleResult
    <2>4. QED
        BY <1>0, <2>1, <2>2, <2>3, Quiet
<1>4. CASE SweepStale \/ AgentRestart \/ \E i \in inbox : Receive(i)
    <2>1. UNCHANGED <<dispatch, drain, held, waiter, sent>>
        BY <1>4 DEF SweepStale, AgentRestart, Receive, routerVars
    <2>2. \A d \in Cmds : ~Reopened(d)
        BY <1>0, <1>4, UpdateEffects DEF SweepStale, AgentRestart, Receive, tableVars
    <2>3. QED
        BY <1>0, <2>1, <2>2, Quiet
<1>5. CASE ServerRestart
    <2>1. /\ UNCHANGED <<status, sent>>
          /\ \A d \in Cmds : dispatch'[d] = IF dispatch[d] = "none" THEN "none" ELSE "done"
          /\ \A t \in Sockets : drain'[t] = "idle"
          /\ \A d \in Cmds : waiter'[d] = "refused" => waiter[d] = "refused"
        BY <1>0, <1>5 DEF ServerRestart, tableVars, TypeOK
    <2>2. \A d \in Cmds : ~Reopened(d)
        BY <1>0, <2>1, UpdateEffects
    <2>3. QED
        BY <1>0, <2>1, <2>2, Quiet
<1>6. QED
    BY <1>1, <1>2, <1>3, <1>4, <1>5 DEF OtherNext

LEMMA InvStep == Inv /\ [Next]_vars => Inv'
<1> SUFFICES ASSUME Inv, [Next]_vars PROVE HoldInv' /\ RefuseInv'
    BY TypedStep DEF Inv
<1>1. CASE UNCHANGED vars
    <2>1. UNCHANGED <<status, dispatch, drain, held, waiter, sent>>
        BY <1>1 DEF vars, tableVars, routerVars
    <2>2. \A d \in Cmds : ~Reopened(d)
        BY <2>1, UpdateEffects DEF Inv, Typed
    <2>3. QED
        BY <2>1, <2>2, Quiet DEF Inv, DispatchHolds, DrainHolds
<1>2. QED
    BY <1>1, NextSplits, DispatchHolding, DrainHolding, OtherHolding

LEMMA InvInit == Init => Inv
<1> SUFFICES ASSUME Init PROVE Inv
    OBVIOUS
<1>1. Written = {} /\ SentAtMostOnce
    BY DEF Init, Written, SentAtMostOnce
<1>2. HoldInv
    BY <1>1 DEF Init, HoldInv, DispatchHolds, DrainHolds
<1>3. RefuseInv
    BY <1>1 DEF Init, RefuseInv
<1>4. QED
    BY <1>2, <1>3, TypedInit DEF Inv

\* A command is written to a socket at most once, whatever dispatches, drains,
\* requeues, sockets and restarts overlap.
THEOREM WrittenOnce == Spec => []SentAtMostOnce
<1>1. Inv => SentAtMostOnce
    BY DEF Inv, HoldInv
<1>2. QED
    BY <1>1, InvInit, InvStep, PTL DEF Spec

\* A refused command has not been sent and never will be.
THEOREM RefusalHolds == Spec => []RefusedNeverSent
<1>1. Inv => RefusedNeverSent
    BY DEF Inv, RefuseInv, RefusedNeverSent, Written
<1>2. QED
    BY <1>1, InvInit, InvStep, PTL DEF Spec

-----------------------------------------------------------------------------
\* No step unsettles a row.
LEMMA NoneUnsettled == Typed /\ [Next]_vars => \A d \in Cmds : ~Unsettled(d)
<1> SUFFICES ASSUME Typed, [Next]_vars PROVE \A d \in Cmds : ~Unsettled(d)
    OBVIOUS
<1>0. TypeOK /\ HeldRow
    BY DEF Typed
<1>1. ASSUME NEW c \in Cmds, DispatchNext(c) PROVE \A d \in Cmds : ~Unsettled(d)
    <2>1. CASE Enqueue(c)
        BY <1>0, <2>1, Settling DEF Enqueue, TypeOK, Unsettled
    <2>2. CASE ClaimOwn(c)
        BY <1>0, <2>2, Settling DEF ClaimOwn, Claim, TypeOK, Unsettled
    <2>3. CASE RequeueOwn(c) \/ CompleteOwn(c) \/ Refuse(c)
        BY <1>0, <2>3, UpdateEffects DEF RequeueOwn, CompleteOwn, Refuse
    <2>4. CASE CheckReady(c) \/ SendOwn(c) \/ TimeOut(c)
        BY <1>0, <2>4, UpdateEffects DEF CheckReady, SendOwn, TimeOut, tableVars
    <2>5. QED
        BY <1>1, <2>1, <2>2, <2>3, <2>4 DEF DispatchNext
<1>2. ASSUME NEW s \in Sockets, SocketNext(s) PROVE \A d \in Cmds : ~Unsettled(d)
    BY <1>0, <1>2, UpdateEffects DEF SocketNext, Connect, Authenticate, Hello, Inventory,
       Disconnect, CloseSeen, tableVars
<1>3. ASSUME NEW s \in Sockets, DrainNext(s) PROVE \A d \in Cmds : ~Unsettled(d)
    <2>1. CASE DrainExpire(s)
        BY <1>0, <2>1, UpdateEffects DEF DrainExpire
    <2>2. CASE DrainClaim(s)
        BY <1>0, <2>2, Settling DEF DrainClaim, Deliverable, TypeOK, Unsettled
    <2>3. CASE DrainEnds(s) \/ DrainSend(s)
        BY <1>0, <2>3, UpdateEffects DEF DrainEnds, DrainSend, tableVars
    <2>4. CASE DrainRequeue(s) \/ DrainComplete(s)
        <3>1. held[s] \in Cmds
            BY <1>0, <2>4, DeliveryAssumption DEF HeldRow, DrainRequeue, DrainComplete
        <3>2. QED
            BY <1>0, <2>4, <3>1, UpdateEffects DEF DrainRequeue, DrainComplete
    <2>5. QED
        BY <1>3, <2>1, <2>2, <2>3, <2>4 DEF DrainNext
<1>4. CASE OtherNext
    BY <1>0, <1>4, UpdateEffects DEF OtherNext, Due, Finish, HandleResult, Receive,
       SweepStale, ServerRestart, AgentRestart, tableVars
<1>5. CASE UNCHANGED vars
    BY <1>0, <1>5, UpdateEffects DEF vars, tableVars
<1>6. QED
    BY <1>1, <1>2, <1>3, <1>4, <1>5, NextSplits

\* A settled row is not pruned and enqueued anew either: its status stays or
\* the row goes.
LEMMA SettledStep ==
    Typed /\ [Next]_vars =>
        \A c \in Cmds : status[c] \in Terminal => status'[c] \in {status[c], "pruned"}
<1> SUFFICES ASSUME Typed, [Next]_vars, NEW d \in Cmds, status[d] \in Terminal
             PROVE  status'[d] \in {status[d], "pruned"}
    OBVIOUS
<1> USE Settling DEF TypeOK
<1>0. TypeOK /\ HeldRow
    BY DEF Typed
<1>1. ASSUME NEW c \in Cmds, MarkQueued(c) \/ MarkCompleted(c) \/ MarkFailed(c)
      PROVE  status'[d] = status[d]
    BY <1>0, <1>1 DEF MarkQueued, MarkCompleted, MarkFailed, SetStatus
<1>2. ASSUME NEW c \in Cmds, DispatchNext(c) PROVE status'[d] = status[d]
    <2>1. CASE Enqueue(c)
        BY <1>0, <2>1 DEF Enqueue
    <2>2. CASE ClaimOwn(c)
        BY <1>0, <2>2 DEF ClaimOwn, Claim
    <2>3. CASE RequeueOwn(c) \/ CompleteOwn(c) \/ Refuse(c)
        BY <1>1, <2>3 DEF RequeueOwn, CompleteOwn, Refuse
    <2>4. CASE CheckReady(c) \/ SendOwn(c) \/ TimeOut(c)
        BY <2>4 DEF CheckReady, SendOwn, TimeOut, tableVars
    <2>5. QED
        BY <1>2, <2>1, <2>2, <2>3, <2>4 DEF DispatchNext
<1>3. ASSUME NEW s \in Sockets, SocketNext(s) PROVE status' = status
    BY <1>3 DEF SocketNext, Connect, Authenticate, Hello, Inventory, Disconnect, CloseSeen,
       tableVars
<1>4. ASSUME NEW s \in Sockets, DrainNext(s) PROVE status'[d] = status[d]
    <2>1. CASE DrainExpire(s)
        BY <1>0, <2>1 DEF DrainExpire, ExpireStale
    <2>2. CASE DrainClaim(s)
        BY <1>0, <2>2 DEF DrainClaim, Deliverable
    <2>3. CASE DrainEnds(s) \/ DrainSend(s)
        BY <2>3 DEF DrainEnds, DrainSend, tableVars
    <2>4. CASE DrainRequeue(s) \/ DrainComplete(s)
        <3>1. held[s] \in Cmds
            BY <1>0, <2>4, DeliveryAssumption DEF HeldRow, DrainRequeue, DrainComplete
        <3>2. QED
            BY <1>1, <2>4, <3>1 DEF DrainRequeue, DrainComplete
    <2>5. QED
        BY <1>4, <2>1, <2>2, <2>3, <2>4 DEF DrainNext
<1>5. CASE OtherNext
    <2>1. ASSUME NEW c \in Cmds, SweepTerminal(c) PROVE status'[d] \in {status[d], "pruned"}
        BY <1>0, <2>1 DEF SweepTerminal
    <2>2. ASSUME NEW c \in Cmds, HandleResult(c) PROVE status'[d] = status[d]
        BY <1>1, <2>2 DEF HandleResult
    <2>3. CASE SweepStale
        BY <1>0, <2>3 DEF SweepStale, ExpireStale
    <2>4. QED
        BY <1>5, <2>1, <2>2, <2>3 DEF OtherNext, Due, Finish, Receive, ServerRestart,
           AgentRestart, tableVars
<1>6. CASE UNCHANGED vars
    BY <1>6 DEF vars, tableVars
<1>7. QED
    BY <1>2, <1>3, <1>4, <1>5, <1>6, NextSplits

\* A settled row is never reopened, by a late requeue, result, claim or sweep.
THEOREM SettledForGood == Spec => SettledStays
<1>1. Typed /\ [Next]_vars =>
          [\A c \in Cmds : status[c] \in Terminal => status'[c] \in {status[c], "pruned"}]_vars
    BY SettledStep
<1>2. QED
    BY <1>1, TypedInit, TypedStep, PTL DEF Spec, SettledStays

\* Only a result resolves a caller, and it settles the row in the same step.
LEMMA AnsweredStep == Typed /\ AnsweredIsSettled /\ [Next]_vars => AnsweredIsSettled'
<1> SUFFICES ASSUME Typed, AnsweredIsSettled, [Next]_vars,
                    NEW d \in Cmds, waiter'[d] = "resolved"
             PROVE  status'[d] \in Terminal \cup {"pruned"}
    BY DEF AnsweredIsSettled
<1>0. TypeOK
    BY DEF Typed
<1>1. CASE waiter[d] = "resolved"
    BY <1>1, NoneUnsettled DEF AnsweredIsSettled, Unsettled
<1>2. CASE waiter[d] # "resolved"
    <2>1. HandleResult(d)
        <3>1. ASSUME NEW c \in Cmds, DispatchNext(c) PROVE FALSE
            BY <1>0, <1>2, <3>1 DEF TypeOK, DispatchNext, Enqueue, CheckReady, ClaimOwn, SendOwn,
               RequeueOwn, CompleteOwn, Refuse, TimeOut, Settle
        <3>2. ASSUME NEW s \in Sockets, SocketNext(s) \/ DrainNext(s) PROVE FALSE
            BY <1>2, <3>2 DEF SocketNext, Connect, Authenticate, Hello, Inventory, Disconnect,
               CloseSeen, DrainNext, DrainExpire, DrainClaim, DrainEnds, DrainSend,
               DrainRequeue, DrainComplete, routerVars
        <3>3. CASE OtherNext
            <4>1. ASSUME NEW c \in Cmds, HandleResult(c), c # d PROVE FALSE
                BY <1>0, <1>2, <4>1 DEF HandleResult, Settle, TypeOK
            <4>2. CASE ServerRestart
                BY <1>0, <1>2, <4>2 DEF ServerRestart, TypeOK
            <4>3. QED
                BY <1>2, <3>3, <4>1, <4>2 DEF OtherNext, Due, SweepTerminal, Finish, Receive,
                   SweepStale, AgentRestart, routerVars
        <3>4. CASE UNCHANGED vars
            BY <1>2, <3>4 DEF vars, routerVars
        <3>5. QED
            BY <3>1, <3>2, <3>3, <3>4, NextSplits
    <2>2. status[d] \notin {"absent", "pruned"} /\ (MarkCompleted(d) \/ MarkFailed(d))
        BY <1>2, <2>1 DEF HandleResult
    <2>3. QED
        BY <1>0, <2>2, Settling DEF MarkCompleted, MarkFailed, SetStatus, TypeOK
<1>3. QED
    BY <1>1, <1>2

\* A caller that has its answer finds its command settled, for good.
THEOREM AnswerIsFinal == Spec => []AnsweredIsSettled
<1>1. Init => AnsweredIsSettled
    BY DEF Init, AnsweredIsSettled
<1>2. QED
    BY <1>1, TypedInit, TypedStep, AnsweredStep, PTL DEF Spec

-----------------------------------------------------------------------------
\* Rows that wait while the agent is ready.
Draining == \E s \in Sockets : drain[s] \notin {"idle", "done"}

\* No step but a requeue leaves a row behind: a dispatch that is over has its row
\* taken, a drain that is over has found nothing, and a socket becomes ready with
\* a drain of its own.
LEMMA StrandingStep ==
    ASSUME Inv, NoneWaits, [Next]_vars, ~Requeues PROVE NoneWaits'
<1> SUFFICES ASSUME NEW c \in Durable, Ready', Deliverable(c)', dispatch'[c] \in {"none", "done"},
                    ~Draining'
             PROVE  FALSE
    BY DEF NoneWaits, Draining
<1> USE Settling DEF socketVars, routerVars, tableVars
<1>0. TypeOK /\ HoldInv /\ RefuseInv /\ c \in Cmds
    BY DeliveryAssumption DEF Inv, Typed
<1>1. ASSUME Deliverable(c), dispatch[c] = dispatch'[c], drain' = drain,
             ready' = ready, registered' = registered
      PROVE  FALSE
    BY <1>1 DEF NoneWaits, Draining, Ready
<1>2. status'[c] = "queued" /\ c \notin due' /\ c \in Durable
    BY DEF Deliverable
<1>3. ASSUME NEW d \in Cmds, DispatchNext(d) PROVE FALSE
    <2>1. drain' = drain /\ ready' = ready /\ registered' = registered /\ due' = due
        BY <1>3 DEF DispatchNext, Enqueue, CheckReady, ClaimOwn, SendOwn, RequeueOwn, CompleteOwn,
           Refuse, TimeOut
    <2>2. CASE d # c
        <3>1. status'[c] = status[c] /\ dispatch'[c] = dispatch[c]
            BY <1>0, <1>3, <2>2 DEF TypeOK, DispatchNext, Enqueue, CheckReady, ClaimOwn, Claim,
               SendOwn, RequeueOwn, CompleteOwn, Refuse, TimeOut, At, Unsent, MarkQueued,
               MarkCompleted, MarkFailed, SetStatus
        <3>2. QED
            BY <1>1, <1>2, <2>1, <3>1 DEF Deliverable
    <2>3. CASE Enqueue(c)
        BY <1>0, <2>3 DEF Enqueue, At, TypeOK
    <2>4. CASE CheckReady(c)
        BY <1>0, <2>1, <2>4 DEF CheckReady, At, Unsent, TypeOK, Ready
    <2>5. CASE ClaimOwn(c)
        BY <1>0, <1>2, <2>5 DEF ClaimOwn, Claim, At, TypeOK
    <2>6. CASE SendOwn(c)
        <3>1. Taken(c) /\ status' = status
            BY <1>0, <2>6 DEF SendOwn, HoldInv, DispatchHolds
        <3>2. QED
            BY <1>2, <3>1 DEF Taken
    <2>7. CASE CompleteOwn(c)
        BY <1>0, <1>2, <2>7 DEF CompleteOwn, MarkCompleted, SetStatus, TypeOK
    <2>8. CASE Refuse(c)
        BY <1>0, <2>8 DEF Refuse, RefuseInv
    <2>9. CASE TimeOut(c)
        <3>1. status' = status /\ dispatch' = dispatch
            BY <2>9 DEF TimeOut
        <3>2. QED
            BY <1>1, <1>2, <2>1, <3>1 DEF Deliverable
    <2>10. QED
        BY <1>3, <2>2, <2>3, <2>4, <2>5, <2>6, <2>7, <2>8, <2>9 DEF DispatchNext, Requeues
<1>4. ASSUME NEW s \in Sockets, SocketNext(s) PROVE FALSE
    <2>1. status' = status /\ due' = due /\ dispatch' = dispatch
        BY <1>4 DEF SocketNext, Connect, Authenticate, Hello, Inventory, Disconnect, CloseSeen
    <2>2. ~Inventory(s)
        BY <1>0 DEF Inventory, Draining, TypeOK
    <2>3. drain' = drain /\ ready' = ready /\ registered' = registered
        BY <1>4, <2>2 DEF SocketNext, Connect, Authenticate, Hello, Disconnect, CloseSeen,
           Register, Ready
    <2>4. QED
        BY <1>1, <1>2, <2>1, <2>3 DEF Deliverable
<1>5. ASSUME NEW s \in Sockets, DrainNext(s) PROVE FALSE
    <2>1. DrainEnds(s)
        BY <1>0, <1>5 DEF DrainNext, DrainExpire, DrainClaim, DrainSend, DrainRequeue,
           DrainComplete, DrainAt, Draining, Requeues, TypeOK
    <2>2. QED
        BY <1>0, <1>2, <2>1 DEF DrainEnds, NothingLeft, Deliverable
<1>6. CASE OtherNext
    <2>1. ~ServerRestart
        BY DEF ServerRestart, Ready
    <2>2. UNCHANGED <<dispatch, drain, ready, registered>>
        BY <1>6, <2>1 DEF OtherNext, Due, SweepTerminal, Finish, HandleResult, Receive,
           SweepStale, AgentRestart
    <2>3. status[c] = "queued"
        <3>1. ASSUME NEW d \in Cmds, MarkCompleted(d) \/ MarkFailed(d) \/ SweepTerminal(d)
              PROVE  status[c] = "queued"
            BY <1>0, <1>2, <3>1 DEF MarkCompleted, MarkFailed, SetStatus, SweepTerminal, TypeOK
        <3>2. CASE SweepStale
            BY <1>0, <1>2, <3>2 DEF SweepStale, ExpireStale, TypeOK
        <3>3. QED
            BY <1>2, <1>6, <2>1, <3>1, <3>2 DEF OtherNext, Due, Finish, HandleResult, Receive,
               AgentRestart
    <2>4. c \notin due
        BY <1>2, <1>6, <2>1 DEF OtherNext, Due, SweepTerminal, Finish, HandleResult, Receive,
           SweepStale, AgentRestart
    <2>5. QED
        BY <1>1, <1>2, <2>2, <2>3, <2>4 DEF Deliverable
<1>7. CASE UNCHANGED vars
    BY <1>1, <1>2, <1>7 DEF vars, Deliverable
<1>8. QED
    BY <1>3, <1>4, <1>5, <1>6, <1>7, NextSplits

\* Whatever sockets come and go, a row that waits while the agent is ready was
\* left by a requeue that landed after the drain: no other step strands one.
THEOREM StrandedByRequeues == Spec => OnlyRequeuesStrand
<1>1. Inv /\ [Next]_vars => [NoneWaits => NoneWaits' \/ Requeues]_vars
    BY StrandingStep
<1>2. QED
    BY <1>1, InvInit, InvStep, PTL DEF Spec, OnlyRequeuesStrand

-----------------------------------------------------------------------------
\* A socket has a drain once it has been ready, and a claim follows a drain.
DrainInv ==
    /\ \A s \in Sockets : drain[s] # "idle" => socket[s] = "helloed"
    /\ \A c \in Cmds : dispatch[c] \in {"claiming", "claimed", "requeue"} =>
           \E s \in Sockets : drain[s] # "idle"
    /\ Ready => drain[registered] # "idle"

PutsBack ==
    \/ \E c \in Cmds : dispatch[c] = "requeue"
    \/ \E s \in Sockets : drain[s] = "requeue"

\* On the first connection a row that is put back finds the socket closed to
\* commands, or opened to no drain again.
FirstInv == FirstConnection => NoneWaits /\ (PutsBack => ~Ready)

LEMMA DrainInvStep == Typed /\ DrainInv /\ [Next]_vars => DrainInv'
<1> SUFFICES ASSUME Typed, DrainInv, [Next]_vars PROVE DrainInv'
    OBVIOUS
<1> USE DEF socketVars, routerVars, tableVars
<1>0. TypeOK
    BY DEF Typed
<1>1. ASSUME NEW c \in Cmds, DispatchNext(c) PROVE DrainInv'
    <2>1. UNCHANGED <<drain, socket, registered, ready>>
        BY <1>1 DEF DispatchNext, Enqueue, CheckReady, ClaimOwn, SendOwn, RequeueOwn,
           CompleteOwn, Refuse, TimeOut
    <2>2. \A d \in Cmds : dispatch'[d] \in {"claiming", "claimed", "requeue"} =>
              Ready \/ dispatch[d] \in {"claiming", "claimed", "requeue"}
        BY <1>0, <1>1 DEF TypeOK, DispatchNext, Enqueue, CheckReady, ClaimOwn, Claim, SendOwn,
           RequeueOwn, CompleteOwn, Refuse, TimeOut, At, Unsent
    <2>3. Ready => registered \in Sockets
        BY <1>0 DEF Ready, TypeOK
    <2>4. QED
        BY <2>1, <2>2, <2>3 DEF DrainInv, Ready
<1>2. ASSUME NEW s \in Sockets, SocketNext(s) PROVE DrainInv'
    <2>1. dispatch' = dispatch
        BY <1>2 DEF SocketNext, Connect, Authenticate, Hello, Inventory, Disconnect, CloseSeen
    <2>2. \A t \in Sockets : drain[t] # "idle" => drain'[t] # "idle"
        BY <1>0, <1>2 DEF SocketNext, Connect, Authenticate, Hello, Inventory, Disconnect,
           CloseSeen, TypeOK
    <2>3. \A t \in Sockets : drain'[t] # "idle" => socket'[t] = "helloed"
        BY <1>0, <1>2 DEF DrainInv, SocketNext, Connect, Authenticate, Hello, Inventory,
           Disconnect, CloseSeen, TypeOK
    <2>4. Ready' => drain'[registered'] # "idle"
        <3>1. CASE Inventory(s)
            BY <1>0, <3>1 DEF Inventory, TypeOK
        <3>2. CASE ~Inventory(s)
            BY <1>2, <3>2 DEF DrainInv, SocketNext, Connect, Authenticate, Hello, Disconnect,
               CloseSeen, Register, Ready
        <3>3. QED
            BY <3>1, <3>2
    <2>5. QED
        BY <2>1, <2>2, <2>3, <2>4 DEF DrainInv
<1>3. ASSUME NEW s \in Sockets, DrainNext(s) PROVE DrainInv'
    <2>1. /\ UNCHANGED <<dispatch, socket, registered, ready>>
          /\ \A t \in Sockets : drain'[t] # "idle" <=> drain[t] # "idle"
        BY <1>0, <1>3 DEF DrainNext, DrainExpire, DrainClaim, DrainEnds, DrainSend, DrainRequeue,
           DrainComplete, DrainAt, TypeOK
    <2>2. Ready => registered \in Sockets
        BY <1>0 DEF Ready, TypeOK
    <2>3. QED
        BY <2>1, <2>2 DEF DrainInv, Ready
<1>4. CASE OtherNext
    <2>1. CASE ServerRestart
        <3>1. /\ \A t \in Sockets : drain'[t] = "idle"
              /\ \A d \in Cmds : dispatch'[d] \in {"none", "done"}
              /\ ~Ready'
            BY <2>1 DEF ServerRestart, Ready
        <3>2. QED
            BY <3>1 DEF DrainInv
    <2>2. CASE ~ServerRestart
        <3>1. UNCHANGED <<dispatch, drain, socket, registered, ready>>
            BY <1>4, <2>2 DEF OtherNext, Due, SweepTerminal, Finish, HandleResult, Receive,
               SweepStale, AgentRestart
        <3>2. QED
            BY <3>1 DEF DrainInv, Ready
    <2>3. QED
        BY <2>1, <2>2
<1>5. CASE UNCHANGED vars
    BY <1>5 DEF DrainInv, Ready, vars
<1>6. QED
    BY <1>1, <1>2, <1>3, <1>4, <1>5, NextSplits

LEMMA SocketsRemain ==
    ASSUME Typed, [Next]_vars, NEW s \in Sockets, socket[s] # "none" PROVE socket'[s] # "none"
<1> USE DEF socketVars, routerVars, tableVars, Typed, TypeOK
<1>1. ASSUME NEW c \in Cmds, DispatchNext(c) PROVE socket' = socket
    BY <1>1 DEF DispatchNext, Enqueue, CheckReady, ClaimOwn, SendOwn, RequeueOwn,
       CompleteOwn, Refuse, TimeOut
<1>2. ASSUME NEW t \in Sockets, SocketNext(t) PROVE socket'[s] # "none"
    BY <1>2 DEF SocketNext, Connect, Authenticate, Hello, Inventory, Disconnect, CloseSeen
<1>3. ASSUME NEW t \in Sockets, DrainNext(t) PROVE socket' = socket
    BY <1>3 DEF DrainNext, DrainExpire, DrainClaim, DrainEnds, DrainSend, DrainRequeue,
       DrainComplete
<1>4. CASE OtherNext
    BY <1>4 DEF OtherNext, Due, SweepTerminal, Finish, HandleResult, Receive,
       SweepStale, ServerRestart, AgentRestart
<1>5. CASE UNCHANGED vars
    BY <1>5 DEF vars
<1>6. QED
    BY <1>1, <1>2, <1>3, <1>4, <1>5, NextSplits

\* The socket becomes ready only by an inventory, whose drain has not begun.
LEMMA ReadyByInventory ==
    ASSUME Typed, [Next]_vars, Ready', ~Ready
    PROVE  \E s \in Sockets : Inventory(s)
<1> USE DEF socketVars, routerVars, tableVars, Ready
<1>1. ASSUME NEW c \in Cmds, DispatchNext(c) PROVE FALSE
    BY <1>1 DEF DispatchNext, Enqueue, CheckReady, ClaimOwn, SendOwn, RequeueOwn,
       CompleteOwn, Refuse, TimeOut
<1>2. ASSUME NEW t \in Sockets, SocketNext(t) PROVE Inventory(t)
    BY <1>2 DEF SocketNext, Connect, Authenticate, Hello, Disconnect, CloseSeen, Register
<1>3. ASSUME NEW t \in Sockets, DrainNext(t) PROVE FALSE
    BY <1>3 DEF DrainNext, DrainExpire, DrainClaim, DrainEnds, DrainSend, DrainRequeue,
       DrainComplete
<1>4. CASE OtherNext
    BY <1>4 DEF OtherNext, Due, SweepTerminal, Finish, HandleResult, Receive,
       SweepStale, ServerRestart, AgentRestart
<1>5. CASE UNCHANGED vars
    BY <1>5 DEF vars
<1>6. QED
    BY <1>1, <1>2, <1>3, <1>4, <1>5, NextSplits

\* A row is on its way back only from a send that found the socket not ready.
LEMMA PutsBackUnready ==
    ASSUME Typed, [Next]_vars, PutsBack', ~PutsBack
    PROVE  ~Ready /\ ~Ready'
<1> USE DEF socketVars, routerVars, tableVars, Typed, TypeOK
<1>1. ASSUME NEW c \in Cmds, DispatchNext(c) PROVE ~Ready /\ ~Ready'
    <2>1. UNCHANGED <<drain, registered, ready>>
        BY <1>1 DEF DispatchNext, Enqueue, CheckReady, ClaimOwn, SendOwn, RequeueOwn,
           CompleteOwn, Refuse, TimeOut
    <2>2. dispatch'[c] = "requeue"
        BY <1>1, <2>1 DEF PutsBack, DispatchNext, Enqueue, CheckReady, ClaimOwn, Claim, SendOwn,
           RequeueOwn, CompleteOwn, Refuse, TimeOut, At, Unsent
    <2>3. ~Ready
        BY <1>1, <2>2 DEF PutsBack, DispatchNext, Enqueue, CheckReady, ClaimOwn, Claim, SendOwn,
           RequeueOwn, CompleteOwn, Refuse, TimeOut, At, Unsent
    <2>4. QED
        BY <2>1, <2>3 DEF Ready
<1>2. ASSUME NEW t \in Sockets, SocketNext(t) PROVE FALSE
    BY <1>2 DEF PutsBack, SocketNext, Connect, Authenticate, Hello, Inventory, Disconnect,
       CloseSeen
<1>3. ASSUME NEW t \in Sockets, DrainNext(t) PROVE ~Ready /\ ~Ready'
    <2>1. UNCHANGED <<dispatch, registered, ready>>
        BY <1>3 DEF DrainNext, DrainExpire, DrainClaim, DrainEnds, DrainSend, DrainRequeue,
           DrainComplete
    <2>2. ~Ready
        BY <1>3, <2>1 DEF PutsBack, DrainNext, DrainExpire, DrainClaim, DrainEnds, DrainSend,
           DrainRequeue, DrainComplete, DrainAt
    <2>3. QED
        BY <2>1, <2>2 DEF Ready
<1>4. CASE OtherNext
    BY <1>4 DEF PutsBack, OtherNext, Due, SweepTerminal, Finish, HandleResult, Receive,
       SweepStale, ServerRestart, AgentRestart
<1>5. CASE UNCHANGED vars
    BY <1>5 DEF PutsBack, vars
<1>6. QED
    BY <1>1, <1>2, <1>3, <1>4, <1>5, NextSplits

LEMMA FirstStep == Inv /\ DrainInv /\ FirstInv /\ [Next]_vars => FirstInv'
<1> SUFFICES ASSUME Inv, DrainInv, FirstInv, [Next]_vars, FirstConnection'
             PROVE  NoneWaits' /\ (PutsBack' => ~Ready')
    BY DEF FirstInv
<1>0. Typed
    BY DEF Inv
<1>1. FirstConnection
    BY <1>0, SocketsRemain DEF FirstConnection
<1>2. NoneWaits /\ (PutsBack => ~Ready)
    BY <1>1 DEF FirstInv
<1>3. PutsBack' => ~Ready'
    <2> SUFFICES ASSUME PutsBack', Ready' PROVE FALSE
        OBVIOUS
    <2>1. PutsBack /\ ~Ready
        BY <1>0, <1>2, PutsBackUnready
    <2>2. PICK s \in Sockets : Inventory(s)
        BY <1>0, <2>1, ReadyByInventory
    <2>3. PICK t \in Sockets : drain[t] # "idle"
        BY <2>1 DEF PutsBack, DrainInv
    <2>4. socket[t] = "helloed" /\ socket[s] = "helloed" /\ drain[s] = "idle"
        BY <2>2, <2>3 DEF DrainInv, Inventory
    <2>5. QED
        BY <1>1, <2>3, <2>4 DEF FirstConnection
<1>4. NoneWaits'
    <2>1. CASE Requeues
        <3>1. PutsBack /\ ready' = ready /\ registered' = registered
            BY <2>1 DEF Requeues, PutsBack, RequeueOwn, DrainRequeue, socketVars
        <3>2. ~Ready'
            BY <1>2, <3>1 DEF Ready
        <3>3. QED
            BY <3>2 DEF NoneWaits
    <2>2. CASE ~Requeues
        BY <1>2, <2>2, StrandingStep
    <2>3. QED
        BY <2>1, <2>2
<1>5. QED
    BY <1>3, <1>4

\* On an agent's first connection no durable row waits for a reconnection that
\* may never come, whatever dispatches, hellos and drains overlap on it.
THEOREM NoneStranded == Spec => []NeverStranded
<1>1. Init => DrainInv /\ FirstInv
    BY DEF Init, DrainInv, FirstInv, PutsBack, NoneWaits, Ready
<1>2. FirstInv => NeverStranded
    BY DEF FirstInv, NeverStranded
<1>3. Inv => Typed
    BY DEF Inv
<1>4. QED
    BY <1>1, <1>2, <1>3, InvInit, InvStep, DrainInvStep, FirstStep, PTL DEF Spec

=============================================================================
