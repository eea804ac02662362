-------------------------- MODULE AgentLinkProofs --------------------------
(***************************************************************************)
(* Theorems about the agent link, for every number of messages, faults and *)
(* connections and every queue capacity; and, in the second part, about    *)
(* the batched progress writer behind its persisted cursor, for every      *)
(* range of numbers and every number of failures, closes, restarts and     *)
(* waiting flushes.                                                        *)
(***************************************************************************)
EXTENDS AgentLink, HostProgress, SequenceTheorems, TLAPS

-----------------------------------------------------------------------------
\* Helpers.

\* Larger returns one of its arguments, and neither is above it.
LEMMA LargerIsMax ==
    ASSUME NEW a \in Nat, NEW b \in Nat
    PROVE  /\ Larger(a, b) \in Nat
           /\ Larger(a, b) \in {a, b}
           /\ a <= Larger(a, b) /\ b <= Larger(a, b)
BY DEF Larger

\* A prefix of a sequence, of which a connection that is lost delivers one, is
\* a sequence of the same elements.
LEMMA PrefixIsSeq ==
    ASSUME NEW S, NEW s \in Seq(S), NEW n \in 0..Len(s)
    PROVE  /\ SubSeq(s, 1, n) \in Seq(S)
           /\ \A i \in DOMAIN SubSeq(s, 1, n) : i \in DOMAIN s /\ SubSeq(s, 1, n)[i] = s[i]
<1>1. Len(s) \in Nat /\ DOMAIN s = 1..Len(s)
    BY LenProperties
<1>2. \A i \in 1..n : s[i] \in S
    BY <1>1, ElementOfSeq
<1>3. SubSeq(s, 1, n) \in Seq(S) /\ Len(SubSeq(s, 1, n)) = n
        /\ \A i \in 1..n : SubSeq(s, 1, n)[i] = s[i]
    BY <1>1, <1>2, SubSeqProperties
<1>4. DOMAIN SubSeq(s, 1, n) = 1..n
    BY <1>3, LenProperties
<1>5. QED
    BY <1>1, <1>3, <1>4

\* The same of a sequence with a gap, which a full authentication buffer leaves.
LEMMA GapIsSeq ==
    ASSUME NEW S, NEW s \in Seq(S), NEW k \in Nat, NEW n \in 0..Len(s), k < n
    PROVE  LET t == SubSeq(s, 1, k) \o SubSeq(s, n + 1, Len(s))
           IN  t \in Seq(S) /\ \A i \in DOMAIN t : \E j \in DOMAIN s : t[i] = s[j]
<1> DEFINE u == SubSeq(s, 1, k)
           v == SubSeq(s, n + 1, Len(s))
<1>1. Len(s) \in Nat /\ DOMAIN s = 1..Len(s)
    BY LenProperties
<1>2. u \in Seq(S) /\ \A i \in DOMAIN u : i \in DOMAIN s /\ u[i] = s[i]
    BY <1>1, PrefixIsSeq
<1>3. \A i \in (n + 1)..Len(s) : s[i] \in S
    BY <1>1, ElementOfSeq
<1>4. /\ v \in Seq(S)
      /\ Len(v) = IF n + 1 <= Len(s) THEN Len(s) - (n + 1) + 1 ELSE 0
      /\ \A i \in 1..(Len(s) - (n + 1) + 1) : v[i] = s[n + 1 + i - 1]
    BY <1>1, <1>3, SubSeqProperties
<1>5. /\ u \o v \in Seq(S)
      /\ Len(u \o v) = Len(u) + Len(v)
      /\ \A i \in 1..(Len(u) + Len(v)) :
            (u \o v)[i] = IF i <= Len(u) THEN u[i] ELSE v[i - Len(u)]
    BY <1>2, <1>4, ConcatProperties
<1>6. Len(u) \in Nat /\ DOMAIN u = 1..Len(u) /\ DOMAIN (u \o v) = 1..Len(u \o v)
    BY <1>2, <1>5, LenProperties
<1> HIDE DEF u, v
<1>7. Len(v) = Len(s) - n /\ \A i \in 1..(Len(s) - n) : v[i] = s[n + i]
    <2>1. Len(s) - (n + 1) + 1 = Len(s) - n
        BY <1>1
    <2>2. ASSUME NEW i \in 1..(Len(s) - n)
          PROVE  v[i] = s[n + i]
        <3>1. n + 1 + i - 1 = n + i
            BY <1>1
        <3>2. QED
            BY <1>4, <2>1, <3>1
    <2>3. Len(v) = Len(s) - n
        <3>1. n \in Nat /\ Len(s) \in Nat /\ n <= Len(s)
            BY <1>1
        <3>2. CASE n + 1 <= Len(s)
            BY <1>4, <2>1, <3>2
        <3>3. CASE n = Len(s)
            BY <1>4, <3>1, <3>3
        <3>4. QED
            BY <3>1, <3>2, <3>3
    <2>4. QED
        BY <2>2, <2>3
<1>8. ASSUME NEW i \in DOMAIN (u \o v)
      PROVE  \E j \in DOMAIN s : (u \o v)[i] = s[j]
    <2>0. i \in 1..(Len(u) + Len(v))
        BY <1>5, <1>6
    <2>1. CASE i <= Len(u)
        BY <1>2, <1>5, <1>6, <2>0, <2>1
    <2>2. CASE i > Len(u)
        <3>1. i - Len(u) \in 1..(Len(s) - n) /\ n + (i - Len(u)) \in 1..Len(s)
            BY <1>1, <1>6, <1>7, <2>0, <2>2
        <3>2. (u \o v)[i] = v[i - Len(u)]
            BY <1>5, <1>6, <2>0, <2>2
        <3>3. QED
            BY <1>1, <1>7, <3>1, <3>2
    <2>3. QED
        BY <1>6, <2>0, <2>1, <2>2
<1>9. QED
    BY <1>5, <1>8 DEF u, v

\* What selecting and renumbering entries makes of a set of them.
LEMMA EntrySets ==
    ASSUME NEW E, E \subseteq Entry, NEW n \in Nat
    PROVE  /\ Above(E, n) \subseteq E /\ Above(E, n) \subseteq Entry
           /\ Shifted(E, n) \subseteq Entry
           /\ Ids(E) \subseteq 1..MaxId
BY DEF Entry, Above, Shifted, Ids

\* The fields of a frame.
LEMMA FrameFields ==
    ASSUME NEW f \in Frame
    PROVE  /\ f.seq \in Nat
           /\ f.kind = "hello" => f.resume \in Nat
           /\ f.kind # "hello" => f.id \in 0..MaxId
BY DEF Frame, Hello, Data

\* What agentd writes to a socket is a frame.
LEMMA FramesWritten ==
    /\ \A m \in Entry : DataFrame(m) \in Frame /\ DataFrame(m).seq = m.seq
    /\ \A n \in Nat : [kind |-> "data", seq |-> n, id |-> 0] \in Frame
    /\ lastAcked \in Nat => HelloFrame \in Frame /\ HelloFrame.seq = Larger(lastAcked, 1)
<1>1. \A m \in Entry : DataFrame(m) \in Frame /\ DataFrame(m).seq = m.seq
    BY LinkAssumption DEF Entry, DataFrame, Frame, Data
<1>2. \A n \in Nat : [kind |-> "data", seq |-> n, id |-> 0] \in Frame
    BY LinkAssumption DEF Frame, Data
<1>3. ASSUME lastAcked \in Nat
      PROVE  HelloFrame \in Frame /\ HelloFrame.seq = Larger(lastAcked, 1)
    BY <1>3, LargerIsMax DEF HelloFrame, Frame, Hello
<1>4. QED
    BY <1>1, <1>2, <1>3

\* The head of a socket's frames, and what is left behind it.
LEMMA HeadFrame ==
    ASSUME TypeOK, NEW c \in Conns, c2s[c] # <<>>
    PROVE  NextFrame(c) \in Frame /\ Tail(c2s[c]) \in Seq(Frame)
BY HeadTailProperties DEF TypeOK, NextFrame

\* Start-up leaves entries in the queue and the file, puts the counter above
\* both and above the cursor, and at least at the hello's number.
LEMMA StartupFacts ==
    ASSUME disk \subseteq Entry, forgot \subseteq 1..MaxId,
           NEW acked \in Nat, Startup(disk, acked)
    PROVE  /\ queue' \subseteq Entry /\ disk' \subseteq Entry /\ forgot' \subseteq 1..MaxId
           /\ seq' \in Nat /\ lastAcked' = acked /\ ackedFile' = acked
           /\ acked <= seq' /\ 1 <= seq'
           /\ \A m \in queue' \cup disk' : m.seq <= seq'
<1> DEFINE live == Above(disk, acked)
           offsets == {Larger(acked, 1) + 1 - m.seq : m \in live} \cap Nat
<1>1. live \subseteq disk /\ live \subseteq Entry
    BY EntrySets
<1>2. PICK kept \in {live} \cup {Shifted(live, n) : n \in offsets} :
        /\ queue' = kept
        /\ IF kept = live THEN disk' \in {disk, live} ELSE disk' = kept
        /\ \E n \in Seqs(disk), k \in Seqs(kept) :
            /\ IsMaxSeq(n, disk) /\ IsMaxSeq(k, kept)
            /\ seq' = FirstCounter(n, k, acked)
        /\ lastAcked' = acked
        /\ ackedFile' = acked
        /\ forgot' = forgot \cup (Ids(disk \ live) \ applied)
    BY DEF Startup
<1>3. kept \subseteq Entry
    <2>1. CASE kept = live
        BY <1>1, <2>1
    <2>2. CASE kept # live
        <3>1. PICK n \in offsets : kept = Shifted(live, n)
            BY <2>2
        <3>2. n \in Nat
            OBVIOUS
        <3>3. QED
            BY <1>1, <3>1, <3>2, EntrySets
    <2>3. QED
        BY <2>1, <2>2
<1>4. queue' \subseteq Entry /\ disk' \subseteq Entry /\ disk' \subseteq disk \cup kept
    BY <1>1, <1>2, <1>3
<1>5. forgot' \subseteq 1..MaxId
    <2>1. Ids(disk \ live) \subseteq 1..MaxId
        BY EntrySets
    <2>2. QED
        BY <1>2, <2>1
<1>6. PICK n \in Seqs(disk), k \in Seqs(kept) :
        /\ IsMaxSeq(n, disk) /\ IsMaxSeq(k, kept)
        /\ seq' = FirstCounter(n, k, acked)
    BY <1>2
<1>7. n \in Nat /\ k \in Nat
    BY <1>3 DEF Seqs, Entry, None
<1>8. /\ seq' \in Nat /\ n <= seq' /\ k <= seq' /\ acked <= seq' /\ 1 <= seq'
    BY <1>6, <1>7 DEF FirstCounter, Larger
<1>9. (\A m \in disk : m.seq <= n) /\ (\A m \in kept : m.seq <= k)
    BY <1>6 DEF IsMaxSeq
<1>10. \A m \in queue' \cup disk' : m.seq <= seq'
    <2>1. \A m \in disk \cup kept : m.seq \in Nat
        BY <1>3 DEF Entry
    <2>2. \A m \in disk \cup kept : m.seq <= seq'
        BY <1>7, <1>8, <1>9, <2>1
    <2>3. QED
        BY <1>2, <1>4, <2>2
<1>11. QED
    BY <1>2, <1>4, <1>5, <1>8, <1>10

-----------------------------------------------------------------------------
\* Type correctness.

\* Two fresh processes with an empty queue file and no connection are typed.
LEMMA TypeInit == Init => TypeOK
<1> SUFFICES ASSUME Init PROVE TypeOK
    OBVIOUS
<1> USE LinkAssumption
<1>1. LegacyFile \subseteq Entry
    BY DEF LegacyFile, Entry
<1>2. Shifted(LegacyFile, 1) \subseteq Entry
    BY <1>1, EntrySets
<1>3. queue \subseteq Entry /\ disk \subseteq Entry /\ todo \subseteq Entry
    BY <1>1, <1>2 DEF Init
<1>4. c2s \in [Conns -> Seq(Frame)] /\ s2c \in [Conns -> Seq(Nat)]
    BY DEF Init
<1>5. dbAcked \in Nat /\ noted \in Nat
    BY DEF Init
<1>6. applied \subseteq 1..MaxId
    BY DEF Init
<1>7. /\ phase \in [Conns -> {"none", "preauth", "open", "failed"}]
      /\ lastProc \in [Conns -> Nat] /\ inHandler \in [Conns -> Nat]
    BY DEF Init, None
<1>8. seq \in Nat /\ nextId \in 0..MaxId
    BY DEF Init
<1>9. QED
    BY <1>3, <1>4, <1>5, <1>6, <1>7, <1>8 DEF Init, TypeOK, None

\* Writing a frame to the socket, or not, leaves sequences of frames.
LEMMA WriteType ==
    ASSUME TypeOK, NEW f \in Frame, WriteIfReady(f)
    PROVE  c2s' \in [Conns -> Seq(Frame)]
<1>1. CASE conn # None /\ ready
    <2>1. conn \in Conns /\ c2s[conn] \in Seq(Frame)
        BY <1>1 DEF TypeOK
    <2>2. Append(c2s[conn], f) \in Seq(Frame)
        BY <2>1, AppendProperties
    <2>3. QED
        BY <1>1, <2>1, <2>2 DEF TypeOK, WriteIfReady
<1>2. CASE ~(conn # None /\ ready)
    BY <1>2 DEF TypeOK, WriteIfReady
<1>3. QED
    BY <1>1, <1>2

\* Acknowledging a number, or not, leaves sequences of numbers.
LEMMA AckType ==
    ASSUME TypeOK, NEW c \in Conns, NEW n \in Nat, SendAck(c, n)
    PROVE  s2c' \in [Conns -> Seq(Nat)]
<1>1. s2c[c] \in Seq(Nat)
    BY DEF TypeOK
<1>2. Append(s2c[c], n) \in Seq(Nat)
    BY <1>1, AppendProperties
<1>3. QED
    BY <1>2 DEF TypeOK, SendAck

\* Ending one connection.
LEMMA DisconnectedType ==
    ASSUME TypeOK, NEW c \in Conns, Disconnected(c)
    PROVE  conn' \in Conns \cup {None} /\ ready' \in BOOLEAN /\ s2c' \in [Conns -> Seq(Nat)]
<1>1. CASE c = conn
    <2>1. s2c' = [s2c EXCEPT ![c] = <<>>] /\ conn' = None /\ ready' = FALSE
        BY <1>1 DEF Disconnected
    <2>2. <<>> \in Seq(Nat) /\ s2c \in [Conns -> Seq(Nat)]
        BY EmptySeq DEF TypeOK
    <2>3. s2c' \in [Conns -> Seq(Nat)]
        BY <2>1, <2>2
    <2>4. QED
        BY <2>1, <2>3
<1>2. CASE c # conn
    BY <1>2 DEF TypeOK, Disconnected
<1>3. QED
    BY <1>1, <1>2

\* A connection that keeps a prefix of its frames still holds frames.
LEMMA LoseFramesType ==
    ASSUME TypeOK, NEW c \in Conns, LoseFrames(c)
    PROVE  c2s' \in [Conns -> Seq(Frame)]
<1>1. PICK n \in 0..Len(c2s[c]) : c2s' = [c2s EXCEPT ![c] = SubSeq(@, 1, n)]
    BY DEF LoseFrames
<1>2. SubSeq(c2s[c], 1, n) \in Seq(Frame)
    BY PrefixIsSeq DEF TypeOK
<1>3. QED
    BY <1>1, <1>2 DEF TypeOK

\* Every handler, replay step, file write, fault and restart preserves the types.
LEMMA TypeStep == TypeOK /\ [Next]_vars => TypeOK'
<1> SUFFICES ASSUME TypeOK, [Next]_vars PROVE TypeOK'
    OBVIOUS
<1> USE LinkAssumption
<1>1. CASE SendDurable
    <2> DEFINE m == [seq |-> seq + 1, id |-> nextId + 1]
    <2>1. m \in Entry
        BY <1>1 DEF SendDurable, TypeOK, Entry
    <2>2. c2s' \in [Conns -> Seq(Frame)]
        BY <1>1, <2>1, WriteType, FramesWritten DEF SendDurable
    <2>3. queue' \subseteq Entry /\ disk' \subseteq Entry /\ evicted' \subseteq 1..MaxId
        <3>1. CASE Cardinality(queue) >= QueueCap
            <4>1. PICK old \in queue :
                    /\ queue' = (queue \ {old}) \cup {m} /\ disk' = queue'
                    /\ evicted' = evicted \cup ({old.id} \ applied)
                BY <1>1, <3>1 DEF SendDurable
            <4>2. old.id \in 1..MaxId
                BY DEF TypeOK, Entry
            <4> HIDE DEF m
            <4>3. QED
                BY <2>1, <4>1, <4>2 DEF TypeOK
        <3>2. CASE ~(Cardinality(queue) >= QueueCap)
            <4>1. queue' = queue \cup {m} /\ disk' = disk \cup {m} /\ evicted' = evicted
                BY <1>1, <3>2 DEF SendDurable
            <4> HIDE DEF m
            <4>2. QED
                BY <2>1, <4>1 DEF TypeOK
        <3>3. QED
            BY <3>1, <3>2
    <2>4. seq' \in Nat /\ nextId' \in 0..MaxId
        BY <1>1 DEF SendDurable, TypeOK
    <2>5. QED
        BY <1>1, <2>2, <2>3, <2>4 DEF SendDurable, TypeOK, serverVars
<1>2. CASE SendVolatile
    <2>1. c2s' \in [Conns -> Seq(Frame)]
        <3>1. [kind |-> "data", seq |-> seq + 1, id |-> 0] \in Frame
            BY FramesWritten DEF TypeOK
        <3>2. QED
            BY <1>2, <3>1, WriteType DEF SendVolatile
    <2>2. QED
        BY <1>2, <2>1 DEF SendVolatile, TypeOK, serverVars
<1>3. CASE Connect
    <2>1. nConn + 1 \in Conns /\ nConn' \in Nat /\ nHello' \in Nat
        BY <1>3 DEF Connect, TypeOK
    <2>2. phase' \in [Conns -> {"none", "preauth", "open", "failed"}]
        BY <1>3, <2>1 DEF Connect, TypeOK
    <2>3. QED
        BY <1>3, <2>1, <2>2 DEF Connect, TypeOK
<1>4. CASE SendHello
    <2>1. c2s' \in [Conns -> Seq(Frame)]
        <3>1. CASE conn = None
            BY <1>4, <3>1 DEF SendHello, TypeOK
        <3>2. CASE conn # None
            <4>1. conn \in Conns /\ HelloFrame \in Frame
                BY <3>2, FramesWritten DEF TypeOK
            <4>2. c2s' = [c2s EXCEPT ![conn] = Append(@, HelloFrame)]
                BY <1>4, <3>2 DEF SendHello
            <4>3. QED
                BY <4>1, <4>2, AppendProperties DEF TypeOK
        <3>3. QED
            BY <3>1, <3>2
    <2>2. nHello' \in Nat /\ nResend' \in Nat
        BY <1>4 DEF SendHello, TypeOK
    <2>3. QED
        BY <1>4, <2>1, <2>2 DEF SendHello, TypeOK, serverVars, historyVars
<1>5. CASE StartReplay
    BY <1>5 DEF StartReplay, TypeOK, serverVars, historyVars, None
<1>6. CASE ReplayEntry
    <2>1. PICK m \in todo : c2s' = [c2s EXCEPT ![conn] = Append(@, DataFrame(m))]
                              /\ todo' = todo \ {m}
        BY <1>6 DEF ReplayEntry
    <2>2. conn \in Conns /\ DataFrame(m) \in Frame
        BY <1>6, FramesWritten DEF ReplayEntry, TypeOK
    <2>3. c2s' \in [Conns -> Seq(Frame)]
        BY <2>1, <2>2, AppendProperties DEF TypeOK
    <2>4. QED
        BY <1>6, <2>1, <2>2, <2>3 DEF ReplayEntry, TypeOK, serverVars
<1>7. CASE EndReplay
    BY <1>7 DEF EndReplay, TypeOK, serverVars, None
<1>8. CASE RecvAck
    <2> DEFINE ack == Head(s2c[conn])
               kept == Above(queue, ack)
    <2>1. conn \in Conns /\ ack \in Nat /\ Tail(s2c[conn]) \in Seq(Nat)
        BY <1>8, HeadTailProperties DEF RecvAck, TypeOK
    <2>2. kept \subseteq Entry /\ Ids(queue \ kept) \subseteq 1..MaxId
        BY <2>1, EntrySets DEF TypeOK
    <2>3. lastAcked' \in Nat
        BY <1>8, <2>1, LargerIsMax DEF RecvAck, TypeOK
    <2>4. /\ queue' = kept /\ disk' \in {disk} \cup {d \in {kept} : kept # queue}
          /\ forgot' = forgot \cup (Ids(queue \ kept) \ applied)
          /\ saving' = ack /\ s2c' = [s2c EXCEPT ![conn] = Tail(@)]
        BY <1>8 DEF RecvAck
    <2> HIDE DEF ack, kept
    <2>5. QED
        BY <1>8, <2>1, <2>2, <2>3, <2>4 DEF RecvAck, TypeOK, serverVars
<1>9. CASE SaveAck
    BY <1>9 DEF SaveAck, TypeOK, serverVars, historyVars, None
<1>10. ASSUME NEW c \in Conns, Authenticate(c) PROVE TypeOK'
    <2>1. PICK n \in 0..Len(c2s[c]) :
            IF n <= AuthBuffer
            THEN UNCHANGED <<c2s, suspect>>
            ELSE /\ c2s' = [c2s EXCEPT ![c] = SubSeq(@, 1, AuthBuffer) \o SubSeq(@, n + 1, Len(@))]
                 /\ suspect' = suspect \cup {"authBuffer"}
        BY <1>10 DEF Authenticate
    <2>2. c2s' \in [Conns -> Seq(Frame)]
        <3>1. CASE n <= AuthBuffer
            BY <2>1, <3>1 DEF TypeOK
        <3>2. CASE ~(n <= AuthBuffer)
            <4>1. AuthBuffer < n /\ c2s[c] \in Seq(Frame)
                BY <3>2, LenProperties DEF TypeOK
            <4>2. SubSeq(c2s[c], 1, AuthBuffer) \o SubSeq(c2s[c], n + 1, Len(c2s[c])) \in Seq(Frame)
                BY <4>1, GapIsSeq
            <4>3. QED
                BY <2>1, <3>2, <4>2 DEF TypeOK
        <3>3. QED
            BY <3>1, <3>2
    <2>3. QED
        BY <1>10, <2>1, <2>2 DEF Authenticate, TypeOK, agentVars
<1>11. ASSUME NEW c \in Conns, AckRedelivery(c) PROVE TypeOK'
    <2>1. NextFrame(c) \in Frame /\ Tail(c2s[c]) \in Seq(Frame)
        BY <1>11, HeadFrame DEF AckRedelivery, CanHandle
    <2>2. c2s' \in [Conns -> Seq(Frame)]
        BY <1>11, <2>1 DEF AckRedelivery, TakeFrame, TypeOK
    <2>3. s2c' \in [Conns -> Seq(Nat)]
        BY <1>11, <2>1, FrameFields, AckType DEF AckRedelivery
    <2>4. QED
        BY <1>11, <2>2, <2>3 DEF AckRedelivery, TypeOK, agentVars, serverVars, historyVars
<1>12. ASSUME NEW c \in Conns, Handle(c) PROVE TypeOK'
    <2> DEFINE f == NextFrame(c)
    <2>1. f \in Frame /\ Tail(c2s[c]) \in Seq(Frame)
        BY <1>12, HeadFrame DEF Handle, CanHandle
    <2>2. c2s' \in [Conns -> Seq(Frame)]
        BY <1>12, <2>1 DEF Handle, TakeFrame, TypeOK
    <2>3. inHandler' \in [Conns -> Nat]
        BY <1>12, <2>1, FrameFields DEF Handle, TypeOK
    <2>4. lastProc' \in [Conns -> Nat] /\ applied' \subseteq 1..MaxId
        <3>1. CASE f.kind = "hello"
            <4>1. Larger(dbAcked, f.resume) \in Nat
                BY <2>1, <3>1, FrameFields, LargerIsMax DEF TypeOK
            <4>2. QED
                BY <1>12, <3>1, <4>1 DEF Handle, TypeOK
        <3>2. CASE f.kind # "hello"
            <4>1. f.id \in 0..MaxId
                BY <2>1, <3>2, FrameFields
            <4>2. applied' = applied \cup ({f.id} \ {0}) /\ lastProc' = lastProc
                BY <1>12, <3>2 DEF Handle
            <4>3. {f.id} \ {0} \subseteq 1..MaxId
                BY <4>1
            <4> HIDE DEF f
            <4>4. QED
                BY <4>2, <4>3 DEF TypeOK
        <3>3. QED
            BY <3>1, <3>2
    <2>5. QED
        BY <1>12, <2>2, <2>3, <2>4 DEF Handle, TypeOK, agentVars, historyVars
<1>13. ASSUME NEW c \in Conns, FinishHandler(c) PROVE TypeOK'
    <2>1. inHandler[c] \in Nat
        BY DEF TypeOK
    <2>2. s2c' \in [Conns -> Seq(Nat)]
        BY <1>13, <2>1, AckType DEF FinishHandler
    <2>3. Larger(noted, inHandler[c]) \in Nat
        BY <2>1, LargerIsMax DEF TypeOK
    <2>4. lastProc' \in [Conns -> Nat] /\ inHandler' \in [Conns -> Nat] /\ noted' \in Nat
        BY <1>13, <2>1, <2>3 DEF FinishHandler, TypeOK, None
    <2>5. QED
        BY <1>13, <2>2, <2>4 DEF FinishHandler, TypeOK, agentVars, historyVars
<1>14. CASE Persist
    BY <1>14 DEF Persist, TypeOK, agentVars, historyVars
<1>15. CASE Drop
    <2>1. conn \in Conns
        BY <1>15 DEF Drop, TypeOK
    <2>2. c2s' \in [Conns -> Seq(Frame)]
        BY <1>15, <2>1, LoseFramesType DEF Drop
    <2>3. conn' \in Conns \cup {None} /\ ready' \in BOOLEAN /\ s2c' \in [Conns -> Seq(Nat)]
        BY <1>15, <2>1, DisconnectedType DEF Drop
    <2>4. nFaults' \in Nat
        BY <1>15 DEF Drop, Fault, TypeOK
    <2>5. QED
        BY <1>15, <2>2, <2>3, <2>4 DEF Drop, TypeOK, serverVars
<1>16. ASSUME NEW c \in Conns, HandlerFails(c) PROVE TypeOK'
    <2>1. conn' \in Conns \cup {None} /\ ready' \in BOOLEAN /\ s2c' \in [Conns -> Seq(Nat)]
        BY <1>16, DisconnectedType DEF HandlerFails
    <2>2. /\ c2s' \in [Conns -> Seq(Frame)] /\ inHandler' \in [Conns -> Nat]
          /\ phase' \in [Conns -> {"none", "preauth", "open", "failed"}]
        BY <1>16 DEF HandlerFails, TypeOK, None
    <2>3. nFaults' \in Nat
        BY <1>16 DEF HandlerFails, Fault, TypeOK
    <2>4. QED
        BY <1>16, <2>1, <2>2, <2>3 DEF HandlerFails, TypeOK
<1>17. CASE ServerRestart
    <2>1. /\ c2s' \in [Conns -> Seq(Frame)] /\ s2c' \in [Conns -> Seq(Nat)]
          /\ inHandler' \in [Conns -> Nat] /\ lastProc' \in [Conns -> Nat]
          /\ phase' \in [Conns -> {"none", "preauth", "open", "failed"}]
        BY <1>17 DEF ServerRestart, TypeOK, None
    <2>2. nFaults' \in Nat
        BY <1>17 DEF ServerRestart, Fault, TypeOK
    <2>3. noted' \in Nat
        BY <1>17 DEF ServerRestart, TypeOK
    <2>4. QED
        BY <1>17, <2>1, <2>2, <2>3 DEF ServerRestart, TypeOK, None
<1>18. CASE AgentRestart
    <2>1. PICK acked \in {ackedFile} \cup {n \in {0} : saving # None} : Startup(disk, acked)
        BY <1>18 DEF AgentRestart
    <2>2. acked \in Nat
        BY DEF TypeOK
    <2>3. /\ queue' \subseteq Entry /\ disk' \subseteq Entry /\ forgot' \subseteq 1..MaxId
          /\ seq' \in Nat /\ lastAcked' \in Nat /\ ackedFile' \in Nat
        BY <2>1, <2>2, StartupFacts DEF TypeOK
    <2>4. c2s' \in [Conns -> Seq(Frame)]
        BY <1>18, LoseFramesType DEF AgentRestart, TypeOK
    <2>5. s2c' \in [Conns -> Seq(Nat)]
        BY <1>18 DEF AgentRestart
    <2>6. nFaults' \in Nat
        BY <1>18 DEF AgentRestart, Fault, TypeOK
    <2>7. QED
        BY <1>18, <2>3, <2>4, <2>5, <2>6 DEF AgentRestart, TypeOK, serverVars, None
<1>19. CASE UNCHANGED vars
    BY <1>19 DEF vars, agentVars, serverVars, historyVars, TypeOK
<1>20. QED
    BY <1>1, <1>2, <1>3, <1>4, <1>5, <1>6, <1>7, <1>8, <1>9, <1>10, <1>11, <1>12, <1>13,
       <1>14, <1>15, <1>16, <1>17, <1>18, <1>19
       DEF Next, AgentNext, ServerNext, FaultNext

\* Every variable of the link keeps its type: what travels on a socket is a
\* frame or a number, and no queue, file or cursor holds anything else, through
\* every replay, fault and restart.
THEOREM TypeCorrect == Spec => []TypeOK
<1>1. QED
    BY TypeInit, TypeStep, PTL DEF Spec

-----------------------------------------------------------------------------
\* The counter stays above the local files.
\*
\* CounterAboveLocal is not inductive: lastAcked takes the number of an
\* acknowledgement, so acknowledgements on the current connection must not be
\* above the counter either, hence neither the frames they answer.  Nothing
\* can be said of older connections, whose numbers a restart may have lost,
\* and nothing needs to be: their acknowledgements reach nobody.

FramesUpTo(q, n) == \A i \in DOMAIN q : q[i].seq <= n
AcksUpTo(q, n) == \A i \in DOMAIN q : q[i] <= n

FreshSockets ==
    /\ conn <= nConn
    /\ \A c \in Conns : c > nConn => c2s[c] = <<>> /\ s2c[c] = <<>> /\ inHandler[c] = None

CurrentTraffic ==
    conn # None =>
        /\ inHandler[conn] <= seq
        /\ FramesUpTo(c2s[conn], seq)
        /\ AcksUpTo(s2c[conn], seq)

CounterInv == CounterAboveLocal /\ 1 <= seq /\ FreshSockets /\ CurrentTraffic

\* A higher bound, one more element, one less, and a prefix.
LEMMA FramesBounded ==
    ASSUME NEW q \in Seq(Frame), NEW n \in Nat, FramesUpTo(q, n)
    PROVE  /\ \A k \in Nat : n <= k => FramesUpTo(q, k)
           /\ \A f \in Frame : f.seq <= n => FramesUpTo(Append(q, f), n)
           /\ q # <<>> => Head(q).seq <= n /\ FramesUpTo(Tail(q), n)
           /\ \A k \in 0..Len(q) : FramesUpTo(SubSeq(q, 1, k), n)
<1>1. DOMAIN q = 1..Len(q) /\ Len(q) \in Nat /\ \A i \in DOMAIN q : q[i] \in Frame /\ q[i].seq \in Nat
    BY LenProperties, ElementOfSeq, FrameFields
<1>2. ASSUME NEW k \in Nat, n <= k PROVE FramesUpTo(q, k)
    BY <1>1, <1>2 DEF FramesUpTo
<1>3. ASSUME NEW f \in Frame, f.seq <= n PROVE FramesUpTo(Append(q, f), n)
    <2>1. /\ Append(q, f) \in Seq(Frame) /\ Len(Append(q, f)) = Len(q) + 1
          /\ \A i \in 1..Len(q) : Append(q, f)[i] = q[i]
          /\ Append(q, f)[Len(q) + 1] = f
        BY AppendProperties
    <2>2. DOMAIN Append(q, f) = 1..(Len(q) + 1)
        BY <2>1, LenProperties
    <2>3. QED
        BY <1>1, <1>3, <2>1, <2>2 DEF FramesUpTo
<1>4. ASSUME q # <<>> PROVE Head(q).seq <= n /\ FramesUpTo(Tail(q), n)
    <2>1. /\ Tail(q) \in Seq(Frame) /\ Len(Tail(q)) = Len(q) - 1
          /\ \A i \in 1..Len(Tail(q)) : Tail(q)[i] = q[i + 1]
        BY <1>4, HeadTailProperties
    <2>2. Len(q) # 0 /\ Head(q) = q[1]
        BY <1>4, EmptySeq
    <2>3. DOMAIN Tail(q) = 1..(Len(q) - 1)
        BY <2>1, LenProperties
    <2>4. ASSUME NEW i \in DOMAIN Tail(q) PROVE Tail(q)[i].seq <= n
        <3>1. i + 1 \in DOMAIN q /\ Tail(q)[i] = q[i + 1]
            BY <1>1, <2>1, <2>3
        <3>2. QED
            BY <3>1 DEF FramesUpTo
    <2>5. QED
        BY <1>1, <2>2, <2>4 DEF FramesUpTo
<1>5. ASSUME NEW k \in 0..Len(q) PROVE FramesUpTo(SubSeq(q, 1, k), n)
    BY PrefixIsSeq DEF FramesUpTo
<1>6. QED
    BY <1>2, <1>3, <1>4, <1>5

\* The same of the acknowledgements that are on their way.
LEMMA AcksBounded ==
    ASSUME NEW q \in Seq(Nat), NEW n \in Nat, AcksUpTo(q, n)
    PROVE  /\ \A k \in Nat : n <= k => AcksUpTo(q, k)
           /\ \A a \in Nat : a <= n => AcksUpTo(Append(q, a), n)
           /\ q # <<>> => Head(q) <= n /\ AcksUpTo(Tail(q), n)
<1>1. DOMAIN q = 1..Len(q) /\ Len(q) \in Nat /\ \A i \in DOMAIN q : q[i] \in Nat
    BY LenProperties, ElementOfSeq
<1>2. ASSUME NEW k \in Nat, n <= k PROVE AcksUpTo(q, k)
    BY <1>1, <1>2 DEF AcksUpTo
<1>3. ASSUME NEW a \in Nat, a <= n PROVE AcksUpTo(Append(q, a), n)
    <2>1. /\ Append(q, a) \in Seq(Nat) /\ Len(Append(q, a)) = Len(q) + 1
          /\ \A i \in 1..Len(q) : Append(q, a)[i] = q[i]
          /\ Append(q, a)[Len(q) + 1] = a
        BY AppendProperties
    <2>2. DOMAIN Append(q, a) = 1..(Len(q) + 1)
        BY <2>1, LenProperties
    <2>3. QED
        BY <1>1, <1>3, <2>1, <2>2 DEF AcksUpTo
<1>4. ASSUME q # <<>> PROVE Head(q) <= n /\ AcksUpTo(Tail(q), n)
    <2>1. /\ Tail(q) \in Seq(Nat) /\ Len(Tail(q)) = Len(q) - 1
          /\ \A i \in 1..Len(Tail(q)) : Tail(q)[i] = q[i + 1]
        BY <1>4, HeadTailProperties
    <2>2. Len(q) # 0 /\ Head(q) = q[1]
        BY <1>4, EmptySeq
    <2>3. DOMAIN Tail(q) = 1..(Len(q) - 1)
        BY <2>1, LenProperties
    <2>4. ASSUME NEW i \in DOMAIN Tail(q) PROVE Tail(q)[i] <= n
        <3>1. i + 1 \in DOMAIN q /\ Tail(q)[i] = q[i + 1]
            BY <1>1, <2>1, <2>3
        <3>2. QED
            BY <3>1 DEF AcksUpTo
    <2>5. QED
        BY <1>1, <2>2, <2>4 DEF AcksUpTo
<1>5. QED
    BY <1>2, <1>3, <1>4

\* Numbering starts at 1 with nothing stored and nothing on the wire.
LEMMA CounterInit == Init => CounterInv
<1> SUFFICES ASSUME Init PROVE CounterInv
    OBVIOUS
<1> USE LinkAssumption
<1>1. \A m \in LegacyFile : m.seq \in 1..Legacy
    BY DEF LegacyFile
<1>2. \A m \in Shifted(LegacyFile, 1) : m.seq \in 1..(Legacy + 1)
    <2>1. \A l \in LegacyFile : l \in [seq : Nat, id : 1..MaxId]
        BY DEF LegacyFile
    <2>2. \A l \in LegacyFile : [l EXCEPT !.seq = @ + 1].seq = l.seq + 1
        BY <2>1
    <2>3. ASSUME NEW m \in Shifted(LegacyFile, 1) PROVE m.seq \in 1..(Legacy + 1)
        <3>1. PICK l \in LegacyFile : m = [l EXCEPT !.seq = @ + 1]
            BY DEF Shifted
        <3>2. m.seq = l.seq + 1 /\ l.seq \in 1..Legacy
            BY <1>1, <2>2, <3>1
        <3>3. QED
            BY <3>2
    <2>4. QED
        BY <2>3
<1>3. \A m \in queue \cup disk \cup todo : m.seq <= seq
    BY <1>1, <1>2 DEF Init
<1>4. CounterAboveLocal /\ 1 <= seq
    BY <1>3 DEF Init, CounterAboveLocal, None
<1>5. FreshSockets /\ CurrentTraffic
    BY DEF Init, FreshSockets, CurrentTraffic, None
<1>6. QED
    BY <1>4, <1>5 DEF CounterInv

\* A write to the socket touches the current connection only, and keeps its
\* frames below a bound that covers the one written.
LEMMA WriteBounded ==
    ASSUME TypeOK, CurrentTraffic, NEW f \in Frame, WriteIfReady(f),
           NEW n \in Nat, seq <= n, f.seq <= n
    PROVE  /\ conn # None => FramesUpTo(c2s'[conn], n)
           /\ \A c \in Conns : c # conn => c2s'[c] = c2s[c]
<1>1. CASE conn # None /\ ready
    <2>1. conn \in Conns /\ c2s[conn] \in Seq(Frame) /\ seq \in Nat
        BY <1>1 DEF TypeOK
    <2>2. FramesUpTo(c2s[conn], n)
        BY <1>1, <2>1, FramesBounded DEF CurrentTraffic
    <2>3. c2s' = [c2s EXCEPT ![conn] = Append(@, f)]
        BY <1>1 DEF WriteIfReady
    <2>4. c2s'[conn] = Append(c2s[conn], f)
        BY <2>1, <2>3 DEF TypeOK
    <2>5. FramesUpTo(Append(c2s[conn], f), n)
        BY <2>1, <2>2, FramesBounded
    <2>6. QED
        BY <2>3, <2>4, <2>5 DEF TypeOK
<1>2. CASE ~(conn # None /\ ready)
    <2>1. c2s' = c2s
        BY <1>2 DEF WriteIfReady
    <2>2. conn # None => conn \in Conns /\ c2s[conn] \in Seq(Frame) /\ seq \in Nat
        BY DEF TypeOK
    <2>3. conn # None => FramesUpTo(c2s[conn], n)
        BY <2>2, FramesBounded DEF CurrentTraffic
    <2>4. QED
        BY <2>1, <2>3
<1>3. QED
    BY <1>1, <1>2

\* Acknowledging a number below the bound.
LEMMA AckBounded ==
    ASSUME TypeOK, NEW c \in Conns, NEW a \in Nat, SendAck(c, a), CurrentTraffic,
           c = conn => a <= seq
    PROVE  /\ conn # None => AcksUpTo(s2c'[conn], seq)
           /\ \A d \in Conns : d # c => s2c'[d] = s2c[d]
<1>0. seq \in Nat
    BY DEF TypeOK
<1>1. CASE c = conn
    <2>1. s2c' = [s2c EXCEPT ![c] = Append(@, a)] /\ s2c[c] \in Seq(Nat) /\ conn # None
        BY <1>1 DEF SendAck, TypeOK, Conns, None
    <2>2. s2c'[c] = Append(s2c[c], a)
        BY <2>1 DEF TypeOK
    <2>3. AcksUpTo(Append(s2c[c], a), seq)
        BY <1>0, <1>1, <2>1, AcksBounded DEF CurrentTraffic
    <2>4. QED
        BY <1>1, <2>1, <2>2, <2>3 DEF TypeOK
<1>2. CASE c # conn
    BY <1>2 DEF SendAck, CurrentTraffic
<1>3. QED
    BY <1>1, <1>2

\* Ending one connection leaves no traffic on it.
LEMMA DisconnectedBounded ==
    ASSUME TypeOK, FreshSockets, NEW c \in Conns, Disconnected(c)
    PROVE  /\ conn' # None => conn' = conn /\ c # conn /\ s2c' = s2c
           /\ conn' \in {conn, None}
           /\ \A d \in Conns : d > nConn => s2c'[d] = <<>>
<1>1. CASE c = conn
    BY <1>1 DEF Disconnected, FreshSockets, TypeOK
<1>2. CASE c # conn
    BY <1>2 DEF Disconnected, FreshSockets
<1>3. QED
    BY <1>1, <1>2

\* A prefix of the current connection's frames.
LEMMA LoseFramesBounded ==
    ASSUME TypeOK, FreshSockets, conn # None, LoseFrames(conn)
    PROVE  \A c \in Conns : c > nConn => c2s'[c] = c2s[c]
<1>1. PICK n \in 0..Len(c2s[conn]) : c2s' = [c2s EXCEPT ![conn] = SubSeq(@, 1, n)]
    BY DEF LoseFrames
<1>2. \A c \in Conns : c > nConn => c # conn
    BY DEF FreshSockets, TypeOK, Conns
<1>3. QED
    BY <1>1, <1>2 DEF TypeOK

\* What every step but the ones of a fault keeps when agentd's files, counter
\* and connection are left alone.
LEMMA LocalUnchanged ==
    ASSUME CounterInv,
           UNCHANGED <<seq, queue, disk, lastAcked, ackedFile, saving>>, todo' \subseteq todo
    PROVE  CounterAboveLocal' /\ 1 <= seq'
BY DEF CounterInv, CounterAboveLocal

\* agentd's own steps (send, hello, replay, acknowledgement, files) keep the
\* counter above every local number.
LEMMA CounterStepAgent ==
    ASSUME TypeOK, TypeOK', CounterInv, AgentNext
    PROVE  CounterInv'
<1> USE LinkAssumption
<1>1. /\ CounterAboveLocal /\ 1 <= seq /\ FreshSockets /\ CurrentTraffic
      /\ seq \in Nat /\ lastAcked \in Nat /\ ackedFile \in Nat /\ saving \in Nat
    BY DEF CounterInv, TypeOK
<1>2. \A m \in queue \cup disk \cup todo : m.seq \in Nat /\ m.seq <= seq
    BY <1>1 DEF CounterAboveLocal, TypeOK, Entry
<1>3. \A c \in Conns : c > nConn => c # conn
    BY <1>1 DEF FreshSockets, TypeOK, Conns
<1>4. CASE SendDurable
    <2> DEFINE m == [seq |-> seq + 1, id |-> nextId + 1]
    <2>1. m \in Entry /\ m.seq = seq + 1
        BY <1>4 DEF SendDurable, TypeOK, Entry
    <2>2. /\ seq' = seq + 1 /\ queue' \subseteq queue \cup {m} /\ disk' \subseteq queue \cup disk \cup {m}
          /\ WriteIfReady(DataFrame(m))
          /\ UNCHANGED <<todo, lastAcked, ackedFile, saving, conn, nConn, s2c, inHandler>>
        BY <1>4 DEF SendDurable, serverVars
    <2>3. DataFrame(m) \in Frame /\ DataFrame(m).seq = seq + 1
        BY <2>1, FramesWritten
    <2> HIDE DEF m
    <2>4. CounterAboveLocal' /\ 1 <= seq'
        BY <1>1, <1>2, <2>1, <2>2 DEF CounterAboveLocal
    <2>5. /\ conn # None => FramesUpTo(c2s'[conn], seq + 1)
          /\ \A c \in Conns : c # conn => c2s'[c] = c2s[c]
        BY <1>1, <2>2, <2>3, WriteBounded
    <2>6. FreshSockets'
        BY <1>1, <1>3, <2>2, <2>5 DEF FreshSockets
    <2>7. CurrentTraffic'
        <3>1. conn # None => conn \in Conns /\ inHandler[conn] \in Nat /\ s2c[conn] \in Seq(Nat)
            BY DEF TypeOK
        <3>2. conn # None => AcksUpTo(s2c[conn], seq + 1) /\ inHandler[conn] <= seq + 1
            BY <1>1, <3>1, AcksBounded DEF CurrentTraffic
        <3>3. QED
            BY <2>2, <2>5, <3>2 DEF CurrentTraffic
    <2>8. QED
        BY <2>4, <2>6, <2>7 DEF CounterInv
<1>5. CASE SendVolatile
    <2> DEFINE f == [kind |-> "data", seq |-> seq + 1, id |-> 0]
    <2>1. f \in Frame /\ f.seq = seq + 1
        BY <1>1, FramesWritten
    <2>2. /\ seq' = seq + 1 /\ WriteIfReady(f)
          /\ UNCHANGED <<queue, disk, todo, lastAcked, ackedFile, saving, conn, nConn, s2c, inHandler>>
        BY <1>5 DEF SendVolatile, serverVars
    <2> HIDE DEF f
    <2>3. CounterAboveLocal' /\ 1 <= seq'
        BY <1>1, <1>2, <2>2 DEF CounterAboveLocal
    <2>4. /\ conn # None => FramesUpTo(c2s'[conn], seq + 1)
          /\ \A c \in Conns : c # conn => c2s'[c] = c2s[c]
        BY <1>1, <2>1, <2>2, WriteBounded
    <2>5. FreshSockets'
        BY <1>1, <1>3, <2>2, <2>4 DEF FreshSockets
    <2>6. CurrentTraffic'
        <3>1. conn # None => conn \in Conns /\ inHandler[conn] \in Nat /\ s2c[conn] \in Seq(Nat)
            BY DEF TypeOK
        <3>2. conn # None => AcksUpTo(s2c[conn], seq + 1) /\ inHandler[conn] <= seq + 1
            BY <1>1, <3>1, AcksBounded DEF CurrentTraffic
        <3>3. QED
            BY <2>2, <2>4, <3>2 DEF CurrentTraffic
    <2>7. QED
        BY <2>3, <2>5, <2>6 DEF CounterInv
<1>6. CASE Connect
    <2>1. /\ conn' = nConn + 1 /\ nConn' = nConn + 1 /\ nConn + 1 \in Conns
          /\ UNCHANGED <<seq, queue, disk, todo, lastAcked, ackedFile, saving, c2s, s2c, inHandler>>
        BY <1>6 DEF Connect
    <2>2. nConn + 1 > nConn /\ nConn \in Nat
        BY DEF TypeOK
    <2>3. c2s[nConn + 1] = <<>> /\ s2c[nConn + 1] = <<>> /\ inHandler[nConn + 1] = None
        BY <1>1, <2>1, <2>2 DEF FreshSockets
    <2>4. CurrentTraffic'
        BY <1>1, <2>1, <2>3 DEF CurrentTraffic, FramesUpTo, AcksUpTo, None
    <2>5. FreshSockets'
        BY <1>1, <2>1, <2>2 DEF FreshSockets, Conns
    <2>6. QED
        BY <2>1, <2>4, <2>5, LocalUnchanged DEF CounterInv
<1>7. CASE SendHello
    <2>1. UNCHANGED <<seq, queue, disk, todo, lastAcked, ackedFile, saving, conn, nConn, s2c, inHandler>>
        BY <1>7 DEF SendHello, serverVars, historyVars
    <2>2. /\ conn # None => FramesUpTo(c2s'[conn], seq)
          /\ \A c \in Conns : c # conn => c2s'[c] = c2s[c]
        <3>1. CASE conn = None
            BY <1>7, <3>1 DEF SendHello
        <3>2. CASE conn # None
            <4>1. conn \in Conns /\ c2s[conn] \in Seq(Frame)
                BY <3>2 DEF TypeOK
            <4>2. c2s' = [c2s EXCEPT ![conn] = Append(@, HelloFrame)]
                BY <1>7, <3>2 DEF SendHello
            <4>3. HelloFrame \in Frame /\ HelloFrame.seq <= seq
                BY <1>1, FramesWritten, LargerIsMax DEF CounterAboveLocal
            <4>4. FramesUpTo(Append(c2s[conn], HelloFrame), seq)
                BY <1>1, <3>2, <4>1, <4>3, FramesBounded DEF CurrentTraffic
            <4>5. QED
                BY <4>1, <4>2, <4>4 DEF TypeOK
        <3>3. QED
            BY <3>1, <3>2
    <2>3. FreshSockets'
        BY <1>1, <1>3, <2>1, <2>2 DEF FreshSockets
    <2>4. CurrentTraffic'
        BY <1>1, <2>1, <2>2 DEF CurrentTraffic
    <2>5. QED
        BY <2>1, <2>3, <2>4, LocalUnchanged DEF CounterInv
<1>8. CASE StartReplay
    <2>1. /\ todo' = queue
          /\ UNCHANGED <<seq, queue, disk, lastAcked, ackedFile, saving, conn, nConn, c2s, s2c, inHandler>>
        BY <1>8 DEF StartReplay, serverVars, historyVars
    <2>2. CounterAboveLocal' /\ 1 <= seq'
        BY <1>1, <1>2, <2>1 DEF CounterAboveLocal
    <2>3. FreshSockets' /\ CurrentTraffic'
        BY <1>1, <2>1 DEF FreshSockets, CurrentTraffic
    <2>4. QED
        BY <2>2, <2>3 DEF CounterInv
<1>9. CASE ReplayEntry
    <2>1. PICK m \in todo : /\ todo' = todo \ {m}
                            /\ c2s' = [c2s EXCEPT ![conn] = Append(@, DataFrame(m))]
        BY <1>9 DEF ReplayEntry
    <2>2. /\ conn # None
          /\ UNCHANGED <<seq, queue, disk, lastAcked, ackedFile, saving, conn, nConn, s2c, inHandler>>
        BY <1>9 DEF ReplayEntry, serverVars
    <2>3. conn \in Conns /\ c2s[conn] \in Seq(Frame) /\ m \in Entry
        BY <2>2 DEF TypeOK
    <2>4. DataFrame(m) \in Frame /\ DataFrame(m).seq <= seq
        BY <1>2, <2>3, FramesWritten
    <2>5. FramesUpTo(Append(c2s[conn], DataFrame(m)), seq)
        BY <1>1, <2>2, <2>3, <2>4, FramesBounded DEF CurrentTraffic
    <2>6. /\ FramesUpTo(c2s'[conn], seq)
          /\ \A c \in Conns : c # conn => c2s'[c] = c2s[c]
        BY <2>1, <2>3, <2>5 DEF TypeOK
    <2>7. FreshSockets'
        BY <1>1, <1>3, <2>2, <2>6 DEF FreshSockets
    <2>8. CurrentTraffic'
        BY <1>1, <2>2, <2>6 DEF CurrentTraffic
    <2>9. QED
        BY <2>1, <2>2, <2>7, <2>8, LocalUnchanged DEF CounterInv
<1>10. CASE EndReplay
    <2>1. /\ todo' = {}
          /\ UNCHANGED <<seq, queue, disk, lastAcked, ackedFile, saving, conn, nConn, c2s, s2c, inHandler>>
        BY <1>10 DEF EndReplay, serverVars
    <2>2. FreshSockets' /\ CurrentTraffic'
        BY <1>1, <2>1 DEF FreshSockets, CurrentTraffic
    <2>3. QED
        BY <2>1, <2>2, LocalUnchanged DEF CounterInv
<1>11. CASE RecvAck
    <2> DEFINE ack == Head(s2c[conn])
               kept == Above(queue, ack)
    <2>1. conn # None /\ conn \in Conns /\ s2c[conn] \in Seq(Nat) /\ s2c[conn] # <<>>
        BY <1>11 DEF RecvAck, TypeOK
    <2>2. ack \in Nat /\ ack <= seq /\ AcksUpTo(Tail(s2c[conn]), seq)
        BY <1>1, <2>1, AcksBounded, HeadTailProperties DEF CurrentTraffic
    <2>3. kept \subseteq queue
        BY <2>2, EntrySets DEF TypeOK
    <2>4. /\ lastAcked' = Larger(lastAcked, ack) /\ saving' = ack /\ queue' = kept
          /\ disk' \in {disk} \cup {d \in {kept} : kept # queue}
          /\ s2c' = [s2c EXCEPT ![conn] = Tail(@)]
          /\ UNCHANGED <<seq, todo, ackedFile, conn, nConn, c2s, inHandler>>
        BY <1>11 DEF RecvAck, serverVars
    <2> HIDE DEF ack, kept
    <2>5. lastAcked' <= seq
        BY <1>1, <2>2, <2>4, LargerIsMax DEF CounterAboveLocal
    <2>6. disk' \subseteq disk \cup queue /\ queue' \subseteq queue
        BY <2>3, <2>4
    <2>7. CounterAboveLocal' /\ 1 <= seq'
        BY <1>1, <2>2, <2>4, <2>5, <2>6 DEF CounterAboveLocal
    <2>8. s2c'[conn] = Tail(s2c[conn]) /\ \A c \in Conns : c # conn => s2c'[c] = s2c[c]
        BY <2>1, <2>4 DEF TypeOK
    <2>9. FreshSockets'
        BY <1>1, <1>3, <2>4, <2>8 DEF FreshSockets
    <2>10. CurrentTraffic'
        BY <1>1, <2>2, <2>4, <2>8 DEF CurrentTraffic
    <2>11. QED
        BY <2>7, <2>9, <2>10 DEF CounterInv
<1>12. CASE SaveAck
    <2>1. /\ ackedFile' = saving /\ saving' = None
          /\ UNCHANGED <<seq, queue, disk, todo, lastAcked, conn, nConn, c2s, s2c, inHandler>>
        BY <1>12 DEF SaveAck, serverVars, historyVars
    <2>2. CounterAboveLocal' /\ 1 <= seq'
        BY <1>1, <2>1 DEF CounterAboveLocal, None
    <2>3. FreshSockets' /\ CurrentTraffic'
        BY <1>1, <2>1 DEF FreshSockets, CurrentTraffic
    <2>4. QED
        BY <2>2, <2>3 DEF CounterInv
<1>13. QED
    BY <1>4, <1>5, <1>6, <1>7, <1>8, <1>9, <1>10, <1>11, <1>12 DEF AgentNext

\* The control plane's steps only acknowledge numbers that were received, which
\* are below the counter.
LEMMA CounterStepServer ==
    ASSUME TypeOK, TypeOK', CounterInv, ServerNext
    PROVE  CounterInv'
<1> USE LinkAssumption
<1>1. /\ CounterAboveLocal /\ 1 <= seq /\ FreshSockets /\ CurrentTraffic
      /\ seq \in Nat /\ conn <= nConn
    BY DEF CounterInv, TypeOK, FreshSockets
<1>2. conn # None => conn \in Conns /\ c2s[conn] \in Seq(Frame) /\ s2c[conn] \in Seq(Nat)
    BY DEF TypeOK
<1>3. ASSUME NEW c \in Conns, Authenticate(c) PROVE CounterInv'
    <2>1. UNCHANGED <<agentVars, s2c, inHandler, nConn>>
        BY <1>3 DEF Authenticate
    <2>2. PICK n \in 0..Len(c2s[c]) :
            IF n <= AuthBuffer
            THEN UNCHANGED <<c2s, suspect>>
            ELSE /\ c2s' = [c2s EXCEPT ![c] = SubSeq(@, 1, AuthBuffer) \o SubSeq(@, n + 1, Len(@))]
                 /\ suspect' = suspect \cup {"authBuffer"}
        BY <1>3 DEF Authenticate
    <2>3. CounterAboveLocal' /\ 1 <= seq'
        BY <1>1, <2>1, LocalUnchanged DEF agentVars
    <2>4. CASE n <= AuthBuffer
        <3>1. FreshSockets' /\ CurrentTraffic'
            BY <1>1, <2>1, <2>2, <2>4 DEF FreshSockets, CurrentTraffic, agentVars
        <3>2. QED
            BY <2>3, <3>1 DEF CounterInv
    <2>5. CASE ~(n <= AuthBuffer)
        <3> DEFINE q == c2s[c]
                   t == SubSeq(q, 1, AuthBuffer) \o SubSeq(q, n + 1, Len(q))
        <3>1. q \in Seq(Frame) /\ n \in 0..Len(q) /\ AuthBuffer \in Nat
            BY DEF TypeOK
        <3>2. Len(q) \in Nat /\ AuthBuffer < n
            BY <2>5, <3>1, LenProperties
        <3>3. q # <<>>
            BY <3>1, <3>2, EmptySeq
        <3> HIDE DEF q
        <3>4. t \in Seq(Frame) /\ \A i \in DOMAIN t : \E j \in DOMAIN q : t[i] = q[j]
            BY <3>1, <3>2, GapIsSeq
        <3> HIDE DEF t
        <3>5. c2s'[c] = t /\ \A d \in Conns : d # c => c2s'[d] = c2s[d]
            BY <2>2, <2>5 DEF TypeOK, t, q
        <3>6. FreshSockets'
            BY <1>1, <2>1, <3>3, <3>5 DEF FreshSockets, agentVars, q
        <3>7. c = conn => FramesUpTo(q, seq)
            BY <1>1, <1>2 DEF CurrentTraffic, Conns, None, q
        <3>8. c = conn => FramesUpTo(t, seq)
            BY <3>4, <3>7 DEF FramesUpTo
        <3>9. CurrentTraffic'
            BY <1>1, <1>2, <2>1, <3>5, <3>8 DEF CurrentTraffic, agentVars
        <3>10. QED
            BY <2>3, <3>6, <3>9 DEF CounterInv
    <2>6. QED
        BY <2>4, <2>5
<1>4. ASSUME NEW c \in Conns, CanHandle(c), TakeFrame(c)
      PROVE  /\ NextFrame(c) \in Frame /\ NextFrame(c).seq \in Nat
             /\ c = conn => NextFrame(c).seq <= seq
             /\ conn # None => FramesUpTo(c2s'[conn], seq)
             /\ \A d \in Conns : d > nConn => c2s'[d] = <<>> /\ d # c
    <2>1. c2s[c] # <<>> /\ c2s[c] \in Seq(Frame) /\ c2s' = [c2s EXCEPT ![c] = Tail(@)]
        BY <1>4 DEF CanHandle, TakeFrame, TypeOK
    <2>2. NextFrame(c) \in Frame /\ NextFrame(c).seq \in Nat
        BY <2>1, HeadFrame, FrameFields
    <2>3. c2s'[c] = Tail(c2s[c]) /\ \A d \in Conns : d # c => c2s'[d] = c2s[d]
        BY <2>1 DEF TypeOK
    <2>4. c = conn => NextFrame(c).seq <= seq /\ FramesUpTo(Tail(c2s[c]), seq)
        <3>1. c = conn => FramesUpTo(c2s[c], seq)
            BY <1>1, <1>2 DEF CurrentTraffic, Conns, None
        <3>2. QED
            BY <1>1, <2>1, <3>1, FramesBounded DEF NextFrame
    <2>5. conn # None => FramesUpTo(c2s'[conn], seq)
        BY <1>1, <1>2, <2>3, <2>4 DEF CurrentTraffic
    <2>6. \A d \in Conns : d > nConn => c2s'[d] = <<>> /\ d # c
        BY <1>1, <2>1, <2>3 DEF FreshSockets
    <2>7. QED
        BY <2>2, <2>4, <2>5, <2>6
<1>5. ASSUME NEW c \in Conns, AckRedelivery(c) PROVE CounterInv'
    <2>1. /\ CanHandle(c) /\ TakeFrame(c) /\ SendAck(c, NextFrame(c).seq)
          /\ UNCHANGED <<agentVars, inHandler, nConn>>
        BY <1>5 DEF AckRedelivery, serverVars, historyVars
    <2>2. /\ NextFrame(c).seq \in Nat
          /\ c = conn => NextFrame(c).seq <= seq
          /\ conn # None => FramesUpTo(c2s'[conn], seq)
          /\ \A d \in Conns : d > nConn => c2s'[d] = <<>> /\ d # c
        BY <1>4, <2>1
    <2>3. /\ conn # None => AcksUpTo(s2c'[conn], seq)
          /\ \A d \in Conns : d # c => s2c'[d] = s2c[d]
        BY <1>1, <2>1, <2>2, AckBounded
    <2>4. FreshSockets'
        BY <1>1, <2>1, <2>2, <2>3 DEF FreshSockets, agentVars
    <2>5. CurrentTraffic'
        BY <1>1, <2>1, <2>2, <2>3 DEF CurrentTraffic, agentVars
    <2>6. CounterAboveLocal' /\ 1 <= seq'
        BY <2>1, LocalUnchanged DEF agentVars
    <2>7. QED
        BY <2>4, <2>5, <2>6 DEF CounterInv
<1>6. ASSUME NEW c \in Conns, Handle(c) PROVE CounterInv'
    <2>1. /\ CanHandle(c) /\ TakeFrame(c) /\ inHandler' = [inHandler EXCEPT ![c] = NextFrame(c).seq]
          /\ UNCHANGED <<agentVars, s2c, nConn>>
        BY <1>6 DEF Handle, historyVars
    <2>2. /\ NextFrame(c).seq \in Nat
          /\ c = conn => NextFrame(c).seq <= seq
          /\ conn # None => FramesUpTo(c2s'[conn], seq)
          /\ \A d \in Conns : d > nConn => c2s'[d] = <<>> /\ d # c
        BY <1>4, <2>1
    <2>3. inHandler'[c] = NextFrame(c).seq /\ \A d \in Conns : d # c => inHandler'[d] = inHandler[d]
        BY <2>1 DEF TypeOK
    <2>4. FreshSockets'
        BY <1>1, <2>1, <2>2, <2>3 DEF FreshSockets, agentVars
    <2>5. CurrentTraffic'
        BY <1>1, <1>2, <2>1, <2>2, <2>3 DEF CurrentTraffic, agentVars
    <2>6. CounterAboveLocal' /\ 1 <= seq'
        BY <2>1, LocalUnchanged DEF agentVars
    <2>7. QED
        BY <2>4, <2>5, <2>6 DEF CounterInv
<1>7. ASSUME NEW c \in Conns, FinishHandler(c) PROVE CounterInv'
    <2>1. /\ inHandler[c] # None /\ SendAck(c, inHandler[c])
          /\ inHandler' = [inHandler EXCEPT ![c] = None]
          /\ UNCHANGED <<agentVars, c2s, nConn>>
        BY <1>7 DEF FinishHandler, historyVars
    <2>2. /\ inHandler[c] \in Nat
          /\ c = conn => inHandler[c] <= seq
        <3>1. c # None
            BY DEF Conns, None
        <3>2. c = conn => inHandler[c] <= seq
            BY <1>1, <3>1 DEF CurrentTraffic
        <3>3. QED
            BY <3>2 DEF TypeOK
    <2>3. /\ conn # None => AcksUpTo(s2c'[conn], seq)
          /\ \A d \in Conns : d # c => s2c'[d] = s2c[d]
        BY <1>1, <2>1, <2>2, AckBounded
    <2>4. inHandler'[c] = None /\ \A d \in Conns : d # c => inHandler'[d] = inHandler[d]
        BY <2>1 DEF TypeOK
    <2>5. FreshSockets'
        BY <1>1, <2>1, <2>3, <2>4 DEF FreshSockets, agentVars
    <2>6. CurrentTraffic'
        BY <1>1, <1>2, <2>1, <2>3, <2>4 DEF CurrentTraffic, agentVars, None
    <2>7. CounterAboveLocal' /\ 1 <= seq'
        BY <2>1, LocalUnchanged DEF agentVars
    <2>8. QED
        BY <2>5, <2>6, <2>7 DEF CounterInv
<1>8. CASE Persist
    <2>1. UNCHANGED <<agentVars, c2s, s2c, inHandler, nConn>>
        BY <1>8 DEF Persist, historyVars
    <2>2. FreshSockets' /\ CurrentTraffic'
        BY <1>1, <2>1 DEF FreshSockets, CurrentTraffic, agentVars
    <2>3. QED
        BY <2>1, <2>2, LocalUnchanged DEF agentVars, CounterInv
<1>9. QED
    BY <1>3, <1>5, <1>6, <1>7, <1>8 DEF ServerNext

\* A drop, a kill, a restart and a failing file leave the counter, or the files
\* it is rebuilt from, in that order.
LEMMA CounterStepFault ==
    ASSUME TypeOK, TypeOK', CounterInv, FaultNext
    PROVE  CounterInv'
<1> USE LinkAssumption
<1>1. /\ CounterAboveLocal /\ 1 <= seq /\ FreshSockets /\ CurrentTraffic
      /\ nConn \in Nat
    BY DEF CounterInv, TypeOK
<1>2. CASE Drop
    <2>1. /\ conn # None /\ LoseFrames(conn) /\ Disconnected(conn)
          /\ UNCHANGED <<seq, queue, disk, todo, lastAcked, ackedFile, saving, nConn, inHandler>>
        BY <1>2 DEF Drop, serverVars
    <2>2. conn' = None /\ \A c \in Conns : c > nConn => s2c'[c] = <<>> /\ c2s'[c] = <<>>
        BY <1>1, <2>1, DisconnectedBounded, LoseFramesBounded DEF Disconnected, TypeOK, FreshSockets
    <2>3. FreshSockets' /\ CurrentTraffic'
        BY <1>1, <2>1, <2>2 DEF FreshSockets, CurrentTraffic, None
    <2>4. QED
        BY <2>1, <2>3, LocalUnchanged DEF CounterInv
<1>3. ASSUME NEW c \in Conns, HandlerFails(c) PROVE CounterInv'
    <2>1. /\ Disconnected(c)
          /\ inHandler' = [inHandler EXCEPT ![c] = None] /\ c2s' = [c2s EXCEPT ![c] = <<>>]
          /\ UNCHANGED <<seq, queue, disk, todo, lastAcked, ackedFile, saving, nConn>>
        BY <1>3 DEF HandlerFails
    <2>2. /\ conn' # None => conn' = conn /\ c # conn /\ s2c' = s2c
          /\ conn' \in {conn, None}
          /\ \A d \in Conns : d > nConn => s2c'[d] = <<>>
        BY <1>1, <2>1, DisconnectedBounded
    <2>3. /\ inHandler'[c] = None /\ c2s'[c] = <<>>
          /\ \A d \in Conns : d # c => inHandler'[d] = inHandler[d] /\ c2s'[d] = c2s[d]
        BY <2>1 DEF TypeOK
    <2>4. FreshSockets'
        BY <1>1, <2>1, <2>2, <2>3 DEF FreshSockets, None
    <2>5. CurrentTraffic'
        <3>1. conn' # None => conn' \in Conns /\ conn' # c
            BY <2>2 DEF TypeOK
        <3>2. QED
            BY <1>1, <2>1, <2>2, <2>3, <3>1 DEF CurrentTraffic
    <2>6. QED
        BY <2>1, <2>4, <2>5, LocalUnchanged DEF CounterInv
<1>4. CASE ServerRestart
    <2>1. /\ conn' = None /\ c2s' = [c \in Conns |-> <<>>] /\ s2c' = [c \in Conns |-> <<>>]
          /\ inHandler' = [c \in Conns |-> None]
          /\ UNCHANGED <<seq, queue, disk, todo, lastAcked, ackedFile, saving, nConn>>
        BY <1>4 DEF ServerRestart
    <2>2. FreshSockets' /\ CurrentTraffic'
        BY <1>1, <2>1 DEF FreshSockets, CurrentTraffic, None
    <2>3. QED
        BY <2>1, <2>2, LocalUnchanged DEF CounterInv
<1>5. CASE AgentRestart
    <2>1. /\ IF conn = None THEN UNCHANGED c2s ELSE LoseFrames(conn)
          /\ s2c' = [c \in Conns |-> <<>>]
          /\ conn' = None /\ saving' = None /\ todo' = {}
          /\ UNCHANGED <<nConn, inHandler>>
        BY <1>5 DEF AgentRestart, serverVars
    <2>2. PICK acked \in {ackedFile} \cup {n \in {0} : saving # None} : Startup(disk, acked)
        BY <1>5 DEF AgentRestart
    <2>3. acked \in Nat
        BY DEF TypeOK
    <2>4. /\ seq' \in Nat /\ lastAcked' = acked /\ ackedFile' = acked
          /\ acked <= seq' /\ 1 <= seq'
          /\ \A m \in queue' \cup disk' : m.seq <= seq'
        BY <2>2, <2>3, StartupFacts DEF TypeOK
    <2>5. CounterAboveLocal'
        BY <2>1, <2>4 DEF CounterAboveLocal, None
    <2>6. \A c \in Conns : c > nConn => c2s'[c] = <<>>
        BY <1>1, <2>1, LoseFramesBounded DEF FreshSockets
    <2>7. FreshSockets' /\ CurrentTraffic'
        BY <1>1, <2>1, <2>6 DEF FreshSockets, CurrentTraffic, None
    <2>8. QED
        BY <2>4, <2>5, <2>7 DEF CounterInv
<1>6. QED
    BY <1>2, <1>3, <1>4, <1>5 DEF FaultNext

\* Every step keeps the counter above the local files.
LEMMA CounterStep ==
    ASSUME TypeOK, CounterInv, [Next]_vars
    PROVE  CounterInv'
<1>1. TypeOK'
    BY TypeStep
<1>2. CASE Next
    BY <1>1, <1>2, CounterStepAgent, CounterStepServer, CounterStepFault DEF Next
<1>3. CASE UNCHANGED vars
    BY <1>3 DEF vars, agentVars, serverVars, historyVars, CounterInv, CounterAboveLocal,
                FreshSockets, CurrentTraffic
<1>4. QED
    BY <1>2, <1>3

\* agentd never numbers a message at or below one that its queue, its queue
\* file, a replay under way or its saved cursor mentions, however often it is
\* killed, with whatever cursor file and whichever state of the compaction: the
\* numbers of what it still holds are never issued a second time.
THEOREM CounterSafe == Spec => []CounterAboveLocal
<1>1. TypeOK /\ CounterInv /\ [Next]_vars => CounterInv'
    BY CounterStep
<1>2. CounterInv => CounterAboveLocal
    BY DEF CounterInv
<1>3. QED
    BY CounterInit, TypeCorrect, <1>1, <1>2, PTL DEF Spec

-----------------------------------------------------------------------------
\* The link keeps the promise of the persisted cursor.

\* A restart keeps at least what was sent to the database, so that the stored
\* cursor never passes the noted one.
CursorInv == dbAcked <= noted

\* Only three steps change the two cursors.
LEMMA CursorStep ==
    ASSUME TypeOK, CursorInv, [Next]_vars
    PROVE  CursorInv' /\ [Cursor!Next]_Cursor!vars
<1> USE DEF Cursor!Next, Cursor!Note, Cursor!Store, Cursor!Forget, Cursor!vars
<1>1. dbAcked \in Nat /\ noted \in Nat /\ dbAcked <= noted
    BY DEF TypeOK, CursorInv
<1>2. CASE UNCHANGED <<noted, dbAcked>>
    BY <1>2 DEF CursorInv
<1>3. ASSUME NEW c \in Conns, FinishHandler(c) PROVE CursorInv' /\ [Cursor!Next]_Cursor!vars
    <2>1. inHandler[c] \in Nat
        BY DEF TypeOK
    <2>2. dbAcked' = dbAcked /\ (noted' = noted \/ noted' = Larger(noted, inHandler[c]))
        BY <1>3 DEF FinishHandler
    <2>3. noted' \in Nat /\ noted' >= noted
        BY <1>1, <2>1, <2>2, LargerIsMax
    <2>4. QED
        BY <1>1, <2>2, <2>3 DEF CursorInv
<1>4. CASE Persist
    BY <1>1, <1>4 DEF Persist, CursorInv
<1>5. CASE ServerRestart
    BY <1>1, <1>5 DEF ServerRestart, CursorInv
<1>6. CASE AgentNext
    BY <1>2, <1>6 DEF AgentNext, SendDurable, SendVolatile, Connect, SendHello, StartReplay,
                      ReplayEntry, EndReplay, RecvAck, SaveAck, serverVars
<1>7. ASSUME NEW c \in Conns, Authenticate(c) \/ AckRedelivery(c) \/ Handle(c) \/ HandlerFails(c)
      PROVE  CursorInv' /\ [Cursor!Next]_Cursor!vars
    BY <1>2, <1>7 DEF Authenticate, AckRedelivery, Handle, HandlerFails, serverVars
<1>8. CASE Drop \/ AgentRestart
    BY <1>2, <1>8 DEF Drop, AgentRestart, serverVars
<1>9. CASE UNCHANGED vars
    BY <1>2, <1>9 DEF vars, serverVars
<1>10. QED
    BY <1>3, <1>4, <1>5, <1>6, <1>7, <1>8, <1>9 DEF Next, ServerNext, FaultNext

\* The cursor a control plane resumes from moves only forward and never past
\* what was processed, whatever writes are pending, sockets overlap or restarts
\* come between: every step of the link is a step of PersistedCursor or leaves
\* the cursor alone.
THEOREM CursorRefinement == Spec => ImplementsCursor
<1>1. Init => CursorInv /\ Cursor!Init
    BY LinkAssumption DEF Init, CursorInv, Cursor!Init
<1>2. TypeOK /\ CursorInv /\ [Next]_vars => CursorInv' /\ [Cursor!Next]_Cursor!vars
    BY CursorStep
<1>3. QED
    BY <1>1, <1>2, TypeCorrect, PTL DEF Spec, ImplementsCursor, Cursor!Spec

-----------------------------------------------------------------------------
\* What agentd stores.
\*
\* The queue file has whatever the queue has, and no two entries that agentd
\* holds anywhere share a number or a message.  This holds whatever happens.

OneEntryEach(entries) ==
    \A m \in entries, o \in entries : (m.seq = o.seq \/ m.id = o.id) => m = o

StoredInv ==
    /\ queue \subseteq disk
    /\ \A m \in queue : m.seq > lastAcked
    /\ ackedFile <= lastAcked /\ saving <= lastAcked
    /\ \A m \in queue \cup disk \cup todo : m.seq > 1 /\ m.id <= nextId
    /\ OneEntryEach(queue \cup disk \cup todo)

\* The replay's snapshot is all of the queue until its first write, and there is
\* none outside a replay.  No connection, no live traffic.
ReplayInv ==
    /\ ~replaying => todo = {}
    /\ replaying /\ replayOn = None => queue \subseteq todo
    /\ replayOn <= nConn
    /\ conn = None => ~ready

\* Frames of produced messages, and hellos whose number covers their cursor.
KnownFrame(n) ==
    {f \in Frame : IF f.kind = "hello" THEN f.resume <= f.seq ELSE f.id <= n}

\* What has been written to the sockets, and the cursors of those not opened.
FrameInv ==
    /\ c2s \in [Conns -> Seq(KnownFrame(nextId))]
    /\ \A c \in Conns : c > nConn => lastProc[c] = 0

\* Known frames are frames; more messages make more of them known.
LEMMA KnownFrames ==
    ASSUME NEW n \in Nat, NEW k \in Nat, n <= k
    PROVE  /\ KnownFrame(n) \subseteq Frame
           /\ Seq(KnownFrame(n)) \subseteq Seq(KnownFrame(k))
<1>1. ASSUME NEW f \in KnownFrame(n) PROVE f \in KnownFrame(k)
    BY FrameFields DEF KnownFrame
<1>2. KnownFrame(n) \subseteq KnownFrame(k)
    BY <1>1
<1>3. ASSUME NEW q \in Seq(KnownFrame(n)) PROVE q \in Seq(KnownFrame(k))
    <2>1. Len(q) \in Nat /\ q \in [1..Len(q) -> KnownFrame(n)]
        BY LenProperties
    <2>2. q \in [1..Len(q) -> KnownFrame(k)]
        BY <1>2, <2>1
    <2>3. QED
        BY <2>1, <2>2, SeqDef
<1>4. QED
    BY <1>3 DEF KnownFrame

\* The frames agentd writes are known ones.
LEMMA KnownWritten ==
    ASSUME NEW n \in 0..MaxId
    PROVE  /\ \A m \in Entry : m.id <= n => DataFrame(m) \in KnownFrame(n)
           /\ \A s \in Nat : [kind |-> "data", seq |-> s, id |-> 0] \in KnownFrame(n)
           /\ lastAcked \in Nat => HelloFrame \in KnownFrame(n)
<1> USE LinkAssumption
<1>1. ASSUME NEW m \in Entry, m.id <= n PROVE DataFrame(m) \in KnownFrame(n)
    BY <1>1, FramesWritten DEF KnownFrame, DataFrame
<1>2. ASSUME NEW s \in Nat PROVE [kind |-> "data", seq |-> s, id |-> 0] \in KnownFrame(n)
    BY FramesWritten DEF KnownFrame
<1>3. ASSUME lastAcked \in Nat PROVE HelloFrame \in KnownFrame(n)
    BY <1>3, FramesWritten, LargerIsMax DEF KnownFrame, HelloFrame
<1>4. QED
    BY <1>1, <1>2, <1>3

\* What selecting entries, or moving them up, does to each of them.
LEMMA ShiftedFacts ==
    ASSUME NEW E, E \subseteq Entry, NEW n \in Nat
    PROVE  \A k \in Shifted(E, n) : \E m \in E : k.seq = m.seq + n /\ k.id = m.id
<1>1. \A m \in E : m \in [seq : Nat, id : 1..MaxId]
    BY DEF Entry
<1>2. \A m \in E : [m EXCEPT !.seq = @ + n].seq = m.seq + n /\ [m EXCEPT !.seq = @ + n].id = m.id
    BY <1>1
<1>3. QED
    BY <1>2 DEF Shifted

\* Two entries with the same number and the same message are one.
LEMMA EntryIsItsFields ==
    ASSUME NEW m \in Entry, NEW o \in Entry, m.seq = o.seq, m.id = o.id
    PROVE  m = o
BY DEF Entry

\* Smaller sets of entries have no more duplicates.
LEMMA OneEntryEachSubset ==
    ASSUME NEW E, OneEntryEach(E), NEW F, F \subseteq E
    PROVE  OneEntryEach(F)
BY DEF OneEntryEach

\* A start-up after the first one finds its file above the hello's number, moves
\* nothing and brings back every entry that is not acknowledged.
LEMMA RestartFacts ==
    ASSUME TypeOK, StoredInv, NEW acked \in Nat, acked <= lastAcked, Startup(disk, acked)
    PROVE  /\ queue' = Above(disk, acked) /\ queue' \subseteq disk' /\ disk' \subseteq disk
           /\ queue \subseteq queue'
           /\ lastAcked' = acked /\ ackedFile' = acked
           /\ forgot' = forgot \cup (Ids(disk \ queue') \ applied)
<1> DEFINE live == Above(disk, acked)
           floor == Larger(acked, 1)
           offsets == {floor + 1 - m.seq : m \in live} \cap Nat
<1>1. PICK kept \in {live} \cup {Shifted(live, n) : n \in offsets} :
        /\ RebaseAbove(live, floor, kept)
        /\ queue' = kept
        /\ IF kept = live THEN disk' \in {disk, live} ELSE disk' = kept
        /\ lastAcked' = acked
        /\ ackedFile' = acked
        /\ forgot' = forgot \cup (Ids(disk \ live) \ applied)
    BY DEF Startup
<1>2. \A m \in live : m \in disk /\ m.seq \in Nat /\ m.seq > acked /\ m.seq > 1
    BY DEF Above, TypeOK, StoredInv, Entry
<1>3. floor \in {acked, 1}
    BY DEF Larger
<1>4. \A m \in live : ~(m.seq <= floor)
    <2> HIDE DEF live, floor
    <2>1. QED
        BY <1>2, <1>3
<1>5. kept = live
    BY <1>1, <1>4 DEF RebaseAbove, IsOldest
<1>6. queue \subseteq live
    <2>1. \A m \in queue : m \in disk /\ m.seq \in Nat /\ m.seq > lastAcked /\ lastAcked \in Nat
        BY DEF TypeOK, StoredInv, Entry
    <2>2. QED
        BY <2>1 DEF Above
<1>7. QED
    BY <1>1, <1>2, <1>5, <1>6

\* The queue file of a first start-up, numbered from 2 at least.
LEMMA StoredInit == Init => StoredInv /\ ReplayInv
<1> SUFFICES ASSUME Init PROVE StoredInv /\ ReplayInv
    OBVIOUS
<1> USE LinkAssumption
<1>1. LegacyFile \subseteq Entry /\ \A m \in LegacyFile : m.seq = m.id /\ m.id \in 1..Legacy
    BY DEF LegacyFile, Entry
<1>2. queue \subseteq Entry
    <2>1. LegacyFile \subseteq Entry /\ Shifted(LegacyFile, 1) \subseteq Entry
        BY <1>1, EntrySets
    <2>2. queue = LegacyFile \/ queue = Shifted(LegacyFile, 1)
        BY DEF Init
    <2>3. QED
        BY <2>1, <2>2
<1>3. \E d \in {0, 1} : \A m \in queue : m.seq = m.id + d /\ m.id \in 1..Legacy
    <2>1. CASE queue = LegacyFile
        BY <1>1, <2>1
    <2>2. CASE queue = Shifted(LegacyFile, 1)
        BY <1>1, <2>2, ShiftedFacts
    <2>3. QED
        BY <2>1, <2>2 DEF Init
<1>4. PICK d \in {0, 1} : \A m \in queue : m.seq = m.id + d /\ m.id \in 1..Legacy
    BY <1>3
<1>5. \A m \in queue : m.seq > 1
    <2>1. CASE \A m \in LegacyFile : m.seq > 1
        <3>1. queue = LegacyFile \/ queue = Shifted(LegacyFile, 1)
            BY DEF Init
        <3>2. QED
            BY <1>1, <2>1, <3>1, ShiftedFacts
    <2>2. ASSUME NEW o \in LegacyFile, IsOldest(o, LegacyFile), o.seq <= 1,
                 queue = Shifted(LegacyFile, 1 + 1 - o.seq)
          PROVE  \A m \in queue : m.seq > 1
        <3>1. 1 + 1 - o.seq \in Nat /\ o.seq \in Nat
            BY <1>1, <2>2
        <3>2. ASSUME NEW m \in queue PROVE m.seq > 1
            <4>1. PICK l \in LegacyFile : m.seq = l.seq + (1 + 1 - o.seq)
                BY <1>1, <2>2, <3>1, ShiftedFacts
            <4>2. l.seq \in Nat /\ o.seq <= l.seq
                BY <1>1, <2>2 DEF IsOldest
            <4>3. QED
                BY <3>1, <4>1, <4>2
        <3>3. QED
            BY <3>2
    <2>3. RebaseAbove(LegacyFile, 1, queue)
        BY DEF Init
    <2>4. QED
        BY <2>1, <2>2, <2>3 DEF RebaseAbove
<1>6. OneEntryEach(queue)
    <2>1. ASSUME NEW m \in queue, NEW o \in queue, m.seq = o.seq \/ m.id = o.id PROVE m = o
        <3>1. m.seq = o.seq /\ m.id = o.id
            BY <1>4, <2>1
        <3>2. QED
            BY <1>2, <3>1, EntryIsItsFields
    <2>2. QED
        BY <2>1 DEF OneEntryEach
<1>7. queue \cup disk \cup todo = queue
    BY DEF Init
<1>8. \A m \in queue : m.seq > 1 /\ m.seq > lastAcked /\ m.id <= nextId
    BY <1>4, <1>5 DEF Init
<1>9. StoredInv
    <2>1. disk = queue /\ lastAcked = 0 /\ ackedFile = 0 /\ saving = 0
        BY DEF Init, None
    <2>2. QED
        BY <1>6, <1>7, <1>8, <2>1 DEF StoredInv
<1>10. ReplayInv
    BY DEF Init, ReplayInv, None
<1>11. QED
    BY <1>9, <1>10

\* No socket has been written to.
LEMMA FrameInit == Init => FrameInv
<1> SUFFICES ASSUME Init PROVE FrameInv
    OBVIOUS
<1>1. <<>> \in Seq(KnownFrame(nextId))
    BY EmptySeq
<1>2. QED
    BY <1>1 DEF Init, FrameInv

\* What agentd stores changes by a send, an acknowledgement, a save, a replay
\* and a restart, and stays in order.
LEMMA StoredStep ==
    ASSUME TypeOK, CounterInv, StoredInv, ReplayInv, [Next]_vars
    PROVE  StoredInv'
<1> DEFINE held == queue \cup disk \cup todo
<1>1. /\ held \subseteq Entry /\ queue \subseteq Entry /\ seq \in Nat /\ lastAcked \in Nat
      /\ ackedFile \in Nat /\ saving \in Nat /\ nextId \in Nat
    BY DEF TypeOK
<1>2. /\ lastAcked <= seq /\ \A m \in held : m.seq \in Nat /\ m.seq <= seq
    BY <1>1 DEF CounterInv, CounterAboveLocal, Entry
<1>3. /\ queue \subseteq disk /\ \A m \in queue : m.seq > lastAcked
      /\ ackedFile <= lastAcked /\ saving <= lastAcked
      /\ \A m \in held : m.seq > 1 /\ m.id <= nextId
      /\ OneEntryEach(held)
    BY DEF StoredInv
<1> HIDE DEF held
<1>4. ASSUME UNCHANGED <<queue, disk, lastAcked, ackedFile, saving, nextId>>, todo' \subseteq queue \cup todo
      PROVE  StoredInv'
    <2>1. (queue \cup disk \cup todo)' \subseteq held
        BY <1>4 DEF held
    <2>2. QED
        BY <1>3, <1>4, <2>1, OneEntryEachSubset DEF StoredInv
<1>5. CASE SendDurable
    <2> DEFINE m == [seq |-> seq + 1, id |-> nextId + 1]
    <2>1. /\ m.seq = seq + 1 /\ m.id = nextId + 1 /\ seq' = seq + 1 /\ nextId' = nextId + 1
          /\ UNCHANGED <<lastAcked, ackedFile, saving, todo>>
        BY <1>5 DEF SendDurable
    <2>2. queue' \subseteq queue \cup {m} /\ disk' \subseteq disk \cup {m} /\ queue' \subseteq disk'
        <3>1. CASE Cardinality(queue) >= QueueCap
            BY <1>3, <1>5, <3>1 DEF SendDurable
        <3>2. CASE ~(Cardinality(queue) >= QueueCap)
            BY <1>3, <1>5, <3>2 DEF SendDurable
        <3>3. QED
            BY <3>1, <3>2
    <2> HIDE DEF m
    <2>3. (queue \cup disk \cup todo)' \subseteq held \cup {m}
        BY <2>1, <2>2 DEF held
    <2>4. \A o \in held : o.seq # m.seq /\ o.id # m.id
        <3>1. \A o \in held : o.id \in Nat
            BY <1>1 DEF Entry
        <3>2. QED
            BY <1>1, <1>2, <1>3, <2>1, <3>1
    <2>5. OneEntryEach(held \cup {m})
        BY <1>3, <2>4 DEF OneEntryEach
    <2>6. \A o \in queue' : o.seq > lastAcked'
        BY <1>1, <1>2, <1>3, <2>1, <2>2
    <2>7. \A o \in held \cup {m} : o.seq > 1 /\ o.id <= nextId'
        <3>1. \A o \in held : o.id \in Nat
            BY <1>1 DEF Entry
        <3>2. m.seq > 1
            BY <1>1, <2>1 DEF CounterInv
        <3>3. QED
            BY <1>1, <1>3, <2>1, <3>1, <3>2
    <2>8. QED
        BY <1>3, <2>1, <2>2, <2>3, <2>5, <2>6, <2>7, OneEntryEachSubset DEF StoredInv
<1>6. CASE RecvAck
    <2> DEFINE ack == Head(s2c[conn])
               kept == Above(queue, ack)
    <2>1. ack \in Nat
        BY <1>6, HeadTailProperties DEF RecvAck, TypeOK
    <2>2. /\ lastAcked' = Larger(lastAcked, ack) /\ saving' = ack /\ queue' = kept
          /\ disk' = disk \/ disk' = kept
          /\ UNCHANGED <<ackedFile, nextId, todo>>
        BY <1>6 DEF RecvAck
    <2>3. \A m \in kept : m \in queue /\ m.seq > ack
        BY DEF Above
    <2> HIDE DEF ack, kept
    <2>4. lastAcked' \in {lastAcked, ack} /\ lastAcked <= lastAcked' /\ ack <= lastAcked'
        BY <1>1, <2>1, <2>2, LargerIsMax
    <2>5. \A m \in queue' : m.seq > lastAcked'
        BY <1>3, <2>2, <2>3, <2>4
    <2>6. ackedFile' <= lastAcked' /\ saving' <= lastAcked'
        BY <1>1, <1>3, <2>1, <2>2, <2>4
    <2>7. queue' \subseteq disk' /\ (queue \cup disk \cup todo)' \subseteq held
        BY <1>3, <2>2, <2>3 DEF held
    <2>8. QED
        BY <1>3, <2>2, <2>5, <2>6, <2>7, OneEntryEachSubset DEF StoredInv
<1>7. CASE SaveAck
    <2>1. /\ ackedFile' = saving /\ saving' = 0
          /\ UNCHANGED <<queue, disk, todo, lastAcked, nextId>>
        BY <1>7 DEF SaveAck, historyVars, None
    <2>2. QED
        BY <1>1, <1>3, <2>1 DEF StoredInv, held
<1>8. CASE AgentRestart
    <2>1. PICK acked \in {ackedFile} \cup {n \in {0} : saving # None} : Startup(disk, acked)
        BY <1>8 DEF AgentRestart
    <2>2. acked \in Nat /\ acked <= lastAcked
        BY <1>1, <1>3
    <2>3. /\ queue' = Above(disk, acked) /\ queue' \subseteq disk' /\ disk' \subseteq disk
          /\ lastAcked' = acked /\ ackedFile' = acked
        BY <2>1, <2>2, RestartFacts
    <2>4. todo' = {} /\ saving' = 0 /\ nextId' = nextId
        BY <1>8 DEF AgentRestart, None
    <2>5. (queue \cup disk \cup todo)' \subseteq held
        BY <2>3, <2>4 DEF held
    <2>6. \A m \in queue' : m.seq > lastAcked'
        BY <2>3 DEF Above
    <2>7. QED
        BY <1>3, <2>2, <2>3, <2>4, <2>5, <2>6, OneEntryEachSubset DEF StoredInv
<1>9. CASE SendVolatile \/ Connect \/ SendHello \/ StartReplay \/ ReplayEntry \/ EndReplay
    BY <1>4, <1>9 DEF SendVolatile, Connect, SendHello, StartReplay, ReplayEntry, EndReplay,
                      historyVars
<1>10. CASE ServerNext
    BY <1>4, <1>10 DEF ServerNext, Authenticate, AckRedelivery, Handle, FinishHandler, Persist,
                       agentVars, historyVars
<1>11. CASE Drop \/ ServerRestart \/ \E c \in Conns : HandlerFails(c)
    BY <1>4, <1>11 DEF Drop, ServerRestart, HandlerFails
<1>12. CASE UNCHANGED vars
    BY <1>4, <1>12 DEF vars, agentVars, historyVars
<1>13. QED
    BY <1>5, <1>6, <1>7, <1>8, <1>9, <1>10, <1>11, <1>12 DEF Next, AgentNext, FaultNext

\* The snapshot is taken whole, nothing is queued during a replay, and every
\* loss of the connection closes it for live traffic.
LEMMA ReplayStep ==
    ASSUME TypeOK, CounterInv, ReplayInv, [Next]_vars
    PROVE  ReplayInv'
<1>1. /\ ~replaying => todo = {}
      /\ replaying /\ replayOn = None => queue \subseteq todo
      /\ replayOn <= nConn /\ nConn \in Nat /\ replayOn \in Nat
      /\ conn = None => ~ready
      /\ conn <= nConn
    BY DEF ReplayInv, CounterInv, FreshSockets, TypeOK, Conns, None
<1>2. CASE SendDurable
    BY <1>1, <1>2 DEF SendDurable, ReplayInv
<1>3. CASE Connect
    <2>1. /\ nConn' = nConn + 1 /\ conn' = nConn + 1 /\ ready' = FALSE
          /\ UNCHANGED <<queue, replaying, todo, replayOn>>
        BY <1>3 DEF Connect
    <2>2. QED
        BY <1>1, <2>1 DEF ReplayInv
<1>4. CASE StartReplay
    BY <1>1, <1>4 DEF StartReplay, ReplayInv, historyVars, None
<1>5. CASE ReplayEntry
    BY <1>1, <1>5 DEF ReplayEntry, ReplayInv
<1>6. CASE EndReplay
    <2>1. /\ replaying' = FALSE /\ todo' = {} /\ replayOn' = 0
          /\ UNCHANGED <<conn, nConn>>
        BY <1>6 DEF EndReplay, None
    <2>2. conn = None => ~ready'
        <3>1. CASE ready' = ready
            BY <1>1, <3>1
        <3>2. CASE ready' = (conn # None)
            BY <3>2
        <3>3. QED
            BY <1>6, <3>1, <3>2 DEF EndReplay
    <2>3. QED
        BY <1>1, <2>1, <2>2 DEF ReplayInv
<1>7. CASE RecvAck
    <2>1. queue' \subseteq queue /\ UNCHANGED <<replaying, todo, replayOn, conn, ready, nConn>>
        BY <1>7 DEF RecvAck, Above
    <2>2. QED
        BY <1>1, <2>1 DEF ReplayInv
<1>8. CASE AgentRestart
    BY <1>1, <1>8 DEF AgentRestart, ReplayInv, None
<1>9. ASSUME UNCHANGED <<queue, replaying, todo, replayOn, nConn>>, conn' = None => ~ready'
      PROVE  ReplayInv'
    BY <1>1, <1>9 DEF ReplayInv
<1>10. CASE SendVolatile \/ SendHello \/ SaveAck
    BY <1>1, <1>9, <1>10 DEF SendVolatile, SendHello, SaveAck, historyVars
<1>11. CASE ServerNext
    BY <1>1, <1>9, <1>11 DEF ServerNext, Authenticate, AckRedelivery, Handle, FinishHandler,
                            Persist, agentVars, historyVars
<1>12. CASE Drop \/ ServerRestart \/ \E c \in Conns : HandlerFails(c)
    BY <1>1, <1>9, <1>12 DEF Drop, ServerRestart, HandlerFails, Disconnected
<1>13. CASE UNCHANGED vars
    BY <1>1, <1>9, <1>13 DEF vars, agentVars, historyVars
<1>14. QED
    BY <1>2, <1>3, <1>4, <1>5, <1>6, <1>7, <1>8, <1>10, <1>11, <1>12, <1>13
       DEF Next, AgentNext, FaultNext

\* A socket's frames gain a known one, lose some, or are left alone.
LEMMA FrameStep ==
    ASSUME TypeOK, CounterInv, StoredInv, FrameInv, [Next]_vars
    PROVE  FrameInv'
<1> USE LinkAssumption
<1>1. /\ c2s \in [Conns -> Seq(KnownFrame(nextId))]
      /\ \A c \in Conns : c > nConn => lastProc[c] = 0
    BY DEF FrameInv
<1>2. /\ nextId \in 0..MaxId /\ nextId \in Nat /\ nConn \in Nat /\ seq \in Nat /\ lastAcked \in Nat
      /\ conn \in Conns \cup {None} /\ lastProc \in [Conns -> Nat]
    BY DEF TypeOK
<1>3. \A c \in Conns : c > nConn => c2s[c] = <<>> /\ inHandler[c] = None
    BY DEF CounterInv, FreshSockets
<1>4. ASSUME UNCHANGED <<nextId, lastProc>>, nConn' \in Nat, nConn' >= nConn,
             c2s' \in [Conns -> Seq(KnownFrame(nextId))]
      PROVE  FrameInv'
    BY <1>1, <1>2, <1>4 DEF FrameInv, Conns
<1>5. ASSUME NEW f \in KnownFrame(nextId), conn # None,
             c2s' = [c2s EXCEPT ![conn] = Append(@, f)]
      PROVE  c2s' \in [Conns -> Seq(KnownFrame(nextId))]
    <2>1. Append(c2s[conn], f) \in Seq(KnownFrame(nextId))
        BY <1>1, <1>2, <1>5, AppendProperties
    <2>2. QED
        BY <1>1, <1>5, <2>1
<1>6. CASE SendDurable
    <2> DEFINE m == [seq |-> seq + 1, id |-> nextId + 1]
    <2>1. m \in Entry /\ m.id = nextId + 1 /\ nextId + 1 \in 0..MaxId
        BY <1>2, <1>6 DEF SendDurable, Entry
    <2>2. WriteIfReady(DataFrame(m)) /\ nextId' = nextId + 1 /\ UNCHANGED <<lastProc, nConn, conn>>
        BY <1>6 DEF SendDurable, serverVars
    <2> HIDE DEF m
    <2>3. DataFrame(m) \in KnownFrame(nextId + 1)
        BY <2>1, KnownWritten
    <2>4. c2s \in [Conns -> Seq(KnownFrame(nextId + 1))]
        BY <1>1, <1>2, KnownFrames
    <2>5. c2s' \in [Conns -> Seq(KnownFrame(nextId + 1))]
        <3>1. CASE conn # None /\ ready
            <4>1. Append(c2s[conn], DataFrame(m)) \in Seq(KnownFrame(nextId + 1))
                BY <1>2, <2>3, <2>4, <3>1, AppendProperties
            <4>2. QED
                BY <2>2, <2>4, <3>1, <4>1 DEF WriteIfReady
        <3>2. CASE ~(conn # None /\ ready)
            BY <2>2, <2>4, <3>2 DEF WriteIfReady
        <3>3. QED
            BY <3>1, <3>2
    <2>6. QED
        BY <1>1, <2>2, <2>5 DEF FrameInv
<1>7. CASE SendVolatile
    <2>1. [kind |-> "data", seq |-> seq + 1, id |-> 0] \in KnownFrame(nextId)
        BY <1>2, KnownWritten
    <2>2. c2s' \in [Conns -> Seq(KnownFrame(nextId))]
        BY <1>1, <1>5, <1>7, <2>1 DEF SendVolatile, WriteIfReady
    <2>3. QED
        BY <1>2, <1>4, <1>7, <2>2 DEF SendVolatile, serverVars
<1>8. CASE SendHello
    <2>1. HelloFrame \in KnownFrame(nextId)
        BY <1>2, KnownWritten
    <2>2. c2s' \in [Conns -> Seq(KnownFrame(nextId))]
        BY <1>1, <1>5, <1>8, <2>1 DEF SendHello
    <2>3. QED
        BY <1>2, <1>4, <1>8, <2>2 DEF SendHello, serverVars, historyVars
<1>9. CASE ReplayEntry
    <2>1. PICK m \in todo : c2s' = [c2s EXCEPT ![conn] = Append(@, DataFrame(m))]
        BY <1>9 DEF ReplayEntry
    <2>2. DataFrame(m) \in KnownFrame(nextId)
        BY <1>2, KnownWritten DEF StoredInv, TypeOK
    <2>3. c2s' \in [Conns -> Seq(KnownFrame(nextId))]
        BY <1>5, <1>9, <2>1, <2>2 DEF ReplayEntry
    <2>4. QED
        BY <1>2, <1>4, <1>9, <2>3 DEF ReplayEntry, serverVars
<1>10. CASE Connect
    <2>1. nConn' = nConn + 1 /\ UNCHANGED <<nextId, lastProc, c2s>>
        BY <1>10 DEF Connect
    <2>2. QED
        BY <1>1, <1>2, <1>4, <2>1
<1>11. CASE StartReplay \/ EndReplay \/ RecvAck \/ SaveAck \/ Persist
    BY <1>1, <1>2, <1>4, <1>11 DEF StartReplay, EndReplay, RecvAck, SaveAck, Persist,
                                   serverVars, historyVars
<1>12. ASSUME NEW c \in Conns, NEW q \in Seq(KnownFrame(nextId)), c2s' = [c2s EXCEPT ![c] = q]
       PROVE  c2s' \in [Conns -> Seq(KnownFrame(nextId))]
    BY <1>1, <1>12
<1>13. ASSUME NEW c \in Conns, LoseFrames(c)
       PROVE  c2s' \in [Conns -> Seq(KnownFrame(nextId))]
    <2>1. PICK n \in 0..Len(c2s[c]) : c2s' = [c2s EXCEPT ![c] = SubSeq(c2s[c], 1, n)]
        BY <1>13 DEF LoseFrames
    <2>2. SubSeq(c2s[c], 1, n) \in Seq(KnownFrame(nextId))
        BY <1>1, PrefixIsSeq
    <2>3. QED
        BY <1>12, <2>1, <2>2
<1>14. ASSUME NEW c \in Conns, Authenticate(c) PROVE FrameInv'
    <2>1. UNCHANGED <<nextId, lastProc, nConn>>
        BY <1>14 DEF Authenticate
    <2>2. PICK n \in 0..Len(c2s[c]) :
            IF n <= AuthBuffer
            THEN UNCHANGED <<c2s, suspect>>
            ELSE /\ c2s' = [c2s EXCEPT ![c] = SubSeq(@, 1, AuthBuffer) \o SubSeq(@, n + 1, Len(@))]
                 /\ suspect' = suspect \cup {"authBuffer"}
        BY <1>14 DEF Authenticate
    <2>3. c2s' \in [Conns -> Seq(KnownFrame(nextId))]
        <3>1. CASE n <= AuthBuffer
            BY <1>1, <2>2, <3>1
        <3>2. CASE ~(n <= AuthBuffer)
            <4>1. AuthBuffer < n /\ c2s[c] \in Seq(KnownFrame(nextId))
                BY <1>1, <3>2, LenProperties
            <4>2. SubSeq(c2s[c], 1, AuthBuffer) \o SubSeq(c2s[c], n + 1, Len(c2s[c]))
                        \in Seq(KnownFrame(nextId))
                BY <4>1, GapIsSeq
            <4>3. QED
                BY <1>12, <2>2, <3>2, <4>2
        <3>3. QED
            BY <3>1, <3>2
    <2>4. QED
        BY <1>2, <1>4, <2>1, <2>3
<1>15. ASSUME NEW c \in Conns, CanHandle(c), TakeFrame(c)
       PROVE  /\ c2s' \in [Conns -> Seq(KnownFrame(nextId))] /\ ~(c > nConn)
    <2>1. c2s[c] # <<>> /\ c2s' = [c2s EXCEPT ![c] = Tail(c2s[c])]
        BY <1>15 DEF CanHandle, TakeFrame
    <2>2. Tail(c2s[c]) \in Seq(KnownFrame(nextId))
        BY <1>1, <2>1, HeadTailProperties
    <2>3. QED
        BY <1>3, <1>12, <2>1, <2>2
<1>16. ASSUME NEW c \in Conns, AckRedelivery(c) PROVE FrameInv'
    BY <1>2, <1>4, <1>15, <1>16 DEF AckRedelivery, serverVars, historyVars
<1>17. ASSUME NEW c \in Conns, Handle(c) PROVE FrameInv'
    <2>1. /\ CanHandle(c) /\ TakeFrame(c) /\ UNCHANGED <<nextId, nConn>>
          /\ \A d \in Conns : d # c => lastProc'[d] = lastProc[d]
        BY <1>2, <1>17 DEF Handle, historyVars
    <2>2. QED
        BY <1>1, <1>15, <2>1 DEF FrameInv
<1>18. ASSUME NEW c \in Conns, FinishHandler(c) PROVE FrameInv'
    <2>1. /\ inHandler[c] # None /\ UNCHANGED <<nextId, nConn, c2s>>
          /\ \A d \in Conns : d # c => lastProc'[d] = lastProc[d]
        BY <1>2, <1>18 DEF FinishHandler, historyVars
    <2>2. QED
        BY <1>1, <1>3, <2>1 DEF FrameInv
<1>19. CASE Drop
    <2>1. LoseFrames(conn) /\ conn \in Conns /\ UNCHANGED <<nextId, lastProc, nConn>>
        BY <1>2, <1>19 DEF Drop, serverVars
    <2>2. QED
        BY <1>2, <1>4, <1>13, <2>1
<1>20. <<>> \in Seq(KnownFrame(nextId))
    BY EmptySeq
<1>21. ASSUME NEW c \in Conns, HandlerFails(c) PROVE FrameInv'
    <2>1. c2s' = [c2s EXCEPT ![c] = <<>>] /\ UNCHANGED <<nextId, lastProc, nConn>>
        BY <1>21 DEF HandlerFails
    <2>2. c2s' \in [Conns -> Seq(KnownFrame(nextId))]
        BY <1>1, <1>20, <2>1
    <2>3. QED
        BY <1>2, <1>4, <2>1, <2>2
<1>22. CASE ServerRestart
    <2>1. c2s' = [c \in Conns |-> <<>>] /\ lastProc' = [c \in Conns |-> 0] /\ nextId' = nextId
        BY <1>22 DEF ServerRestart
    <2>2. QED
        BY <1>20, <2>1 DEF FrameInv
<1>23. CASE AgentRestart
    <2>1. /\ conn # None => LoseFrames(conn)
          /\ conn = None => c2s' = c2s
          /\ UNCHANGED <<nextId, lastProc, nConn>>
        BY <1>23 DEF AgentRestart, serverVars
    <2>2. c2s' \in [Conns -> Seq(KnownFrame(nextId))]
        BY <1>1, <1>2, <1>13, <2>1
    <2>3. QED
        BY <1>2, <1>4, <2>1, <2>2
<1>24. CASE UNCHANGED vars
    BY <1>1, <1>2, <1>4, <1>24 DEF vars, serverVars, historyVars
<1>25. QED
    BY <1>6, <1>7, <1>8, <1>9, <1>10, <1>11, <1>14, <1>16, <1>17, <1>18, <1>19, <1>21, <1>22,
       <1>23, <1>24 DEF Next, AgentNext, ServerNext, FaultNext

-----------------------------------------------------------------------------
\* Frames are in order.
\*
\* held is a queue and done the messages that have been applied.

\* An acknowledgement of n is true.
Settled(n, held, done) == \A m \in held : m.seq <= n => m.id \in done

\* The message of m is among the first i frames of q.
Carried(m, q, i) == \E j \in 1..i : q[j] = DataFrame(m)

\* No frame overtakes a queued message that is not applied.
InOrder(q, held, done) ==
    \A i \in 1..Len(q) : \A m \in held :
        m.seq <= q[i].seq => m.id \in done \/ Carried(m, q, i)

\* With a socket's cursor at n, no frame is taken for a redelivery that is not one.
NoFalseRedelivery(q, n, held, done) ==
    \A i \in 1..Len(q) : \A m \in held :
        m.seq <= n /\ m.seq <= q[i].seq => m.id \in done

Sent(m, q, done) == m.id \in done \/ Carried(m, q, Len(q))

SocketInv(c) ==
    /\ inHandler[c] <= seq /\ Settled(inHandler[c], queue, applied)
    /\ FramesUpTo(c2s[c], seq)
    /\ InOrder(c2s[c], queue, applied)
    /\ NoFalseRedelivery(c2s[c], lastProc[c], queue, applied)

NotedInv == noted <= seq /\ Settled(noted, queue, applied)

\* The current socket's cursor and acknowledgements are true.
SettledAcks(q, held, done) == \A i \in DOMAIN q : Settled(q[i], held, done)

AckInv ==
    conn # None =>
        /\ lastProc[conn] <= seq /\ Settled(lastProc[conn], queue, applied)
        /\ SettledAcks(s2c[conn], queue, applied)

\* The replay, or the end of it, has sent what comes before the next frame.
SentInv ==
    conn # None =>
        /\ ready => \A m \in queue : Sent(m, c2s[conn], applied)
        /\ replaying /\ replayOn \in {None, conn} =>
               \A m \in queue \ todo : Sent(m, c2s[conn], applied)

\* What is no longer queued was applied or dropped by a full queue.
KeptInv ==
    /\ forgot = {}
    /\ \A m \in disk \ queue : m.id \in applied
    /\ 1..nextId \subseteq applied \cup evicted \cup Ids(queue)

LinkInv == NotedInv /\ (\A c \in Conns : SocketInv(c)) /\ AckInv /\ SentInv /\ KeptInv

OrderInv == suspect = {} => LinkInv

-----------------------------------------------------------------------------
\* What keeps frames in order.

\* A queue that lost entries, or gained applied ones or ones above n, with more
\* messages applied.
Later(n, held, done, held2, done2) ==
    /\ done \subseteq done2
    /\ \A m \in held2 : m \in held \/ m.id \in done2 \/ m.seq > n

\* A later queue leaves everything at or below n as it was.
LEMMA LaterKeeps ==
    ASSUME NEW held, NEW done, NEW held2, NEW done2, NEW n \in Nat,
           held2 \subseteq Entry, Later(n, held, done, held2, done2)
    PROVE  /\ \A k \in Nat : k <= n /\ Settled(k, held, done) => Settled(k, held2, done2)
           /\ \A q \in Seq(Frame) :
                FramesUpTo(q, n) =>
                    /\ InOrder(q, held, done) => InOrder(q, held2, done2)
                    /\ \A k \in Nat : NoFalseRedelivery(q, k, held, done)
                                        => NoFalseRedelivery(q, k, held2, done2)
           /\ \A q : \A m \in held \cap held2 : Sent(m, q, done) => Sent(m, q, done2)
<1>1. /\ done \subseteq done2
      /\ \A m \in held2 : m.seq \in Nat /\ (m.seq <= n => m \in held \/ m.id \in done2)
    BY DEF Later, Entry
<1>2. ASSUME NEW k \in Nat, k <= n, Settled(k, held, done) PROVE Settled(k, held2, done2)
    BY <1>1, <1>2 DEF Settled
<1>3. ASSUME NEW q \in Seq(Frame), FramesUpTo(q, n), NEW i \in 1..Len(q), NEW m \in held2,
             m.seq <= q[i].seq
      PROVE  m \in held \/ m.id \in done2
    <2>1. i \in DOMAIN q /\ q[i] \in Frame
        BY LenProperties, ElementOfSeq
    <2>2. q[i].seq \in Nat /\ q[i].seq <= n
        BY <1>3, <2>1, FrameFields DEF FramesUpTo
    <2>3. QED
        BY <1>1, <1>3, <2>2
<1>4. ASSUME NEW q \in Seq(Frame), FramesUpTo(q, n), InOrder(q, held, done)
      PROVE  InOrder(q, held2, done2)
    BY <1>1, <1>3, <1>4 DEF InOrder
<1>5. ASSUME NEW q \in Seq(Frame), FramesUpTo(q, n), NEW k \in Nat,
             NoFalseRedelivery(q, k, held, done)
      PROVE  NoFalseRedelivery(q, k, held2, done2)
    BY <1>1, <1>3, <1>5 DEF NoFalseRedelivery
<1>6. \A q : \A m \in held \cap held2 : Sent(m, q, done) => Sent(m, q, done2)
    BY <1>1 DEF Sent
<1>7. QED
    BY <1>2, <1>4, <1>5, <1>6

\* An acknowledgement below a true one is true, and a socket whose cursor is
\* true takes no frame for a redelivery that is not one.
LEMMA SettledBelow ==
    ASSUME NEW held, held \subseteq Entry, NEW done, NEW n \in Nat, Settled(n, held, done)
    PROVE  /\ \A k \in Nat : k <= n => Settled(k, held, done)
           /\ \A q : NoFalseRedelivery(q, n, held, done)
<1>1. \A m \in held : m.seq \in Nat
    BY DEF Entry
<1>2. QED
    BY <1>1 DEF Settled, NoFalseRedelivery

\* A frame may be written when every queued message up to it is applied, among
\* the frames before it, or the one it carries; the socket's cursor must be true.
LEMMA OrderOfAppend ==
    ASSUME NEW q \in Seq(Frame), NEW f \in Frame, NEW held, NEW done
    PROVE  LET t == Append(q, f) IN
           /\ InOrder(q, held, done)
                /\ (\A m \in held : m.seq <= f.seq => Sent(m, q, done) \/ f = DataFrame(m))
              => InOrder(t, held, done)
           /\ \A n \in Nat :
                NoFalseRedelivery(q, n, held, done) /\ Settled(n, held, done)
                    => NoFalseRedelivery(t, n, held, done)
           /\ \A m : Sent(m, q, done) \/ f = DataFrame(m) => Sent(m, t, done)
<1> DEFINE t == Append(q, f)
<1>1. /\ Len(q) \in Nat /\ Len(t) = Len(q) + 1
      /\ \A i \in 1..Len(q) : t[i] = q[i]
      /\ t[Len(q) + 1] = f
    BY AppendProperties, LenProperties
<1> HIDE DEF t
<1>2. \A i \in 1..Len(t) : i \in 1..Len(q) \/ i = Len(q) + 1
    BY <1>1
<1>3. \A m : \A i \in 1..Len(q) : Carried(m, q, i) => Carried(m, t, i)
    BY <1>1 DEF Carried
<1>4. \A m : Sent(m, q, done) \/ f = DataFrame(m) => m.id \in done \/ Carried(m, t, Len(q) + 1)
    <2>1. ASSUME NEW m, Carried(m, q, Len(q)) PROVE Carried(m, t, Len(q) + 1)
        BY <1>1, <2>1 DEF Carried
    <2>2. ASSUME NEW m, f = DataFrame(m) PROVE Carried(m, t, Len(q) + 1)
        <3>1. Len(q) + 1 \in 1..(Len(q) + 1)
            BY <1>1
        <3>2. QED
            BY <1>1, <2>2, <3>1 DEF Carried
    <2>3. QED
        BY <2>1, <2>2 DEF Sent
<1>5. ASSUME InOrder(q, held, done),
             \A m \in held : m.seq <= f.seq => Sent(m, q, done) \/ f = DataFrame(m)
      PROVE  InOrder(t, held, done)
    <2>1. ASSUME NEW i \in 1..Len(t), NEW m \in held, m.seq <= t[i].seq
          PROVE  m.id \in done \/ Carried(m, t, i)
        <3>1. CASE i \in 1..Len(q)
            BY <1>1, <1>3, <1>5, <2>1, <3>1 DEF InOrder
        <3>2. CASE i = Len(q) + 1
            BY <1>1, <1>4, <1>5, <2>1, <3>2
        <3>3. QED
            BY <1>2, <3>1, <3>2
    <2>2. QED
        BY <2>1 DEF InOrder
<1>6. ASSUME NEW n \in Nat, NoFalseRedelivery(q, n, held, done), Settled(n, held, done)
      PROVE  NoFalseRedelivery(t, n, held, done)
    BY <1>6 DEF NoFalseRedelivery, Settled
<1>7. \A m : Sent(m, q, done) \/ f = DataFrame(m) => Sent(m, t, done)
    BY <1>1, <1>4 DEF Sent
<1>8. QED
    BY <1>5, <1>6, <1>7 DEF t

\* Once the message of the first frame is applied, acknowledging that frame is
\* true and the rest is still in order.
LEMMA OrderOfTail ==
    ASSUME NEW q \in Seq(Frame), q # <<>>, NEW held, NEW done,
           \A m \in held : Head(q) = DataFrame(m) => m.id \in done
    PROVE  /\ InOrder(q, held, done) =>
                Settled(Head(q).seq, held, done) /\ InOrder(Tail(q), held, done)
           /\ \A n : NoFalseRedelivery(q, n, held, done)
                        => NoFalseRedelivery(Tail(q), n, held, done)
           /\ \A m \in held : Sent(m, q, done) => Sent(m, Tail(q), done)
<1> DEFINE t == Tail(q)
           f == Head(q)
<1>1. /\ Len(q) \in Nat /\ Len(q) # 0 /\ Len(t) = Len(q) - 1
      /\ \A i \in 1..Len(t) : t[i] = q[i + 1]
      /\ f = q[1]
    BY HeadTailProperties, LenProperties, EmptySeq
<1> HIDE DEF t, f
<1>2. \A m \in held : f = DataFrame(m) => m.id \in done
    BY DEF f
<1>3. \A i \in 1..Len(t) : i + 1 \in 1..Len(q)
    BY <1>1
<1>4. ASSUME NEW m \in held, NEW i \in 0..Len(t), Carried(m, q, i + 1)
      PROVE  m.id \in done \/ Carried(m, t, i)
    <2>1. PICK j \in 1..(i + 1) : q[j] = DataFrame(m)
        BY <1>4 DEF Carried
    <2>2. CASE j = 1
        BY <1>1, <1>2, <2>1, <2>2
    <2>3. CASE j # 1
        <3>1. j - 1 \in 1..i /\ j - 1 \in 1..Len(t) /\ (j - 1) + 1 = j
            BY <1>1, <2>1, <2>3
        <3>2. t[j - 1] = DataFrame(m)
            BY <1>1, <2>1, <3>1
        <3>3. QED
            BY <3>1, <3>2 DEF Carried
    <2>4. QED
        BY <2>2, <2>3
<1>5. ASSUME InOrder(q, held, done) PROVE Settled(f.seq, held, done) /\ InOrder(t, held, done)
    <2>1. ASSUME NEW m \in held, m.seq <= f.seq PROVE m.id \in done
        <3>1. 1 \in 1..Len(q)
            BY <1>1
        <3>2. m.id \in done \/ Carried(m, q, 1)
            BY <1>1, <1>5, <2>1, <3>1 DEF InOrder
        <3>3. Carried(m, q, 1) => f = DataFrame(m)
            BY <1>1 DEF Carried
        <3>4. QED
            BY <1>2, <3>2, <3>3
    <2>2. ASSUME NEW i \in 1..Len(t), NEW m \in held, m.seq <= t[i].seq
          PROVE  m.id \in done \/ Carried(m, t, i)
        <3>1. m.id \in done \/ Carried(m, q, i + 1)
            BY <1>1, <1>3, <1>5, <2>2 DEF InOrder
        <3>2. i \in 0..Len(t)
            BY <1>1
        <3>3. QED
            BY <1>4, <3>1, <3>2
    <2>3. QED
        BY <2>1, <2>2 DEF Settled, InOrder
<1>6. ASSUME NEW n, NoFalseRedelivery(q, n, held, done)
      PROVE  NoFalseRedelivery(t, n, held, done)
    <2>1. ASSUME NEW i \in 1..Len(t), NEW m \in held, m.seq <= n /\ m.seq <= t[i].seq
          PROVE  m.id \in done
        BY <1>1, <1>3, <1>6, <2>1 DEF NoFalseRedelivery
    <2>2. QED
        BY <2>1 DEF NoFalseRedelivery
<1>7. ASSUME NEW m \in held, Sent(m, q, done) PROVE Sent(m, t, done)
    <2>1. Len(t) \in 0..Len(t) /\ Len(t) + 1 = Len(q)
        BY <1>1
    <2>2. QED
        BY <1>4, <1>7, <2>1 DEF Sent
<1>8. QED
    BY <1>5, <1>6, <1>7 DEF t, f

\* A prefix of frames in order is in order.
LEMMA OrderOfPrefix ==
    ASSUME NEW q \in Seq(Frame), NEW k \in 0..Len(q), NEW held, NEW done
    PROVE  LET t == SubSeq(q, 1, k) IN
           /\ InOrder(q, held, done) => InOrder(t, held, done)
           /\ \A n : NoFalseRedelivery(q, n, held, done) => NoFalseRedelivery(t, n, held, done)
<1> DEFINE t == SubSeq(q, 1, k)
<1>1. t \in Seq(Frame) /\ \A i \in DOMAIN t : i \in DOMAIN q /\ t[i] = q[i]
    BY PrefixIsSeq
<1>2. DOMAIN q = 1..Len(q) /\ Len(q) \in Nat
    BY LenProperties
<1>3. DOMAIN t = 1..Len(t) /\ Len(t) \in Nat
    BY <1>1, LenProperties
<1> HIDE DEF t
<1>4. \A i \in 1..Len(t) : i \in 1..Len(q) /\ t[i] = q[i]
    BY <1>1, <1>2, <1>3
<1>5. \A m : \A i \in 1..Len(t) : Carried(m, q, i) => Carried(m, t, i)
    <2>1. ASSUME NEW m, NEW i \in 1..Len(t), NEW j \in 1..i, q[j] = DataFrame(m)
          PROVE  Carried(m, t, i)
        <3>1. j \in 1..Len(t)
            BY <1>3
        <3>2. QED
            BY <1>4, <2>1, <3>1 DEF Carried
    <2>2. QED
        BY <2>1 DEF Carried
<1>6. InOrder(q, held, done) => InOrder(t, held, done)
    BY <1>4, <1>5 DEF InOrder
<1>7. \A n : NoFalseRedelivery(q, n, held, done) => NoFalseRedelivery(t, n, held, done)
    BY <1>4 DEF NoFalseRedelivery
<1>8. QED
    BY <1>6, <1>7 DEF t

\* An empty wire is in order.
LEMMA OrderOfNothing ==
    ASSUME NEW held, NEW done, NEW n
    PROVE  InOrder(<<>>, held, done) /\ NoFalseRedelivery(<<>>, n, held, done)
             /\ FramesUpTo(<<>>, n)
<1>1. Len(<<>>) = 0 /\ DOMAIN <<>> = {}
    OBVIOUS
<1>2. QED
    BY <1>1 DEF InOrder, NoFalseRedelivery, FramesUpTo
\* Acknowledgements stay true, and true ones may be added and taken.
LEMMA AcksStaySettled ==
    ASSUME NEW q \in Seq(Nat), NEW held, NEW done, SettledAcks(q, held, done)
    PROVE  /\ \A a \in Nat : Settled(a, held, done) => SettledAcks(Append(q, a), held, done)
           /\ q # <<>> => Settled(Head(q), held, done) /\ SettledAcks(Tail(q), held, done)
           /\ \A n \in Nat : \A held2, done2 :
                AcksUpTo(q, n) /\ Later(n, held, done, held2, done2) /\ held2 \subseteq Entry
                    => SettledAcks(q, held2, done2)
<1>1. DOMAIN q = 1..Len(q) /\ Len(q) \in Nat /\ \A i \in DOMAIN q : q[i] \in Nat
    BY LenProperties, ElementOfSeq
<1>2. ASSUME NEW a \in Nat, Settled(a, held, done) PROVE SettledAcks(Append(q, a), held, done)
    <2>1. /\ Append(q, a) \in Seq(Nat) /\ Len(Append(q, a)) = Len(q) + 1
          /\ \A i \in 1..Len(q) : Append(q, a)[i] = q[i]
          /\ Append(q, a)[Len(q) + 1] = a
        BY AppendProperties
    <2>2. DOMAIN Append(q, a) = 1..(Len(q) + 1)
        BY <2>1, LenProperties
    <2>3. QED
        BY <1>1, <1>2, <2>1, <2>2 DEF SettledAcks
<1>3. ASSUME q # <<>> PROVE Settled(Head(q), held, done) /\ SettledAcks(Tail(q), held, done)
    <2>1. /\ Tail(q) \in Seq(Nat) /\ Len(Tail(q)) = Len(q) - 1
          /\ \A i \in 1..Len(Tail(q)) : Tail(q)[i] = q[i + 1]
        BY <1>3, HeadTailProperties
    <2>2. Len(q) # 0 /\ Head(q) = q[1]
        BY <1>3, EmptySeq
    <2>3. DOMAIN Tail(q) = 1..(Len(q) - 1)
        BY <2>1, LenProperties
    <2>4. ASSUME NEW i \in DOMAIN Tail(q) PROVE Settled(Tail(q)[i], held, done)
        <3>1. i + 1 \in DOMAIN q /\ Tail(q)[i] = q[i + 1]
            BY <1>1, <2>1, <2>3
        <3>2. QED
            BY <3>1 DEF SettledAcks
    <2>5. QED
        BY <1>1, <2>2, <2>4 DEF SettledAcks
<1>4. ASSUME NEW n \in Nat, NEW held2, NEW done2,
             AcksUpTo(q, n), Later(n, held, done, held2, done2), held2 \subseteq Entry
      PROVE  SettledAcks(q, held2, done2)
    BY <1>1, <1>4, LaterKeeps DEF SettledAcks, AcksUpTo
<1>5. QED
    BY <1>2, <1>3, <1>4

\* A step that leaves a socket alone keeps it in order, whatever is queued,
\* forgotten or applied meanwhile.
LEMMA SocketKept ==
    ASSUME TypeOK, TypeOK', NEW c \in Conns, SocketInv(c), seq <= seq',
           Later(seq, queue, applied, queue', applied'),
           inHandler'[c] = inHandler[c], lastProc'[c] = lastProc[c], c2s'[c] = c2s[c]
    PROVE  SocketInv(c)'
<1>1. /\ seq \in Nat /\ seq' \in Nat /\ queue' \subseteq Entry
      /\ inHandler[c] \in Nat /\ lastProc[c] \in Nat /\ c2s[c] \in Seq(Frame)
    BY DEF TypeOK
<1>2. inHandler[c] <= seq' /\ FramesUpTo(c2s[c], seq')
    BY <1>1, FramesBounded DEF SocketInv
<1>3. /\ Settled(inHandler[c], queue', applied')
      /\ InOrder(c2s[c], queue', applied')
      /\ NoFalseRedelivery(c2s[c], lastProc[c], queue', applied')
    BY <1>1, LaterKeeps DEF SocketInv
<1>4. QED
    BY <1>2, <1>3 DEF SocketInv

\* So does one that leaves the noted number alone, or forgets it.
LEMMA NotedKept ==
    ASSUME TypeOK, TypeOK', NotedInv, seq <= seq', noted' <= noted,
           Later(seq, queue, applied, queue', applied')
    PROVE  NotedInv'
<1>1. /\ seq \in Nat /\ seq' \in Nat /\ queue' \subseteq Entry /\ queue \subseteq Entry
      /\ noted \in Nat /\ noted' \in Nat
    BY DEF TypeOK
<1>2. Settled(noted, queue', applied')
    BY <1>1, LaterKeeps DEF NotedInv
<1>3. Settled(noted', queue', applied')
    BY <1>1, <1>2, SettledBelow
<1>4. QED
    BY <1>1, <1>3 DEF NotedInv

\* And one that leaves the current connection's acknowledgements alone.
LEMMA AckKept ==
    ASSUME TypeOK, TypeOK', CurrentTraffic, AckInv, seq <= seq',
           Later(seq, queue, applied, queue', applied'), conn' = conn,
           conn # None => lastProc'[conn] = lastProc[conn] /\ s2c'[conn] = s2c[conn]
    PROVE  AckInv'
<1> SUFFICES ASSUME conn # None
             PROVE  /\ lastProc[conn] <= seq' /\ Settled(lastProc[conn], queue', applied')
                    /\ SettledAcks(s2c[conn], queue', applied')
    BY DEF AckInv
<1>1. /\ seq \in Nat /\ seq' \in Nat /\ queue' \subseteq Entry /\ conn \in Conns
      /\ lastProc[conn] \in Nat /\ s2c[conn] \in Seq(Nat)
    BY DEF TypeOK
<1>2. lastProc[conn] <= seq' /\ Settled(lastProc[conn], queue', applied')
    BY <1>1, LaterKeeps DEF AckInv
<1>3. SettledAcks(s2c[conn], queue', applied')
    BY <1>1, AcksStaySettled DEF AckInv, CurrentTraffic
<1>4. QED
    BY <1>2, <1>3

\* Writing a frame to the current connection when everything up to it is sent.
LEMMA WriteKept ==
    ASSUME TypeOK, TypeOK', AckInv, \A c \in Conns : SocketInv(c), conn # None,
           seq <= seq', NEW f \in Frame, f.seq <= seq',
           Later(seq, queue, applied, queue', applied'),
           applied' = applied, inHandler' = inHandler, lastProc' = lastProc,
           c2s' = [c2s EXCEPT ![conn] = Append(@, f)],
           \A m \in queue' : m.seq <= f.seq => Sent(m, c2s[conn], applied) \/ f = DataFrame(m)
    PROVE  /\ \A c \in Conns : SocketInv(c)'
           /\ \A m : Sent(m, c2s[conn], applied) \/ f = DataFrame(m)
                        => Sent(m, c2s'[conn], applied')
<1>1. /\ conn \in Conns /\ c2s[conn] \in Seq(Frame) /\ queue' \subseteq Entry
      /\ seq \in Nat /\ seq' \in Nat /\ inHandler[conn] \in Nat /\ lastProc[conn] \in Nat
    BY DEF TypeOK
<1>2. PICK q \in Seq(Frame) : q = c2s[conn]
    BY <1>1
<1>3. c2s'[conn] = Append(q, f) /\ \A c \in Conns : c # conn => c2s'[c] = c2s[c]
    BY <1>1, <1>2 DEF TypeOK
<1>4. /\ inHandler[conn] <= seq' /\ Settled(inHandler[conn], queue', applied)
      /\ FramesUpTo(q, seq')
      /\ InOrder(q, queue', applied)
      /\ NoFalseRedelivery(q, lastProc[conn], queue', applied)
      /\ Settled(lastProc[conn], queue', applied)
    <2>1. SocketInv(conn)
        BY <1>1
    <2>2. inHandler[conn] <= seq' /\ FramesUpTo(q, seq) /\ FramesUpTo(q, seq')
        BY <1>1, <1>2, <2>1, FramesBounded DEF SocketInv
    <2>3. lastProc[conn] <= seq /\ Settled(lastProc[conn], queue, applied)
        BY DEF AckInv
    <2>4. QED
        BY <1>1, <1>2, <2>1, <2>2, <2>3, LaterKeeps DEF SocketInv
<1>5. /\ InOrder(Append(q, f), queue', applied)
      /\ NoFalseRedelivery(Append(q, f), lastProc[conn], queue', applied)
      /\ FramesUpTo(Append(q, f), seq')
      /\ \A m : Sent(m, q, applied) \/ f = DataFrame(m) => Sent(m, Append(q, f), applied)
    BY <1>1, <1>2, <1>4, OrderOfAppend, FramesBounded
<1>6. PICK d \in Conns : d = conn
    BY <1>1
<1>7. SocketInv(d)'
    <2>1. inHandler'[d] = inHandler[conn] /\ lastProc'[d] = lastProc[conn] /\ c2s'[d] = Append(q, f)
        BY <1>3, <1>6
    <2>2. /\ inHandler'[d] <= seq' /\ Settled(inHandler'[d], queue', applied')
          /\ FramesUpTo(c2s'[d], seq')
          /\ InOrder(c2s'[d], queue', applied')
          /\ NoFalseRedelivery(c2s'[d], lastProc'[d], queue', applied')
        BY <1>4, <1>5, <2>1
    <2>3. QED
        BY <2>2 DEF SocketInv
<1>8. ASSUME NEW c \in Conns, c # d PROVE SocketInv(c)'
    BY <1>3, <1>6, <1>8, SocketKept
<1>9. ASSUME NEW m, Sent(m, c2s[conn], applied) \/ f = DataFrame(m)
      PROVE  Sent(m, c2s'[conn], applied')
    BY <1>2, <1>3, <1>5, <1>9
<1>10. QED
    BY <1>7, <1>8, <1>9
\* A queue that only lost entries is a later one.
LEMMA LaterOfSubset ==
    ASSUME queue' \subseteq queue, applied \subseteq applied'
    PROVE  Later(seq, queue, applied, queue', applied')
BY DEF Later

\* What is kept stays kept when no entry is touched.
LEMMA KeptUnchanged ==
    ASSUME KeptInv, UNCHANGED <<queue, disk, nextId, evicted, forgot>>, applied \subseteq applied'
    PROVE  KeptInv'
BY DEF KeptInv

\* A new durable message is the last in the queue and on the wire.
LEMMA SendDurableKeeps ==
    ASSUME TypeOK, TypeOK', CounterInv, ReplayInv, LinkInv, SendDurable
    PROVE  LinkInv'
<1> USE LinkAssumption
<1>1. PICK m \in Entry : m = [seq |-> seq + 1, id |-> nextId + 1]
    BY DEF SendDurable, TypeOK, Entry
<1>2. /\ m.seq = seq + 1 /\ m.id = nextId + 1 /\ seq' = seq + 1 /\ nextId' = nextId + 1
      /\ WriteIfReady(DataFrame(m))
      /\ ~replaying
      /\ UNCHANGED <<replaying, conn, ready, todo, replayOn, s2c, forgot, inHandler,
                     lastProc, noted, applied>>
    BY <1>1 DEF SendDurable, serverVars
<1>3. /\ seq \in Nat /\ seq' \in Nat /\ seq <= seq' /\ nextId \in Nat /\ noted \in Nat
      /\ queue \subseteq Entry
    BY <1>2 DEF TypeOK
<1>4. \/ \E old \in queue : /\ queue' = (queue \ {old}) \cup {m} /\ disk' = queue'
                            /\ evicted' = evicted \cup ({old.id} \ applied)
      \/ queue' = queue \cup {m} /\ disk' = disk \cup {m} /\ evicted' = evicted
    BY <1>1 DEF SendDurable
<1>5. queue' \subseteq queue \cup {m}
    BY <1>4
<1>6. Later(seq, queue, applied, queue', applied')
    BY <1>2, <1>3, <1>5 DEF Later
<1>7. NotedInv' /\ AckInv'
    BY <1>2, <1>3, <1>6, NotedKept, AckKept DEF LinkInv, CounterInv
<1>8. (\A c \in Conns : SocketInv(c)') /\ SentInv'
    <2>1. CASE conn # None /\ ready
        <3>1. c2s' = [c2s EXCEPT ![conn] = Append(@, DataFrame(m))]
            BY <1>2, <2>1 DEF WriteIfReady
        <3>2. DataFrame(m) \in Frame /\ DataFrame(m).seq <= seq'
            BY <1>2, <1>3, FramesWritten
        <3>3. \A o \in queue' : Sent(o, c2s[conn], applied) \/ DataFrame(m) = DataFrame(o)
            BY <1>5, <2>1 DEF LinkInv, SentInv
        <3>4. /\ \A c \in Conns : SocketInv(c)'
              /\ \A o : Sent(o, c2s[conn], applied) \/ DataFrame(m) = DataFrame(o)
                            => Sent(o, c2s'[conn], applied')
            BY <1>2, <1>3, <1>6, <2>1, <3>1, <3>2, <3>3, WriteKept DEF LinkInv
        <3>5. SentInv'
            BY <1>2, <3>3, <3>4 DEF SentInv
        <3>6. QED
            BY <3>4, <3>5
    <2>2. CASE ~(conn # None /\ ready)
        <3>1. c2s' = c2s
            BY <1>2, <2>2 DEF WriteIfReady
        <3>2. \A c \in Conns : SocketInv(c)'
            BY <1>2, <1>3, <1>6, <3>1, SocketKept DEF LinkInv
        <3>3. SentInv'
            BY <1>2, <2>2 DEF SentInv
        <3>4. QED
            BY <3>2, <3>3
    <2>3. QED
        BY <2>1, <2>2
<1>9. KeptInv'
    <2>1. /\ forgot = {} /\ \A o \in disk \ queue : o.id \in applied
          /\ 1..nextId \subseteq applied \cup evicted \cup Ids(queue)
        BY DEF LinkInv, KeptInv
    <2>2. \A o \in disk' \ queue' : o.id \in applied'
        BY <1>2, <1>4, <2>1
    <2>3. ASSUME NEW i \in 1..nextId' PROVE i \in applied' \cup evicted' \cup Ids(queue')
        <3>1. m \in queue' /\ evicted \subseteq evicted'
            BY <1>4
        <3>2. CASE i = nextId + 1
            BY <1>2, <3>1, <3>2 DEF Ids
        <3>3. CASE i \in 1..nextId
            <4>1. i \in applied \cup evicted \/ \E o \in queue : o.id = i
                BY <2>1, <3>3 DEF Ids
            <4>2. ASSUME NEW o \in queue, o.id = i PROVE i \in applied \cup evicted' \cup Ids(queue')
                BY <1>4, <4>2 DEF Ids
            <4>3. QED
                BY <1>2, <3>1, <4>1, <4>2
        <3>4. QED
            BY <1>2, <1>3, <3>2, <3>3
    <2>4. QED
        BY <1>2, <2>1, <2>2, <2>3 DEF KeptInv
<1>10. QED
    BY <1>7, <1>8, <1>9 DEF LinkInv

\* A frame for the current connection that every queued message below it has
\* preceded: a volatile message after the replay, a hello, an entry of a replay
\* that has not moved to another connection.
LEMMA WriteKeeps ==
    ASSUME TypeOK, TypeOK', CounterInv, LinkInv, conn # None, seq <= seq',
           NEW f \in Frame, f.seq <= seq',
           \A m \in queue : m.seq <= f.seq => Sent(m, c2s[conn], applied) \/ f = DataFrame(m),
           c2s' = [c2s EXCEPT ![conn] = Append(@, f)],
           UNCHANGED <<queue, disk, conn, ready, s2c, inHandler, lastProc, noted, applied,
                       nextId, evicted, forgot>>,
           replaying' /\ replayOn' \in {None, conn} =>
                \A m \in queue \ todo' : Sent(m, c2s[conn], applied) \/ f = DataFrame(m)
    PROVE  LinkInv'
<1>1. Later(seq, queue, applied, queue', applied') /\ seq \in Nat /\ noted \in Nat
    BY LaterOfSubset DEF TypeOK
<1>2. NotedInv' /\ AckInv' /\ KeptInv'
    BY <1>1, NotedKept, AckKept, KeptUnchanged DEF LinkInv, CounterInv
<1>3. \A m \in queue' : m.seq <= f.seq => Sent(m, c2s[conn], applied) \/ f = DataFrame(m)
    OBVIOUS
<1>4. /\ \A c \in Conns : SocketInv(c)'
      /\ \A m : Sent(m, c2s[conn], applied) \/ f = DataFrame(m) => Sent(m, c2s'[conn], applied')
    BY <1>1, <1>3, WriteKept DEF LinkInv
<1>5. SentInv'
    <2>1. ready => \A m \in queue : Sent(m, c2s[conn], applied)
        BY DEF LinkInv, SentInv
    <2>2. QED
        BY <1>4, <2>1 DEF SentInv
<1>6. QED
    BY <1>2, <1>4, <1>5 DEF LinkInv

\* A step of agentd that writes nothing and queues nothing.
LEMMA QuietKeeps ==
    ASSUME TypeOK, TypeOK', CounterInv, LinkInv,
           UNCHANGED <<seq, queue, disk, conn, c2s, s2c, inHandler, lastProc, noted, applied,
                       nextId, evicted, forgot>>,
           SentInv'
    PROVE  LinkInv'
<1>1. Later(seq, queue, applied, queue', applied') /\ seq \in Nat /\ noted \in Nat
    BY LaterOfSubset DEF TypeOK
<1>2. NotedInv' /\ AckInv' /\ KeptInv'
    BY <1>1, NotedKept, AckKept, KeptUnchanged DEF LinkInv, CounterInv
<1>3. \A c \in Conns : SocketInv(c)'
    BY <1>1, SocketKept DEF LinkInv
<1>4. QED
    BY <1>2, <1>3 DEF LinkInv
\* agentd's steps keep frames in order, but for a replay that moves to another
\* connection.
LEMMA LinkStepAgent ==
    ASSUME TypeOK, TypeOK', CounterInv, StoredInv, ReplayInv, FrameInv, LinkInv,
           AgentNext, suspect' = {}
    PROVE  LinkInv'
<1> USE LinkAssumption
<1>1. /\ seq \in Nat /\ lastAcked \in Nat /\ noted \in Nat /\ nConn \in Nat
      /\ queue \subseteq Entry /\ todo \subseteq Entry
      /\ conn # None => conn \in Conns /\ c2s[conn] \in Seq(Frame) /\ s2c[conn] \in Seq(Nat)
    BY DEF TypeOK
<1>2. CounterAboveLocal /\ CurrentTraffic /\ FreshSockets /\ 1 <= seq
    BY DEF CounterInv
<1>3. \A m \in queue \cup todo : m.seq \in Nat /\ m.seq <= seq
    BY <1>1, <1>2 DEF CounterAboveLocal, Entry
<1>4. CASE SendDurable
    BY <1>4, SendDurableKeeps
<1>5. CASE SendVolatile
    <2> DEFINE f == [kind |-> "data", seq |-> seq + 1, id |-> 0]
    <2>1. f \in Frame /\ seq' = seq + 1 /\ f.seq = seq + 1
        BY <1>1, <1>5, FramesWritten DEF SendVolatile
    <2>2. /\ WriteIfReady(f) /\ ~replaying' /\ ~replaying
          /\ UNCHANGED <<queue, disk, todo, conn, ready, s2c, inHandler, lastProc, noted,
                         applied, nextId, evicted, forgot>>
        BY <1>5 DEF SendVolatile, serverVars
    <2> HIDE DEF f
    <2>3. CASE conn # None /\ ready
        <3>1. c2s' = [c2s EXCEPT ![conn] = Append(@, f)]
            BY <2>2, <2>3 DEF WriteIfReady
        <3>2. \A m \in queue : Sent(m, c2s[conn], applied)
            BY <2>3 DEF LinkInv, SentInv
        <3>3. seq <= seq' /\ f.seq <= seq'
            BY <1>1, <2>1
        <3>4. QED
            BY <2>1, <2>2, <2>3, <3>1, <3>2, <3>3, WriteKeeps
    <2>4. CASE ~(conn # None /\ ready)
        <3>1. c2s' = c2s
            BY <2>2, <2>4 DEF WriteIfReady
        <3>2. Later(seq, queue, applied, queue', applied') /\ seq <= seq'
            BY <1>1, <2>1, <2>2, LaterOfSubset
        <3>3. NotedInv' /\ AckInv' /\ KeptInv' /\ \A c \in Conns : SocketInv(c)'
            BY <1>1, <1>2, <2>2, <3>1, <3>2, NotedKept, AckKept, KeptUnchanged, SocketKept
               DEF LinkInv
        <3>4. SentInv'
            BY <2>2, <2>4 DEF SentInv
        <3>5. QED
            BY <3>3, <3>4 DEF LinkInv
    <2>5. QED
        BY <2>3, <2>4
<1>6. CASE Connect
    <2>1. /\ conn' = nConn + 1 /\ nConn + 1 \in Conns /\ ready' = FALSE
          /\ UNCHANGED <<seq, queue, disk, replaying, todo, replayOn, c2s, s2c, inHandler,
                         lastProc, noted, applied, nextId, evicted, forgot>>
        BY <1>6 DEF Connect
    <2>2. lastProc[nConn + 1] = 0 /\ s2c[nConn + 1] = <<>>
        BY <1>1, <1>2, <2>1 DEF FreshSockets, FrameInv
    <2>3. Later(seq, queue, applied, queue', applied') /\ seq <= seq'
        BY <1>1, <2>1, LaterOfSubset
    <2>4. NotedInv' /\ KeptInv' /\ \A c \in Conns : SocketInv(c)'
        BY <1>1, <2>1, <2>3, NotedKept, KeptUnchanged, SocketKept DEF LinkInv
    <2>5. Settled(0, queue, applied)
        BY <1>3 DEF Settled, StoredInv
    <2>6. AckInv'
        <3>1. SettledAcks(<<>>, queue, applied)
            BY DEF SettledAcks
        <3>2. QED
            BY <1>1, <2>1, <2>2, <2>5, <3>1 DEF AckInv
    <2>7. SentInv'
        <3>1. replayOn <= nConn /\ replayOn \in Nat
            BY DEF ReplayInv, TypeOK, Conns, None
        <3>2. replaying /\ replayOn \in {None, nConn + 1} => queue \ todo = {}
            BY <1>1, <3>1 DEF ReplayInv
        <3>3. QED
            BY <2>1, <3>2 DEF SentInv
    <2>8. QED
        BY <2>4, <2>6, <2>7 DEF LinkInv
<1>7. CASE SendHello
    <2>1. UNCHANGED <<seq, queue, disk, conn, ready, replaying, todo, replayOn, s2c, inHandler,
                      lastProc, noted, applied, nextId, evicted, forgot>>
        BY <1>7 DEF SendHello, serverVars, historyVars
    <2>2. CASE conn = None
        <3>1. c2s' = c2s
            BY <1>7, <2>2 DEF SendHello
        <3>2. SentInv'
            BY <2>1, <2>2 DEF SentInv
        <3>3. QED
            BY <2>1, <3>1, <3>2, QuietKeeps
    <2>3. CASE conn # None
        <3>1. c2s' = [c2s EXCEPT ![conn] = Append(@, HelloFrame)]
            BY <1>7, <2>3 DEF SendHello
        <3>2. HelloFrame \in Frame /\ HelloFrame.seq \in Nat /\ HelloFrame.seq \in {lastAcked, 1}
            BY <1>1, FramesWritten, FrameFields, LargerIsMax
        <3>3. HelloFrame.seq <= seq
            BY <1>2, <3>2 DEF CounterAboveLocal
        <3>4. \A m \in queue : ~(m.seq <= HelloFrame.seq)
            <4>1. \A m \in queue : m.seq > lastAcked /\ m.seq > 1
                BY DEF StoredInv
            <4>2. QED
                BY <1>1, <1>3, <3>2, <4>1
        <3>5. ~replaying'
            BY <1>7 DEF SendHello
        <3>6. PICK f \in Frame : f = HelloFrame
            BY <3>2
        <3>7. /\ c2s' = [c2s EXCEPT ![conn] = Append(@, f)] /\ f.seq <= seq' /\ seq <= seq'
              /\ \A m \in queue : ~(m.seq <= f.seq)
            BY <1>1, <2>1, <3>1, <3>3, <3>4, <3>6
        <3>8. QED
            BY <2>1, <2>3, <3>5, <3>7, WriteKeeps
    <2>4. QED
        BY <2>2, <2>3
<1>8. CASE StartReplay
    <2>1. /\ todo' = queue
          /\ UNCHANGED <<seq, queue, disk, conn, ready, c2s, s2c, inHandler, lastProc, noted,
                         applied, nextId, evicted, forgot>>
        BY <1>8 DEF StartReplay, serverVars, historyVars
    <2>2. SentInv'
        BY <2>1 DEF LinkInv, SentInv
    <2>3. QED
        BY <2>1, <2>2, QuietKeeps
<1>9. CASE ReplayEntry
    <2>1. PICK m \in todo : /\ IsOldest(m, todo) /\ todo' = todo \ {m}
                            /\ c2s' = [c2s EXCEPT ![conn] = Append(@, DataFrame(m))]
        BY <1>9 DEF ReplayEntry
    <2>2. /\ replaying /\ conn # None /\ replayOn' = (IF replayOn = None THEN conn ELSE replayOn)
          /\ UNCHANGED <<seq, queue, disk, conn, ready, s2c, inHandler, lastProc, noted,
                         applied, nextId, evicted, forgot>>
        BY <1>9 DEF ReplayEntry, serverVars
    <2>3. replayOn \in {None, conn}
        <3>1. ~Straddles
            BY <1>9 DEF ReplayEntry
        <3>2. QED
            BY <2>2, <3>1 DEF Straddles
    <2>4. \A o \in queue \ todo : Sent(o, c2s[conn], applied)
        BY <2>2, <2>3 DEF LinkInv, SentInv
    <2>5. ASSUME NEW o \in queue, o.seq <= m.seq
          PROVE  Sent(o, c2s[conn], applied) \/ DataFrame(m) = DataFrame(o)
        <3>1. CASE o \in todo
            <4>1. o.seq = m.seq
                BY <1>3, <2>1, <2>5, <3>1 DEF IsOldest
            <4>2. o = m
                BY <2>1, <4>1 DEF StoredInv, OneEntryEach
            <4>3. QED
                BY <4>2
        <3>2. CASE o \notin todo
            BY <2>4, <3>2
        <3>3. QED
            BY <3>1, <3>2
    <2>6. DataFrame(m) \in Frame /\ DataFrame(m).seq = m.seq /\ m.seq <= seq
        BY <1>1, <1>3, FramesWritten
    <2>7. \A o \in queue \ todo' : Sent(o, c2s[conn], applied) \/ DataFrame(m) = DataFrame(o)
        BY <2>1, <2>4
    <2>8. PICK f \in Frame : f = DataFrame(m)
        BY <2>6
    <2>9. /\ c2s' = [c2s EXCEPT ![conn] = Append(@, f)] /\ f.seq <= seq' /\ seq <= seq'
          /\ \A o \in queue : o.seq <= f.seq => Sent(o, c2s[conn], applied) \/ f = DataFrame(o)
          /\ \A o \in queue \ todo' : Sent(o, c2s[conn], applied) \/ f = DataFrame(o)
        BY <1>1, <2>1, <2>2, <2>5, <2>6, <2>7, <2>8
    <2>10. QED
        BY <2>2, <2>9, WriteKeeps
<1>10. CASE EndReplay
    <2>1. /\ replaying' = FALSE
          /\ UNCHANGED <<seq, queue, disk, conn, c2s, s2c, inHandler, lastProc, noted,
                         applied, nextId, evicted, forgot>>
        BY <1>10 DEF EndReplay, serverVars
    <2>2. conn # None /\ ready' => \A m \in queue : Sent(m, c2s[conn], applied)
        <3>1. ASSUME conn # None, ready' PROVE \A m \in queue : Sent(m, c2s[conn], applied)
            <4>1. replaying /\ todo = {} /\ ~Straddles
                BY <1>10, <3>1 DEF EndReplay
            <4>2. replayOn \in {None, conn}
                BY <3>1, <4>1 DEF Straddles
            <4>3. QED
                BY <3>1, <4>1, <4>2 DEF LinkInv, SentInv
        <3>2. QED
            BY <3>1
    <2>3. SentInv'
        BY <2>1, <2>2 DEF SentInv
    <2>4. QED
        BY <2>1, <2>3, QuietKeeps
<1>11. CASE RecvAck
    <2> DEFINE ack == Head(s2c[conn])
               kept == Above(queue, ack)
    <2>1. /\ conn # None /\ s2c[conn] # <<>>
          /\ queue' = kept /\ (disk' = disk \/ disk' = kept)
          /\ forgot' = forgot \cup (Ids(queue \ kept) \ applied)
          /\ s2c' = [s2c EXCEPT ![conn] = Tail(@)]
          /\ UNCHANGED <<seq, conn, ready, replaying, todo, replayOn, c2s, inHandler, lastProc,
                         noted, applied, nextId, evicted>>
        BY <1>11 DEF RecvAck, serverVars
    <2>2. PICK q \in Seq(Nat) : q = s2c[conn]
        BY <1>1, <2>1
    <2>3. ack \in Nat /\ Tail(q) \in Seq(Nat) /\ q # <<>> /\ ack = Head(q)
        BY <2>1, <2>2, HeadTailProperties
    <2>4. SettledAcks(q, queue, applied) /\ AcksUpTo(q, seq)
        BY <1>2, <2>1, <2>2 DEF LinkInv, AckInv, CurrentTraffic
    <2>5. Settled(ack, queue, applied) /\ SettledAcks(Tail(q), queue, applied)
            /\ AcksUpTo(Tail(q), seq)
        BY <1>1, <2>3, <2>4, AcksStaySettled, AcksBounded
    <2>6. kept \subseteq queue /\ \A m \in queue \ kept : m.seq <= ack
        BY <1>1, <2>3 DEF Above, Entry
    <2>7. \A m \in queue \ kept : m.id \in applied
        BY <2>5, <2>6 DEF Settled
    <2> HIDE DEF ack, kept
    <2>8. Later(seq, queue, applied, queue', applied') /\ seq <= seq'
        BY <1>1, <2>1, <2>6, LaterOfSubset
    <2>9. NotedInv' /\ \A c \in Conns : SocketInv(c)'
        BY <1>1, <2>1, <2>8, NotedKept, SocketKept DEF LinkInv
    <2>10. AckInv'
        <3>1. s2c'[conn] = Tail(q)
            BY <1>1, <2>1, <2>2 DEF TypeOK
        <3>2. SettledAcks(Tail(q), queue', applied')
            BY <1>1, <2>1, <2>3, <2>5, <2>6, <2>8, AcksStaySettled
        <3>3. lastProc[conn] <= seq /\ Settled(lastProc[conn], queue', applied')
            <4>1. lastProc[conn] \in Nat
                BY <1>1, <2>1 DEF TypeOK
            <4>2. QED
                BY <1>1, <2>1, <2>6, <2>8, <4>1, LaterKeeps DEF LinkInv, AckInv
        <3>4. QED
            BY <2>1, <3>1, <3>2, <3>3 DEF AckInv
    <2>11. SentInv'
        BY <2>1, <2>6 DEF LinkInv, SentInv
    <2>12. KeptInv'
        <3>1. /\ forgot = {} /\ \A m \in disk \ queue : m.id \in applied
              /\ 1..nextId \subseteq applied \cup evicted \cup Ids(queue)
            BY DEF LinkInv, KeptInv
        <3>2. forgot' = {}
            BY <2>1, <2>7, <3>1 DEF Ids
        <3>3. \A m \in disk' \ queue' : m.id \in applied
            BY <2>1, <2>7, <3>1
        <3>4. Ids(queue) \subseteq applied \cup Ids(kept)
            BY <2>7 DEF Ids
        <3>5. QED
            BY <2>1, <3>1, <3>2, <3>3, <3>4 DEF KeptInv
    <2>13. QED
        BY <2>9, <2>10, <2>11, <2>12 DEF LinkInv
<1>12. CASE SaveAck
    <2>1. UNCHANGED <<seq, queue, disk, conn, ready, replaying, todo, replayOn, c2s, s2c,
                      inHandler, lastProc, noted, applied, nextId, evicted, forgot>>
        BY <1>12 DEF SaveAck, serverVars, historyVars
    <2>2. SentInv'
        BY <2>1 DEF LinkInv, SentInv
    <2>3. QED
        BY <2>1, <2>2, QuietKeeps
<1>13. QED
    BY <1>4, <1>5, <1>6, <1>7, <1>8, <1>9, <1>10, <1>11, <1>12 DEF AgentNext
\* Taking a frame whose message is, or is now, applied makes acknowledging it
\* true and leaves the rest of the frames, and what is sent, as they were.
LEMMA TakeKeeps ==
    ASSUME TypeOK, TypeOK', LinkInv, NEW c \in Conns, c2s[c] # <<>>, TakeFrame(c),
           applied \subseteq applied', agentVars' = agentVars,
           \A m \in queue : NextFrame(c) = DataFrame(m) => m.id \in applied'
    PROVE  /\ NextFrame(c) \in Frame /\ NextFrame(c).seq \in Nat /\ NextFrame(c).seq <= seq
           /\ Settled(NextFrame(c).seq, queue, applied')
           /\ FramesUpTo(c2s'[c], seq) /\ InOrder(c2s'[c], queue, applied')
           /\ NoFalseRedelivery(c2s'[c], lastProc[c], queue, applied')
           /\ Settled(inHandler[c], queue, applied')
           /\ \A d \in Conns : d # c => c2s'[d] = c2s[d]
           /\ Later(seq, queue, applied, queue', applied')
           /\ SentInv'
<1>1. /\ seq \in Nat /\ queue \subseteq Entry /\ inHandler[c] \in Nat /\ lastProc[c] \in Nat
      /\ c2s[c] \in Seq(Frame)
    BY DEF TypeOK
<1>2. PICK q \in Seq(Frame) : q = c2s[c]
    BY <1>1
<1>3. /\ q # <<>> /\ NextFrame(c) = Head(q) /\ c2s'[c] = Tail(q)
      /\ \A d \in Conns : d # c => c2s'[d] = c2s[d]
    BY <1>2 DEF NextFrame, TakeFrame, TypeOK
<1>4. /\ NextFrame(c) \in Frame /\ NextFrame(c).seq \in Nat
    BY HeadFrame, FrameFields
<1>5. queue' = queue /\ Later(seq, queue, applied, queue', applied')
    BY LaterOfSubset DEF agentVars
<1>6. /\ FramesUpTo(q, seq) /\ InOrder(q, queue, applied')
      /\ NoFalseRedelivery(q, lastProc[c], queue, applied')
      /\ Settled(inHandler[c], queue, applied')
    BY <1>1, <1>2, <1>5, LaterKeeps DEF LinkInv, SocketInv
<1>7. /\ Settled(Head(q).seq, queue, applied') /\ InOrder(Tail(q), queue, applied')
      /\ NoFalseRedelivery(Tail(q), lastProc[c], queue, applied')
      /\ \A m \in queue : Sent(m, q, applied') => Sent(m, Tail(q), applied')
    BY <1>3, <1>6, OrderOfTail
<1>8. Head(q).seq <= seq /\ FramesUpTo(Tail(q), seq)
    BY <1>1, <1>3, <1>6, FramesBounded
<1>9. SentInv'
    <2>1. UNCHANGED <<conn, ready, replaying, todo, replayOn, queue>>
        BY DEF agentVars
    <2>2. ASSUME conn # None, NEW m \in queue, Sent(m, c2s[conn], applied)
          PROVE  Sent(m, c2s'[conn], applied')
        <3>1. Sent(m, c2s[conn], applied')
            BY <2>2 DEF Sent
        <3>2. CASE conn = c
            BY <1>2, <1>3, <1>7, <3>1, <3>2
        <3>3. CASE conn # c
            <4>1. conn \in Conns
                BY <2>2 DEF TypeOK
            <4>2. QED
                BY <1>3, <3>1, <3>3, <4>1
        <3>4. QED
            BY <3>2, <3>3
    <2>3. QED
        BY <2>1, <2>2 DEF LinkInv, SentInv
<1>10. QED
    BY <1>3, <1>4, <1>5, <1>6, <1>7, <1>8, <1>9

\* Acknowledging a true number, wherever it goes.
LEMMA TrueAckKeeps ==
    ASSUME TypeOK, NEW c \in Conns, NEW n \in Nat, SendAck(c, n), conn # None,
           SettledAcks(s2c[conn], queue, applied), Settled(n, queue, applied)
    PROVE  SettledAcks(s2c'[conn], queue, applied)
<1>1. conn \in Conns /\ s2c[conn] \in Seq(Nat)
    BY DEF TypeOK
<1>2. CASE c = conn
    <2>1. s2c'[conn] = Append(s2c[conn], n)
        BY <1>1, <1>2 DEF SendAck, TypeOK
    <2>2. QED
        BY <1>1, <2>1, AcksStaySettled
<1>3. CASE c # conn
    BY <1>3 DEF SendAck
<1>4. QED
    BY <1>2, <1>3

\* The control plane's steps keep frames in order unless a full authentication
\* buffer drops one.
LEMMA LinkStepServer ==
    ASSUME TypeOK, TypeOK', CounterInv, FrameInv, CursorInv, LinkInv, ServerNext, suspect' = {}
    PROVE  LinkInv'
<1> USE LinkAssumption
<1>1. /\ seq \in Nat /\ queue \subseteq Entry /\ noted \in Nat /\ dbAcked \in Nat
      /\ conn # None => conn \in Conns
      /\ CurrentTraffic
    BY DEF TypeOK, CounterInv
<1>2. ASSUME NEW c \in Conns, Authenticate(c) PROVE LinkInv'
    <2>1. UNCHANGED <<agentVars, s2c, inHandler, lastProc, noted, applied, nextId, evicted, forgot>>
        BY <1>2 DEF Authenticate
    <2>2. c2s' = c2s
        BY <1>2 DEF Authenticate
    <2>3. SentInv'
        BY <2>1, <2>2 DEF agentVars, LinkInv, SentInv
    <2>4. QED
        BY <2>1, <2>2, <2>3, QuietKeeps DEF agentVars
<1>3. ASSUME NEW c \in Conns, AckRedelivery(c) PROVE LinkInv'
    <2>1. /\ CanHandle(c) /\ Redelivered(c) /\ TakeFrame(c) /\ SendAck(c, NextFrame(c).seq)
          /\ UNCHANGED <<agentVars, inHandler, lastProc, noted, applied, nextId, evicted, forgot>>
        BY <1>3 DEF AckRedelivery, serverVars, historyVars
    <2>2. c2s[c] # <<>>
        BY <2>1 DEF CanHandle
    <2>3. ASSUME NEW m \in queue, NextFrame(c) = DataFrame(m) PROVE m.id \in applied
        <3>1. c2s[c] \in Seq(Frame) /\ m \in Entry
            BY <1>1 DEF TypeOK
        <3>2. 1 \in 1..Len(c2s[c]) /\ NextFrame(c) = c2s[c][1]
            BY <2>2, <3>1, HeadTailProperties, LenProperties, EmptySeq DEF NextFrame
        <3>3. m.seq = c2s[c][1].seq /\ m.seq <= lastProc[c] /\ m.seq \in Nat
            BY <2>1, <2>3, <3>1, <3>2, FramesWritten DEF Redelivered, Entry
        <3>4. NoFalseRedelivery(c2s[c], lastProc[c], queue, applied)
            BY DEF LinkInv, SocketInv
        <3>5. QED
            BY <3>2, <3>3, <3>4 DEF NoFalseRedelivery
    <2>4. /\ NextFrame(c).seq \in Nat /\ Settled(NextFrame(c).seq, queue, applied)
          /\ FramesUpTo(c2s'[c], seq) /\ InOrder(c2s'[c], queue, applied)
          /\ NoFalseRedelivery(c2s'[c], lastProc[c], queue, applied)
          /\ \A d \in Conns : d # c => c2s'[d] = c2s[d]
          /\ Later(seq, queue, applied, queue', applied')
          /\ SentInv'
        BY <2>1, <2>2, <2>3, TakeKeeps
    <2>5. NotedInv' /\ KeptInv'
        BY <1>1, <2>1, <2>4, NotedKept, KeptUnchanged DEF LinkInv, agentVars
    <2>6. ASSUME NEW d \in Conns PROVE SocketInv(d)'
        <3>1. CASE d # c
            BY <1>1, <2>1, <2>4, <3>1, SocketKept DEF LinkInv, agentVars
        <3>2. CASE d = c
            BY <2>1, <2>4, <3>2 DEF LinkInv, SocketInv, agentVars
        <3>3. QED
            BY <3>1, <3>2
    <2>7. AckInv'
        BY <2>1, <2>4, TrueAckKeeps DEF LinkInv, AckInv, agentVars
    <2>8. QED
        BY <2>4, <2>5, <2>6, <2>7 DEF LinkInv
<1>4. ASSUME NEW c \in Conns, Handle(c) PROVE LinkInv'
    <2> DEFINE f == NextFrame(c)
    <2>1. /\ CanHandle(c) /\ TakeFrame(c) /\ inHandler' = [inHandler EXCEPT ![c] = f.seq]
          /\ IF f.kind = "hello"
             THEN lastProc' = [lastProc EXCEPT ![c] = Larger(dbAcked, f.resume)] /\ applied' = applied
             ELSE applied' = applied \cup ({f.id} \ {0}) /\ lastProc' = lastProc
          /\ UNCHANGED <<agentVars, s2c, noted, nextId, evicted, forgot>>
        BY <1>4 DEF Handle, historyVars
    <2>2. c2s[c] # <<>> /\ applied \subseteq applied'
        BY <2>1 DEF CanHandle
    <2>3. ASSUME NEW m \in queue, f = DataFrame(m) PROVE m.id \in applied'
        <3>1. f.kind = "data" /\ f.id = m.id /\ m.id # 0
            BY <1>1, <2>3 DEF DataFrame, Entry
        <3>2. QED
            BY <2>1, <3>1
    <2>4. /\ f \in Frame /\ f.seq \in Nat /\ f.seq <= seq
          /\ Settled(f.seq, queue, applied')
          /\ FramesUpTo(c2s'[c], seq) /\ InOrder(c2s'[c], queue, applied')
          /\ NoFalseRedelivery(c2s'[c], lastProc[c], queue, applied')
          /\ \A d \in Conns : d # c => c2s'[d] = c2s[d]
          /\ Later(seq, queue, applied, queue', applied')
          /\ SentInv'
        <3> HIDE DEF f
        <3>1. QED
            BY <2>1, <2>2, <2>3, TakeKeeps DEF f
    <2>5. NotedInv' /\ KeptInv'
        BY <1>1, <2>1, <2>2, <2>4, NotedKept, KeptUnchanged DEF LinkInv, agentVars
    <2>6. f.kind = "hello" => f.resume \in Nat /\ f.resume <= f.seq
        <3>1. c2s[c] \in Seq(KnownFrame(nextId))
            BY DEF FrameInv
        <3>2. f \in KnownFrame(nextId)
            BY <2>2, <3>1, HeadTailProperties DEF NextFrame
        <3>3. QED
            BY <2>4, <3>2, FrameFields DEF KnownFrame
    <2>7. /\ lastProc'[c] \in Nat /\ inHandler'[c] = f.seq
          /\ f.kind = "hello" => lastProc'[c] = Larger(dbAcked, f.resume)
          /\ f.kind # "hello" => lastProc'[c] = lastProc[c]
          /\ \A d \in Conns : d # c => lastProc'[d] = lastProc[d] /\ inHandler'[d] = inHandler[d]
        BY <2>1 DEF TypeOK
    <2> HIDE DEF f
    <2>8. f.kind = "hello" => lastProc'[c] <= seq /\ Settled(lastProc'[c], queue, applied')
        <3>1. ASSUME f.kind = "hello"
              PROVE  lastProc'[c] <= seq /\ Settled(lastProc'[c], queue, applied')
            <4>1. lastProc'[c] \in {dbAcked, f.resume}
                BY <1>1, <2>6, <2>7, <3>1, LargerIsMax
            <4>2. dbAcked <= noted /\ noted <= seq /\ Settled(noted, queue, applied')
                BY <1>1, <2>1, <2>4, LaterKeeps DEF CursorInv, LinkInv, NotedInv, agentVars
            <4>3. dbAcked <= seq /\ Settled(dbAcked, queue, applied')
                BY <1>1, <4>2, SettledBelow
            <4>4. f.resume <= seq /\ Settled(f.resume, queue, applied')
                BY <1>1, <2>4, <2>6, <3>1, SettledBelow
            <4>5. QED
                BY <4>1, <4>3, <4>4
        <3>2. QED
            BY <3>1
    <2>9. NoFalseRedelivery(c2s'[c], lastProc'[c], queue, applied')
        <3>1. CASE f.kind = "hello"
            BY <1>1, <2>7, <2>8, <3>1, SettledBelow
        <3>2. CASE f.kind # "hello"
            BY <2>4, <2>7, <3>2
        <3>3. QED
            BY <3>1, <3>2
    <2>10. ASSUME NEW d \in Conns PROVE SocketInv(d)'
        <3>1. CASE d # c
            BY <1>1, <2>1, <2>4, <2>7, <3>1, SocketKept DEF LinkInv, agentVars
        <3>2. CASE d = c
            <4>1. queue' = queue /\ seq' = seq
                BY <2>1 DEF agentVars
            <4>2. SocketInv(c)'
                BY <2>4, <2>7, <2>9, <4>1 DEF SocketInv
            <4>3. QED
                BY <3>2, <4>2
        <3>3. QED
            BY <3>1, <3>2
    <2>11. AckInv'
        <3>1. UNCHANGED <<conn, queue, seq, s2c>>
            BY <2>1 DEF agentVars
        <3>2. CASE conn = c
            <4>1. lastProc'[c] <= seq /\ Settled(lastProc'[c], queue, applied')
                <5>1. CASE f.kind = "hello"
                    BY <2>8, <5>1
                <5>2. CASE f.kind # "hello"
                    <6>1. conn # None
                        BY <3>2 DEF Conns, None
                    <6>2. lastProc[c] <= seq /\ Settled(lastProc[c], queue, applied)
                        BY <3>2, <6>1 DEF LinkInv, AckInv
                    <6>3. lastProc[c] \in Nat
                        BY DEF TypeOK
                    <6>4. QED
                        BY <1>1, <2>4, <2>7, <3>1, <5>2, <6>2, <6>3, LaterKeeps
                <5>3. QED
                    BY <5>1, <5>2
            <4>2. SettledAcks(s2c[c], queue, applied')
                <5>1. conn # None
                    BY <3>2 DEF Conns, None
                <5>2. AcksUpTo(s2c[c], seq) /\ SettledAcks(s2c[c], queue, applied)
                    BY <1>1, <3>2, <5>1 DEF CurrentTraffic, LinkInv, AckInv
                <5>3. s2c[c] \in Seq(Nat)
                    BY DEF TypeOK
                <5>4. QED
                    BY <1>1, <2>4, <3>1, <5>2, <5>3, AcksStaySettled
            <4>3. QED
                BY <3>1, <3>2, <4>1, <4>2 DEF AckInv
        <3>3. CASE conn # c
            BY <1>1, <2>4, <2>7, <3>1, <3>3, AckKept DEF LinkInv
        <3>4. QED
            BY <3>2, <3>3
    <2>12. QED
        BY <2>4, <2>5, <2>10, <2>11 DEF LinkInv
<1>5. ASSUME NEW c \in Conns, FinishHandler(c) PROVE LinkInv'
    <2>1. /\ SendAck(c, inHandler[c])
          /\ \/ lastProc' = [lastProc EXCEPT ![c] = inHandler[c]]
                /\ noted' = Larger(noted, inHandler[c])
             \/ UNCHANGED <<lastProc, noted>>
          /\ inHandler' = [inHandler EXCEPT ![c] = None]
          /\ UNCHANGED <<agentVars, c2s, applied, nextId, evicted, forgot>>
        BY <1>5 DEF FinishHandler, historyVars
    <2>2. inHandler[c] \in Nat /\ inHandler[c] <= seq /\ Settled(inHandler[c], queue, applied)
        BY DEF TypeOK, LinkInv, SocketInv
    <2>3. /\ lastProc'[c] = inHandler[c] \/ lastProc'[c] = lastProc[c]
          /\ noted' = noted \/ noted' = Larger(noted, inHandler[c])
          /\ inHandler'[c] = 0
          /\ \A d \in Conns : d # c => lastProc'[d] = lastProc[d] /\ inHandler'[d] = inHandler[d]
        BY <2>1 DEF TypeOK, None
    <2>4. NotedInv'
        <3>1. noted' \in {noted, inHandler[c]}
            BY <1>1, <2>2, <2>3, LargerIsMax
        <3>2. noted' <= seq /\ Settled(noted', queue, applied)
            BY <2>2, <3>1 DEF LinkInv, NotedInv
        <3>3. QED
            BY <2>1, <3>2 DEF NotedInv, agentVars
    <2>5. Later(seq, queue, applied, queue', applied')
        BY <2>1, LaterOfSubset DEF agentVars
    <2>6. ASSUME NEW d \in Conns PROVE SocketInv(d)'
        <3>1. CASE d # c
            BY <1>1, <2>1, <2>3, <2>5, <3>1, SocketKept DEF LinkInv, agentVars
        <3>2. CASE d = c
            <4>1. NoFalseRedelivery(c2s[c], lastProc'[c], queue, applied)
                BY <1>1, <2>2, <2>3, SettledBelow DEF LinkInv, SocketInv
            <4>2. 0 <= seq /\ Settled(0, queue, applied)
                BY <1>1, <2>2, SettledBelow
            <4>3. FramesUpTo(c2s[c], seq) /\ InOrder(c2s[c], queue, applied)
                BY DEF LinkInv, SocketInv
            <4>4. UNCHANGED <<queue, seq, applied, c2s>>
                BY <2>1 DEF agentVars
            <4>5. SocketInv(c)'
                BY <2>3, <4>1, <4>2, <4>3, <4>4 DEF SocketInv
            <4>6. QED
                BY <3>2, <4>5
        <3>3. QED
            BY <3>1, <3>2
    <2>7. AckInv'
        <3>1. UNCHANGED <<conn, queue, seq, applied>>
            BY <2>1 DEF agentVars
        <3>2. ASSUME conn # None
              PROVE  /\ lastProc'[conn] <= seq /\ Settled(lastProc'[conn], queue, applied)
                     /\ SettledAcks(s2c'[conn], queue, applied)
            <4>1. /\ conn \in Conns /\ lastProc[conn] <= seq
                  /\ Settled(lastProc[conn], queue, applied)
                  /\ SettledAcks(s2c[conn], queue, applied)
                BY <1>1, <3>2 DEF LinkInv, AckInv
            <4>2. SettledAcks(s2c'[conn], queue, applied)
                BY <2>1, <2>2, <3>2, <4>1, TrueAckKeeps
            <4>3. CASE conn = c
                BY <2>2, <2>3, <4>1, <4>2, <4>3
            <4>4. CASE conn # c
                BY <2>3, <4>1, <4>2, <4>4
            <4>5. QED
                BY <4>3, <4>4
        <3>3. QED
            BY <3>1, <3>2 DEF AckInv
    <2>8. SentInv' /\ KeptInv'
        BY <2>1, KeptUnchanged DEF LinkInv, SentInv, agentVars
    <2>9. QED
        BY <2>4, <2>6, <2>7, <2>8 DEF LinkInv
<1>6. CASE Persist
    <2>1. UNCHANGED <<agentVars, c2s, s2c, inHandler, lastProc, noted, applied, nextId, evicted,
                      forgot>>
        BY <1>6 DEF Persist, historyVars
    <2>2. SentInv'
        BY <2>1 DEF agentVars, LinkInv, SentInv
    <2>3. QED
        BY <2>1, <2>2, QuietKeeps DEF agentVars
<1>7. QED
    BY <1>2, <1>3, <1>4, <1>5, <1>6 DEF ServerNext
\* Faults lose frames, connections, handlers and whole processes, and leave what
\* is left in order, unless a restarted agentd takes numbers that the control
\* plane has seen.
LEMMA LinkStepFault ==
    ASSUME TypeOK, TypeOK', CounterInv, StoredInv, CursorInv, LinkInv, FaultNext, suspect' = {}
    PROVE  LinkInv'
<1> USE LinkAssumption
<1>1. /\ seq \in Nat /\ queue \subseteq Entry /\ noted \in Nat /\ dbAcked \in Nat
      /\ conn # None => conn \in Conns
      /\ \A m \in queue : m.seq \in Nat /\ m.seq > 1
    BY DEF TypeOK, StoredInv, Entry
<1>2. Settled(0, queue, applied)
    BY <1>1 DEF Settled
<1>3. ASSUME NEW c \in Conns, LoseFrames(c)
      PROVE  /\ \A n \in Nat : FramesUpTo(c2s[c], n) => FramesUpTo(c2s'[c], n)
             /\ \A held, done :
                  /\ InOrder(c2s[c], held, done) => InOrder(c2s'[c], held, done)
                  /\ \A n : NoFalseRedelivery(c2s[c], n, held, done)
                                => NoFalseRedelivery(c2s'[c], n, held, done)
             /\ \A d \in Conns : d # c => c2s'[d] = c2s[d]
    <2>1. PICK k \in 0..Len(c2s[c]) : c2s' = [c2s EXCEPT ![c] = SubSeq(@, 1, k)]
        BY <1>3 DEF LoseFrames
    <2>2. PICK q \in Seq(Frame) : q = c2s[c]
        BY DEF TypeOK
    <2>3. c2s'[c] = SubSeq(q, 1, k) /\ \A d \in Conns : d # c => c2s'[d] = c2s[d]
        BY <2>1, <2>2 DEF TypeOK
    <2>4. k \in 0..Len(q)
        BY <2>2
    <2>5. \A n \in Nat : FramesUpTo(q, n) => FramesUpTo(SubSeq(q, 1, k), n)
        BY <2>4, FramesBounded
    <2>6. \A held, done :
            /\ InOrder(q, held, done) => InOrder(SubSeq(q, 1, k), held, done)
            /\ \A n : NoFalseRedelivery(q, n, held, done)
                        => NoFalseRedelivery(SubSeq(q, 1, k), n, held, done)
        BY <2>4, OrderOfPrefix
    <2>7. QED
        BY <2>2, <2>3, <2>5, <2>6
<1>4. CASE Drop
    <2>1. /\ conn # None /\ conn \in Conns /\ LoseFrames(conn) /\ conn' = None
          /\ UNCHANGED <<seq, queue, disk, inHandler, lastProc, noted, applied, nextId, evicted,
                         forgot>>
        BY <1>1, <1>4 DEF Drop, Disconnected, serverVars
    <2>2. Later(seq, queue, applied, queue', applied')
        BY <2>1, LaterOfSubset
    <2>3. NotedInv' /\ KeptInv' /\ AckInv' /\ SentInv'
        BY <1>1, <2>1, <2>2, NotedKept, KeptUnchanged DEF LinkInv, AckInv, SentInv
    <2>4. ASSUME NEW c \in Conns PROVE SocketInv(c)'
        <3>1. CASE c # conn
            <4>1. c2s'[c] = c2s[c]
                BY <1>3, <2>1, <3>1
            <4>2. QED
                BY <1>1, <2>1, <2>2, <4>1, SocketKept DEF LinkInv
        <3>2. CASE c = conn
            <4>1. /\ inHandler[c] <= seq /\ Settled(inHandler[c], queue, applied)
                  /\ FramesUpTo(c2s'[c], seq) /\ InOrder(c2s'[c], queue, applied)
                  /\ NoFalseRedelivery(c2s'[c], lastProc[c], queue, applied)
                BY <1>1, <1>3, <2>1, <3>2 DEF LinkInv, SocketInv
            <4>2. QED
                BY <2>1, <4>1 DEF SocketInv
        <3>3. QED
            BY <3>1, <3>2
    <2>5. QED
        BY <2>3, <2>4 DEF LinkInv
<1>5. ASSUME NEW c \in Conns, HandlerFails(c) PROVE LinkInv'
    <2>1. /\ Disconnected(c) /\ c2s' = [c2s EXCEPT ![c] = <<>>]
          /\ inHandler' = [inHandler EXCEPT ![c] = None]
          /\ UNCHANGED <<seq, queue, disk, replaying, todo, replayOn, lastProc, noted, applied,
                         nextId, evicted, forgot>>
        BY <1>5 DEF HandlerFails
    <2>2. /\ c2s'[c] = <<>> /\ inHandler'[c] = 0
          /\ \A d \in Conns : d # c => c2s'[d] = c2s[d] /\ inHandler'[d] = inHandler[d]
        BY <2>1 DEF TypeOK, None
    <2>3. Later(seq, queue, applied, queue', applied')
        BY <2>1, LaterOfSubset
    <2>4. NotedInv' /\ KeptInv'
        BY <1>1, <2>1, <2>3, NotedKept, KeptUnchanged DEF LinkInv
    <2>5. ASSUME NEW d \in Conns PROVE SocketInv(d)'
        <3>1. CASE d # c
            BY <1>1, <2>1, <2>2, <2>3, <3>1, SocketKept DEF LinkInv
        <3>2. CASE d = c
            <4>1. /\ 0 <= seq
                  /\ FramesUpTo(<<>>, seq) /\ InOrder(<<>>, queue, applied)
                  /\ NoFalseRedelivery(<<>>, lastProc[c], queue, applied)
                BY <1>1, OrderOfNothing
            <4>2. SocketInv(c)'
                BY <1>2, <2>1, <2>2, <4>1 DEF SocketInv
            <4>3. QED
                BY <3>2, <4>2
        <3>3. QED
            BY <3>1, <3>2
    <2>6. AckInv' /\ SentInv'
        <3>1. CASE c = conn
            <4>1. conn' = None
                BY <2>1, <3>1 DEF Disconnected
            <4>2. QED
                BY <4>1 DEF AckInv, SentInv
        <3>2. CASE c # conn
            <4>1. UNCHANGED <<conn, ready, s2c>>
                BY <2>1, <3>2 DEF Disconnected
            <4>2. conn # None => c2s'[conn] = c2s[conn]
                BY <1>1, <2>2, <3>2
            <4>3. AckInv'
                BY <1>1, <2>1, <2>3, <4>1, AckKept DEF LinkInv, CounterInv
            <4>4. SentInv'
                BY <2>1, <4>1, <4>2 DEF LinkInv, SentInv
            <4>5. QED
                BY <4>3, <4>4
        <3>3. QED
            BY <3>1, <3>2
    <2>7. QED
        BY <2>4, <2>5, <2>6 DEF LinkInv
<1>6. CASE ServerRestart
    <2>1. /\ c2s' = [c \in Conns |-> <<>>] /\ inHandler' = [c \in Conns |-> None]
          /\ lastProc' = [c \in Conns |-> 0] /\ conn' = None
          /\ noted' \in dbAcked..noted
          /\ UNCHANGED <<seq, queue, disk, applied, nextId, evicted, forgot>>
        BY <1>6 DEF ServerRestart
    <2>2. Later(seq, queue, applied, queue', applied')
        BY <2>1, LaterOfSubset
    <2>3. NotedInv' /\ KeptInv' /\ AckInv' /\ SentInv'
        BY <1>1, <2>1, <2>2, NotedKept, KeptUnchanged DEF LinkInv, AckInv, SentInv
    <2>4. ASSUME NEW c \in Conns PROVE SocketInv(c)'
        <3>1. c2s'[c] = <<>> /\ inHandler'[c] = 0 /\ lastProc'[c] = 0
            BY <2>1 DEF None
        <3>2. /\ 0 <= seq
              /\ FramesUpTo(<<>>, seq) /\ InOrder(<<>>, queue, applied)
              /\ NoFalseRedelivery(<<>>, 0, queue, applied)
            BY <1>1, OrderOfNothing
        <3>3. QED
            BY <1>2, <2>1, <3>1, <3>2 DEF SocketInv
    <2>5. QED
        BY <2>3, <2>4 DEF LinkInv
<1>7. CASE AgentRestart
    <2>1. /\ IF conn = None THEN UNCHANGED c2s ELSE LoseFrames(conn)
          /\ conn' = None
          /\ UNCHANGED <<inHandler, lastProc, noted, applied, nextId, evicted>>
        BY <1>7 DEF AgentRestart, serverVars
    <2>2. PICK acked \in {ackedFile} \cup {n \in {0} : saving # None} : Startup(disk, acked)
        BY <1>7 DEF AgentRestart
    <2>3. acked \in Nat /\ acked <= lastAcked
        <3>1. ackedFile \in Nat /\ lastAcked \in Nat /\ ackedFile <= lastAcked
            BY DEF TypeOK, StoredInv
        <3>2. acked = ackedFile \/ acked = 0
            OBVIOUS
        <3>3. QED
            BY <3>1, <3>2
    <2>4. /\ queue' = Above(disk, acked) /\ queue' \subseteq disk' /\ disk' \subseteq disk
          /\ queue \subseteq queue'
          /\ forgot' = forgot \cup (Ids(disk \ queue') \ applied)
        BY <2>2, <2>3, RestartFacts
    <2>5. /\ forgot = {} /\ \A m \in disk \ queue : m.id \in applied
          /\ 1..nextId \subseteq applied \cup evicted \cup Ids(queue)
        BY DEF LinkInv, KeptInv
    <2>6. seq' \in Nat /\ queue' \subseteq Entry
        BY DEF TypeOK
    <2>7. Later(seq, queue, applied, queue', applied')
        BY <2>1, <2>4, <2>5 DEF Later
    <2>8. /\ noted <= seq' /\ \A c \in Conns : inHandler[c] <= seq' /\ FramesUpTo(c2s[c], seq')
        <3>1. \A n : n = seq' => ~ServerReaches(n)
            BY <1>7 DEF AgentRestart
        <3>2. ASSUME NEW c \in Conns PROVE inHandler[c] <= seq' /\ FramesUpTo(c2s[c], seq')
            <4>1. c2s[c] \in Seq(Frame) /\ inHandler[c] \in Nat
                BY DEF TypeOK
            <4>2. \A i \in DOMAIN c2s[c] : c2s[c][i].seq \in Nat
                BY <4>1, ElementOfSeq, LenProperties, FrameFields
            <4>3. ~(inHandler[c] > seq') /\ \A i \in DOMAIN c2s[c] : ~(c2s[c][i].seq > seq')
                BY <3>1 DEF ServerReaches
            <4>4. QED
                BY <2>6, <4>1, <4>2, <4>3 DEF FramesUpTo
        <3>3. ~(noted > seq')
            BY <3>1 DEF ServerReaches
        <3>4. QED
            BY <1>1, <2>6, <3>2, <3>3
    <2>9. NotedInv'
        <3>1. Settled(noted, queue', applied')
            BY <1>1, <2>6, <2>7, LaterKeeps DEF LinkInv, NotedInv
        <3>2. QED
            BY <2>1, <2>8, <3>1 DEF NotedInv
    <2>10. ASSUME NEW c \in Conns PROVE SocketInv(c)'
        <3>1. /\ inHandler[c] \in Nat /\ lastProc[c] \in Nat /\ c2s[c] \in Seq(Frame)
            BY DEF TypeOK
        <3>2. /\ Settled(inHandler[c], queue', applied')
              /\ InOrder(c2s[c], queue', applied')
              /\ NoFalseRedelivery(c2s[c], lastProc[c], queue', applied')
            BY <1>1, <2>6, <2>7, <3>1, LaterKeeps DEF LinkInv, SocketInv
        <3>3. /\ FramesUpTo(c2s'[c], seq') /\ InOrder(c2s'[c], queue', applied')
              /\ NoFalseRedelivery(c2s'[c], lastProc[c], queue', applied')
            <4>1. CASE c2s'[c] = c2s[c]
                BY <2>8, <3>2, <4>1
            <4>2. CASE c2s'[c] # c2s[c]
                <5>1. conn # None /\ LoseFrames(conn) /\ conn \in Conns
                    BY <1>1, <2>1, <4>2
                <5>2. c = conn
                    BY <1>3, <4>2, <5>1
                <5>3. QED
                    BY <1>3, <2>6, <2>8, <3>2, <5>1, <5>2
            <4>3. QED
                BY <4>1, <4>2
        <3>4. QED
            BY <2>1, <2>8, <3>2, <3>3 DEF SocketInv
    <2>11. AckInv' /\ SentInv'
        BY <2>1 DEF AckInv, SentInv
    <2>12. KeptInv'
        <3>1. \A m \in disk \ queue' : m.id \in applied
            BY <2>4, <2>5
        <3>2. forgot' = {}
            BY <2>4, <2>5, <3>1 DEF Ids
        <3>3. Ids(queue) \subseteq Ids(queue')
            BY <2>4 DEF Ids
        <3>4. QED
            BY <2>1, <2>4, <2>5, <3>1, <3>2, <3>3 DEF KeptInv
    <2>13. QED
        BY <2>9, <2>10, <2>11, <2>12 DEF LinkInv
<1>8. QED
    BY <1>4, <1>5, <1>6, <1>7 DEF FaultNext
-----------------------------------------------------------------------------
\* The link keeps its promises until something suspect happens.

\* A suspect event is never forgotten.
LEMMA SuspectGrows ==
    ASSUME [Next]_vars
    PROVE  suspect' = {} => suspect = {}
<1>1. CASE AgentNext
    BY <1>1 DEF AgentNext, SendDurable, SendVolatile, Connect, SendHello, StartReplay,
                ReplayEntry, EndReplay, RecvAck, SaveAck, historyVars
<1>2. CASE ServerNext
    BY <1>2 DEF ServerNext, Authenticate, AckRedelivery, Handle, FinishHandler, Persist,
                historyVars
<1>3. CASE FaultNext
    BY <1>3 DEF FaultNext, Drop, HandlerFails, ServerRestart, AgentRestart
<1>4. CASE UNCHANGED vars
    BY <1>4 DEF vars, historyVars
<1>5. QED
    BY <1>1, <1>2, <1>3, <1>4 DEF Next

\* The first queue holds the messages of the file of an older agentd.
LEMMA LegacyIds ==
    ASSUME Init
    PROVE  Ids(queue) = 1..Legacy /\ \A m \in queue : m.id <= m.seq
<1> USE LinkAssumption
<1>1. \A m \in LegacyFile : m.seq = m.id /\ m.id \in 1..Legacy
    BY DEF LegacyFile
<1>2. LegacyFile \subseteq Entry
    BY <1>1 DEF LegacyFile, Entry
<1>3. queue = LegacyFile \/ queue = Shifted(LegacyFile, 1)
    BY DEF Init
<1>4. \A m \in queue : m.id \in 1..Legacy /\ m.id <= m.seq
    <2>1. CASE queue = LegacyFile
        BY <1>1, <2>1
    <2>2. CASE queue = Shifted(LegacyFile, 1)
        BY <1>1, <1>2, <2>2, ShiftedFacts
    <2>3. QED
        BY <1>3, <2>1, <2>2
<1>5. ASSUME NEW i \in 1..Legacy PROVE \E m \in queue : m.id = i
    <2>1. PICK l \in LegacyFile : l = [seq |-> i, id |-> i]
        BY DEF LegacyFile
    <2>2. CASE queue = LegacyFile
        BY <2>1, <2>2
    <2>3. CASE queue = Shifted(LegacyFile, 1)
        <3>1. [l EXCEPT !.seq = @ + 1] \in queue
            BY <2>3 DEF Shifted
        <3>2. [l EXCEPT !.seq = @ + 1].id = i
            BY <2>1
        <3>3. QED
            BY <3>1, <3>2
    <2>4. QED
        BY <1>3, <2>2, <2>3
<1>6. QED
    BY <1>4, <1>5 DEF Ids

\* At first nothing was sent, and what was applied is a prefix of the file.
LEMMA LinkInit == Init => LinkInv
<1> SUFFICES ASSUME Init PROVE LinkInv
    OBVIOUS
<1> USE LinkAssumption
<1>1. TypeOK /\ StoredInv
    BY TypeInit, StoredInit
<1>2. Ids(queue) = 1..Legacy /\ \A m \in queue : m.id \in 1..Legacy /\ m.id <= m.seq
    BY LegacyIds DEF Ids
<1>3. /\ seq = Legacy + 1 /\ noted \in 0..Legacy /\ disk = queue /\ conn = None
      /\ nextId = Legacy /\ forgot = {}
      /\ \E n \in noted..Legacy : applied = 1..n
    BY DEF Init
<1>4. NotedInv
    <2>1. PICK n \in noted..Legacy : applied = 1..n
        BY <1>3
    <2>2. ASSUME NEW m \in queue, m.seq <= noted PROVE m.id \in applied
        <3>1. m.seq \in Nat /\ m.id \in 1..Legacy /\ m.id <= m.seq
            BY <1>1, <1>2 DEF TypeOK, Entry
        <3>2. QED
            BY <1>3, <2>1, <2>2, <3>1
    <2>3. QED
        BY <1>3, <2>2 DEF NotedInv, Settled
<1>5. ASSUME NEW c \in Conns PROVE SocketInv(c)
    <2>1. c2s[c] = <<>> /\ inHandler[c] = 0 /\ lastProc[c] = 0
        BY DEF Init, None
    <2>2. \A m \in queue : m.seq \in Nat /\ m.seq > 1
        BY <1>1 DEF TypeOK, StoredInv, Entry
    <2>3. Settled(0, queue, applied) /\ 0 <= seq
        BY <1>3, <2>2 DEF Settled
    <2>4. /\ FramesUpTo(<<>>, seq) /\ InOrder(<<>>, queue, applied)
          /\ NoFalseRedelivery(<<>>, 0, queue, applied)
        BY OrderOfNothing
    <2>5. QED
        BY <2>1, <2>3, <2>4 DEF SocketInv
<1>6. AckInv /\ SentInv
    BY <1>3 DEF AckInv, SentInv
<1>7. KeptInv
    BY <1>2, <1>3 DEF KeptInv
<1>8. QED
    BY <1>4, <1>5, <1>6, <1>7 DEF LinkInv

\* The inductive invariant: what holds always, and what holds until a suspect
\* event.
IInv == CounterInv /\ CursorInv /\ StoredInv /\ ReplayInv /\ FrameInv /\ OrderInv

\* It holds of two fresh processes.
LEMMA IInvInit == Init => IInv
<1>1. Init => CursorInv
    BY LinkAssumption DEF Init, CursorInv
<1>2. QED
    BY <1>1, CounterInit, StoredInit, FrameInit, LinkInit DEF IInv, OrderInv

\* Every step preserves it.
LEMMA IInvStep == TypeOK /\ IInv /\ [Next]_vars => IInv'
<1> SUFFICES ASSUME TypeOK, IInv, [Next]_vars PROVE IInv'
    OBVIOUS
<1>1. TypeOK' /\ CounterInv /\ CursorInv /\ StoredInv /\ ReplayInv /\ FrameInv
    BY TypeStep DEF IInv
<1>2. CounterInv' /\ CursorInv' /\ StoredInv' /\ ReplayInv' /\ FrameInv'
    BY <1>1, CounterStep, CursorStep, StoredStep, ReplayStep, FrameStep
<1>3. ASSUME suspect' = {} PROVE LinkInv'
    <2>1. LinkInv
        BY <1>3, SuspectGrows DEF IInv, OrderInv
    <2>2. CASE Next
        BY <1>1, <1>3, <2>1, <2>2, LinkStepAgent, LinkStepServer, LinkStepFault DEF Next
    <2>3. CASE UNCHANGED vars
        <3>1. UNCHANGED <<seq, queue, disk, conn, ready, replaying, todo, replayOn, c2s, s2c,
                          inHandler, lastProc, noted, applied, nextId, evicted, forgot>>
            BY <2>3 DEF vars, agentVars, serverVars, historyVars
        <3>2. SentInv'
            BY <2>1, <3>1 DEF LinkInv, SentInv
        <3>3. QED
            BY <1>1, <2>1, <3>1, <3>2, QuietKeeps
    <2>4. QED
        BY <2>2, <2>3
<1>4. QED
    BY <1>2, <1>3 DEF IInv, OrderInv

\* It holds in every state of every behaviour.
LEMMA IInvHolds == Spec => [](TypeOK /\ IInv)
<1>1. QED
    BY TypeCorrect, IInvInit, IInvStep, PTL DEF Spec

\* agentd forgets a message as acknowledged only once its effects are in the
\* database, whatever was dropped, replayed, failed or restarted before, unless
\* a replay straddled two connections, a full authentication buffer dropped a
\* frame, or a restart took numbers the control plane had seen.
THEOREM AcksAreTrue == Spec => []AckedMeansApplied
<1>1. IInv => AckedMeansApplied
    BY DEF IInv, OrderInv, LinkInv, KeptInv, AckedMeansApplied
<1>2. QED
    BY <1>1, IInvHolds, PTL

\* Until then every message agentd accepted is applied, was dropped by a full
\* queue, or is queued and in the queue file above the saved cursor, where both
\* the next replay and a killed agentd find it.
THEOREM NothingIsLost == Spec => []NothingLost
<1>1. TypeOK /\ IInv => NothingLost
    <2> SUFFICES ASSUME TypeOK, IInv, suspect = {}, NEW i \in 1..nextId
                 PROVE  i \in applied \cup evicted
                            \cup (Ids(queue) \cap Ids(Above(disk, ackedFile)))
        BY DEF NothingLost
    <2>1. i \in applied \cup evicted \cup Ids(queue)
        BY DEF IInv, OrderInv, LinkInv, KeptInv
    <2>2. ASSUME NEW m \in queue PROVE m \in Above(disk, ackedFile)
        <3>1. /\ m \in disk /\ m.seq > lastAcked /\ ackedFile <= lastAcked
              /\ m.seq \in Nat /\ lastAcked \in Nat /\ ackedFile \in Nat
            BY DEF IInv, StoredInv, TypeOK, Entry
        <3>2. QED
            BY <3>1 DEF Above
    <2>3. QED
        BY <2>1, <2>2 DEF Ids
<1>2. QED
    BY <1>1, IInvHolds, PTL

\* The number a restarted control plane would resume from, and the one its
\* pending writes would store, never covers a queued message that is not
\* applied: no restart of the control plane makes it take that message's replay
\* for a redelivery.
THEOREM CursorIsBehindEffects == Spec => []CursorBehindEffects
<1>1. TypeOK /\ IInv => CursorBehindEffects
    <2> SUFFICES ASSUME TypeOK, IInv, suspect = {}, NEW m \in queue, m.id \notin applied
                 PROVE  m.seq > noted
        BY DEF CursorBehindEffects
    <2>1. Settled(noted, queue, applied)
        BY DEF IInv, OrderInv, LinkInv, NotedInv
    <2>2. m.seq \in Nat /\ noted \in Nat
        BY DEF TypeOK, Entry
    <2>3. QED
        BY <2>1, <2>2 DEF Settled
<1>2. QED
    BY <1>1, IInvHolds, PTL
-----------------------------------------------------------------------------
\* The link implements DurableChannel.

\* The queue as the channel sees it when agentd takes a new message.
LEMMA SendIsAccept ==
    ASSUME TypeOK, IInv, SendDurable, suspect = {}
    PROVE  Channel!Accept
<1> USE LinkAssumption
<1>1. PICK m \in Entry : m = [seq |-> seq + 1, id |-> nextId + 1]
    <2>1. seq + 1 \in Nat /\ nextId + 1 \in 1..MaxId
        BY DEF SendDurable, TypeOK
    <2>2. QED
        BY <2>1 DEF Entry
<1>2. /\ m.id = nextId + 1 /\ nextId' = nextId + 1 /\ nextId < MaxId
      /\ UNCHANGED <<applied, suspect>>
    BY <1>1 DEF SendDurable, serverVars
<1>3. \/ \E old \in queue : /\ queue' = (queue \ {old}) \cup {m}
                            /\ evicted' = evicted \cup ({old.id} \ applied)
      \/ queue' = queue \cup {m} /\ evicted' = evicted
    BY <1>1 DEF SendDurable
<1>4. nextId \in Nat /\ MaxId \in Nat
    BY DEF TypeOK
<1>5. /\ nextId + 1 \in (1..MaxId) \ (1..nextId)
      /\ 1..(nextId + 1) = (1..nextId) \cup {nextId + 1}
    BY <1>2, <1>4
<1>6. \A o \in queue, p \in queue : o.id = p.id => o = p
    BY DEF IInv, StoredInv, OneEntryEach
<1>7. \/ Ids(queue') = Ids(queue) \cup {nextId + 1} /\ evicted' = evicted
      \/ \E i \in Ids(queue) : /\ Ids(queue') = (Ids(queue) \ {i}) \cup {nextId + 1}
                               /\ evicted' = evicted \cup ({i} \ applied)
    <2>1. CASE queue' = queue \cup {m} /\ evicted' = evicted
        <3>1. Ids(queue') = Ids(queue) \cup {m.id}
            BY <2>1 DEF Ids
        <3>2. QED
            BY <1>2, <2>1, <3>1
    <2>2. ASSUME NEW old \in queue, queue' = (queue \ {old}) \cup {m},
                 evicted' = evicted \cup ({old.id} \ applied)
          PROVE  \E i \in Ids(queue) : /\ Ids(queue') = (Ids(queue) \ {i}) \cup {nextId + 1}
                                       /\ evicted' = evicted \cup ({i} \ applied)
        <3>1. old.id \in Ids(queue)
            BY DEF Ids
        <3>2. Ids(queue') = Ids(queue \ {old}) \cup {m.id}
            BY <2>2 DEF Ids
        <3>3. Ids(queue \ {old}) = Ids(queue) \ {old.id}
            BY <1>6 DEF Ids
        <3>4. QED
            BY <1>2, <2>2, <3>1, <3>2, <3>3
    <2>3. QED
        BY <1>3, <2>1, <2>2
<1>8. (suspect = {})' = (suspect = {}) /\ (Ids(queue))' = Ids(queue') /\ (1..nextId)' = 1..(nextId + 1)
    BY <1>2 DEF Ids
<1>9. QED
    BY <1>2, <1>5, <1>7, <1>8 DEF Channel!Accept

\* A step that touches none of what the channel promises about.
LEMMA QuietIsStutter ==
    ASSUME UNCHANGED <<nextId, queue, applied, evicted, suspect>>
    PROVE  UNCHANGED Channel!vars
BY DEF Channel!vars, Ids

\* A step after which nothing suspect has happened is a step of the channel.
LEMMA IntactStep ==
    ASSUME TypeOK, IInv, Next, suspect = {}, suspect' = {}
    PROVE  \/ Channel!Accept \/ Channel!Deliver \/ Channel!Release \/ Channel!Restart
           \/ UNCHANGED Channel!vars
<1> USE LinkAssumption
<1>1. CASE SendDurable
    BY <1>1, SendIsAccept
<1>2. CASE SendVolatile \/ Connect \/ SendHello \/ StartReplay \/ ReplayEntry \/ EndReplay \/ SaveAck
    BY <1>2, QuietIsStutter
       DEF SendVolatile, Connect, SendHello, StartReplay, ReplayEntry, EndReplay, SaveAck,
           serverVars, historyVars
<1>3. CASE RecvAck
    <2>1. /\ queue' = Above(queue, Head(s2c[conn]))
          /\ forgot' = forgot \cup (Ids(queue \ queue') \ applied)
          /\ UNCHANGED <<nextId, applied, evicted>>
        BY <1>3 DEF RecvAck, serverVars
    <2>2. forgot' = {}
        BY IInvStep DEF IInv, OrderInv, LinkInv, KeptInv
    <2>3. queue' \subseteq queue
        BY <2>1 DEF Above
    <2>4. Ids(queue') \subseteq Ids(queue) /\ Ids(queue) \ Ids(queue') \subseteq applied
        BY <2>1, <2>2, <2>3 DEF Ids
    <2>5. (Ids(queue))' = Ids(queue') /\ (1..nextId)' = 1..nextId /\ (suspect = {})' = (suspect = {})
        BY <2>1 DEF Ids
    <2>6. Channel!Release
        BY <2>1, <2>4, <2>5 DEF Channel!Release
    <2>7. QED
        BY <2>6
<1>4. ASSUME NEW c \in Conns, Handle(c)
      PROVE  Channel!Deliver \/ UNCHANGED Channel!vars
    <2> DEFINE f == NextFrame(c)
    <2>1. /\ c2s[c] # <<>> /\ UNCHANGED <<nextId, queue, evicted, suspect>>
          /\ IF f.kind = "hello" THEN applied' = applied
             ELSE applied' = applied \cup ({f.id} \ {0})
        BY <1>4 DEF Handle, CanHandle, agentVars, historyVars
    <2>2. f \in KnownFrame(nextId) /\ f \in Frame
        <3>1. c2s[c] \in Seq(KnownFrame(nextId))
            BY DEF IInv, FrameInv
        <3>2. QED
            BY <2>1, <3>1, HeadTailProperties DEF NextFrame, KnownFrame
    <2> HIDE DEF f
    <2>3. CASE f.kind # "hello" /\ f.id # 0
        <3>1. f.id \in 1..nextId
            <4>1. f.id \in 0..MaxId /\ f.id <= nextId
                BY <2>2, <2>3, FrameFields DEF KnownFrame
            <4>2. nextId \in Nat
                BY DEF TypeOK
            <4>3. QED
                BY <2>3, <4>1, <4>2
        <3>2. applied' = applied \cup {f.id}
            BY <2>1, <2>3
        <3>3. (Ids(queue))' = Ids(queue) /\ (1..nextId)' = 1..nextId
                /\ (suspect = {})' = (suspect = {})
            BY <2>1 DEF Ids
        <3>4. Channel!Deliver
            BY <2>1, <3>1, <3>2, <3>3 DEF Channel!Deliver
        <3>5. QED
            BY <3>4
    <2>4. CASE f.kind = "hello" \/ f.id = 0
        <3>1. applied' = applied
            BY <2>1, <2>4
        <3>2. QED
            BY <2>1, <3>1, QuietIsStutter
    <2>5. QED
        BY <2>3, <2>4
<1>5. ASSUME NEW c \in Conns, Authenticate(c) \/ AckRedelivery(c) \/ FinishHandler(c) \/ HandlerFails(c)
      PROVE  UNCHANGED Channel!vars
    <2>1. UNCHANGED <<nextId, queue, applied, evicted>>
        BY <1>5 DEF Authenticate, AckRedelivery, FinishHandler, HandlerFails, agentVars,
                    serverVars, historyVars
    <2>2. QED
        BY <2>1, QuietIsStutter
<1>6. CASE Persist \/ Drop \/ ServerRestart
    BY <1>6, QuietIsStutter DEF Persist, Drop, ServerRestart, agentVars, serverVars, historyVars
<1>7. CASE AgentRestart
    <2>1. PICK acked \in {ackedFile} \cup {n \in {0} : saving # None} : Startup(disk, acked)
        BY <1>7 DEF AgentRestart
    <2>2. acked \in Nat /\ acked <= lastAcked
        <3>1. ackedFile \in Nat /\ lastAcked \in Nat /\ ackedFile <= lastAcked
            BY DEF TypeOK, IInv, StoredInv
        <3>2. acked = ackedFile \/ acked = 0
            OBVIOUS
        <3>3. QED
            BY <3>1, <3>2
    <2>3. queue' = Above(disk, acked) /\ queue \subseteq queue'
        BY <2>1, <2>2, RestartFacts DEF IInv
    <2>4. queue' \subseteq disk
        BY <2>3 DEF Above
    <2>5. \A m \in disk : m.id \in 1..nextId
        <3>1. \A m \in disk : m.id \in 1..MaxId /\ m.id <= nextId
            BY DEF IInv, StoredInv, TypeOK, Entry
        <3>2. nextId \in Nat
            BY DEF TypeOK
        <3>3. QED
            BY <3>1, <3>2
    <2>6. \A m \in disk \ queue : m.id \in applied
        BY DEF IInv, OrderInv, LinkInv, KeptInv
    <2>7. /\ Ids(queue') \subseteq 1..nextId /\ Ids(queue) \ Ids(queue') \subseteq applied
          /\ Ids(queue') \ Ids(queue) \subseteq applied
        BY <2>3, <2>4, <2>5, <2>6 DEF Ids
    <2>8. UNCHANGED <<nextId, applied, evicted>>
        BY <1>7 DEF AgentRestart, serverVars
    <2>9. (Ids(queue))' = Ids(queue') /\ (1..nextId)' = 1..nextId /\ (suspect = {})' = (suspect = {})
        BY <2>8 DEF Ids
    <2>10. Channel!Restart
        BY <2>7, <2>8, <2>9 DEF Channel!Restart
    <2>11. QED
        BY <2>10
<1>8. QED
    BY <1>1, <1>2, <1>3, <1>4, <1>5, <1>6, <1>7 DEF Next, AgentNext, ServerNext, FaultNext

\* A step that makes the link suspect accepts no message.
LEMMA SuspectStep ==
    ASSUME Next, suspect = {}, suspect' # {}
    PROVE  Channel!Void
<1>1. nextId' = nextId
    <2>1. ~SendDurable
        BY DEF SendDurable
    <2>2. QED
        BY <2>1 DEF Next, AgentNext, ServerNext, FaultNext, SendVolatile, Connect, SendHello,
                    StartReplay, ReplayEntry, EndReplay, RecvAck, SaveAck, Authenticate,
                    AckRedelivery, Handle, FinishHandler, Persist, Drop, HandlerFails,
                    ServerRestart, AgentRestart, historyVars
<1>2. (1..nextId)' = 1..nextId /\ (suspect = {})' = FALSE
    BY <1>1
<1>3. QED
    BY <1>2 DEF Channel!Void

\* agentd's queue, replays, acknowledgements and files implement the promise of
\* DurableChannel: whatever its producers hand it stays retained until the
\* control plane has applied it or a full queue dropped it, through every drop,
\* failing handler, and restart of either side, until an event outside the
\* promise happens.
THEOREM ChannelRefinement == Spec => ImplementsChannel
<1>1. Init => Channel!Init
    <2> SUFFICES ASSUME Init PROVE Channel!Init
        OBVIOUS
    <2>1. TypeOK /\ IInv
        BY TypeInit, IInvInit
    <2>2. /\ nextId = Legacy /\ suspect = {} /\ evicted = {} /\ Legacy \in Nat /\ MaxId \in Nat
          /\ Legacy <= MaxId
          /\ \E n \in dbAcked..Legacy : applied = 1..n
        BY LinkAssumption DEF Init
    <2>3. dbAcked \in Nat
        BY <2>1 DEF TypeOK
    <2>4. applied \subseteq 1..nextId
        BY <2>2, <2>3
    <2>5. Ids(queue) = 1..nextId
        BY <2>2, LegacyIds
    <2>6. 1..nextId \subseteq 1..MaxId
        BY <2>2
    <2>7. QED
        BY <2>2, <2>4, <2>5, <2>6 DEF Channel!Init
<1>2. TypeOK /\ IInv /\ [Next]_vars => [Channel!Next]_Channel!vars
    <2> SUFFICES ASSUME TypeOK, IInv, [Next]_vars PROVE [Channel!Next]_Channel!vars
        OBVIOUS
    <2>1. CASE UNCHANGED vars
        <3>1. UNCHANGED <<nextId, queue, applied, evicted, suspect>>
            BY <2>1 DEF vars, agentVars, serverVars, historyVars
        <3>2. QED
            BY <3>1, QuietIsStutter
    <2>2. CASE Next
        <3>1. CASE suspect = {} /\ suspect' = {}
            BY <2>2, <3>1, IntactStep DEF Channel!Next
        <3>2. CASE suspect = {} /\ suspect' # {}
            BY <2>2, <3>2, SuspectStep DEF Channel!Next
        <3>3. CASE suspect # {}
            <4>1. suspect' # {}
                BY <3>3, SuspectGrows
            <4>2. QED
                BY <3>3, <4>1 DEF Channel!Next
        <3>4. QED
            BY <3>1, <3>2, <3>3
    <2>3. QED
        BY <2>1, <2>2
<1>3. QED
    BY <1>1, <1>2, IInvHolds, PTL DEF Spec, ImplementsChannel, Channel!Spec

-----------------------------------------------------------------------------
(***************************************************************************)
(* The progress writer (module HostProgress).  One invariant carries its   *)
(* theorems.  ProgressKept alone is not inductive: a flush may be dropped  *)
(* only because the number it took is in the database by then (Landed),    *)
(* and a number that lands can replace the column only because nothing in  *)
(* memory or on its way is above recorded (Bounded).                       *)
(***************************************************************************)
Bounded ==
    /\ hostAcked <= recorded /\ ackedSeq <= recorded /\ flight.seq <= recorded
    /\ \A n \in strays : n <= recorded

Landed ==
    /\ "acked" \in flight.waiting => flight.seq # Null
    /\ "acked" \notin flight.waiting => flight.seq <= hostAcked

ProgressInv == BatcherTypeOK /\ Bounded /\ Landed /\ ProgressKept /\ NeverStranded

-----------------------------------------------------------------------------
\* Greatest returns one of its arguments, and neither is above it.
LEMMA GreatestIsMax ==
    ASSUME NEW a \in Nat, NEW b \in Nat
    PROVE  /\ Greatest(a, b) \in {a, b}
           /\ a <= Greatest(a, b) /\ b <= Greatest(a, b)
BY DEF Greatest

\* The fields of the flush in progress.
LEMMA FlightFields ==
    ASSUME BatcherTypeOK
    PROVE  /\ flight.seq \in 0..MaxSeq /\ flight.waiting \subseteq {"seen", "acked"}
           /\ NoFlight \in Flights /\ NoFlight.seq = Null /\ NoFlight.waiting = {}
BY ProgressAssumption DEF BatcherTypeOK, Flights, NoFlight, Null

\* A flush that has something to write takes the pending number, awaits its
\* query if there is one, and is not the idle state.
LEMMA Taken ==
    ASSUME BatcherTypeOK, TakeFlight, Pending
    PROVE  /\ flight' \in Flights /\ flight' # NoFlight
           /\ flight'.seq = ackedSeq
           /\ ("acked" \in flight'.waiting) <=> (ackedSeq # Null)
<1>1. flight'.seq = ackedSeq
      /\ flight'.waiting = {q \in {"seen"} : lastSeen} \cup {q \in {"acked"} : ackedSeq # Null}
    BY DEF TakeFlight
<1>2. ("acked" \in flight'.waiting) <=> (ackedSeq # Null)
    BY <1>1
<1>3. flight'.waiting # {}
    BY <1>1 DEF Pending
<1>4. flight' \in Flights
    BY <1>1 DEF TakeFlight, BatcherTypeOK, Flights
<1>5. QED
    BY <1>1, <1>2, <1>3, <1>4 DEF NoFlight

\* A fresh writer has nothing pending and nothing in progress.
LEMMA ProgressInit == BatcherInit => ProgressInv
<1> SUFFICES ASSUME BatcherInit PROVE ProgressInv
    OBVIOUS
<1>1. NoFlight \in Flights /\ NoFlight.seq = 0 /\ NoFlight.waiting = {}
    BY ProgressAssumption DEF Flights, NoFlight, Null
<1>2. BatcherTypeOK
    <2>1. 0 \in 0..MaxSeq /\ 0 \in Nat
        BY ProgressAssumption
    <2>2. /\ ackedSeq = 0 /\ hostAcked = 0 /\ recorded = 0 /\ strays = {} /\ flight = NoFlight
          /\ waiters = 0 /\ nFailures = 0 /\ nCloses = 0 /\ nRestarts = 0
        BY DEF BatcherInit, Null
    <2>3. lastSeen \in BOOLEAN /\ timer \in BOOLEAN
        BY DEF BatcherInit
    <2>4. QED
        BY <1>1, <2>1, <2>2, <2>3 DEF BatcherTypeOK
<1>3. Bounded /\ Landed /\ ProgressKept /\ NeverStranded
    BY <1>1 DEF BatcherInit, Bounded, Landed, ProgressKept, NeverStranded, Pending, Null
<1>4. QED
    BY <1>2, <1>3 DEF ProgressInv

\* Taking everything that is pending, when the flush that ends has landed.
LEMMA TakeStep ==
    ASSUME ProgressInv, Pending, TakeFlight,
           "acked" \notin flight.waiting \/ hostAcked' = Greatest(hostAcked, flight.seq),
           hostAcked' \in {hostAcked, Greatest(hostAcked, flight.seq)},
           lastSeen' = FALSE, ackedSeq' = Null,
           UNCHANGED <<strays, recorded, nRestarts>>
    PROVE  /\ flight' \in Flights /\ hostAcked' \in 0..MaxSeq
           /\ Bounded' /\ Landed' /\ ProgressKept' /\ NeverStranded'
<1> USE ProgressAssumption
<1>1. BatcherTypeOK /\ Bounded /\ Landed /\ ProgressKept
    BY DEF ProgressInv
<1>2. /\ flight.seq \in 0..MaxSeq /\ hostAcked \in 0..MaxSeq /\ ackedSeq \in 0..MaxSeq
      /\ recorded \in 0..MaxSeq /\ strays \subseteq 1..MaxSeq
    BY <1>1, FlightFields DEF BatcherTypeOK
<1>3. /\ flight' \in Flights /\ flight'.seq = ackedSeq
      /\ ("acked" \in flight'.waiting) <=> (ackedSeq # Null)
    BY <1>1, Taken
<1>4. hostAcked' \in 0..MaxSeq /\ hostAcked <= hostAcked' /\ hostAcked' <= recorded
    BY <1>1, <1>2, GreatestIsMax DEF Bounded
<1>5. flight.seq <= hostAcked'
    BY <1>1, <1>2, GreatestIsMax DEF Landed
<1>6. Bounded' /\ Landed'
    BY <1>1, <1>2, <1>3, <1>4 DEF Bounded, Landed, Null
<1>7. ProgressKept'
    BY <1>1, <1>2, <1>3, <1>4, <1>5 DEF ProgressKept, Bounded
<1>8. NeverStranded'
    BY DEF NeverStranded, Pending
<1>9. QED
    BY <1>3, <1>4, <1>6, <1>7, <1>8

\* flush, called with nothing in progress or behind another one.
LEMMA FlushStep ==
    ASSUME ProgressInv, Flush, timer' \in BOOLEAN,
           flight # NoFlight \/ ~Pending => timer' \in {FALSE, timer},
           UNCHANGED <<strays, hostAcked, recorded, nRestarts>>,
           nFailures' \in Nat, nCloses' \in Nat
    PROVE  ProgressInv'
<1> USE ProgressAssumption
<1>1. BatcherTypeOK /\ Bounded /\ Landed /\ ProgressKept /\ NeverStranded
    BY DEF ProgressInv
<1>2. CASE flight # NoFlight
    <2>1. waiters' = waiters + 1 /\ UNCHANGED <<lastSeen, ackedSeq, flight>>
        BY <1>2 DEF Flush
    <2>2. BatcherTypeOK'
        BY <1>1, <2>1 DEF BatcherTypeOK
    <2>3. QED
        BY <1>1, <1>2, <2>1, <2>2
           DEF ProgressInv, Bounded, Landed, ProgressKept, NeverStranded
<1>3. CASE flight = NoFlight /\ ~Pending
    <2>1. UNCHANGED <<lastSeen, ackedSeq, flight, waiters>>
        BY <1>3 DEF Flush, StartFlush
    <2>2. BatcherTypeOK'
        BY <1>1, <2>1 DEF BatcherTypeOK
    <2>3. QED
        BY <1>1, <1>3, <2>1, <2>2
           DEF ProgressInv, Bounded, Landed, ProgressKept, NeverStranded, Pending
<1>4. CASE flight = NoFlight /\ Pending
    <2>1. TakeFlight /\ lastSeen' = FALSE /\ ackedSeq' = Null /\ waiters' = waiters
        BY <1>4 DEF Flush, StartFlush
    <2>2. "acked" \notin flight.waiting
        BY <1>1, <1>4, FlightFields
    <2>3. /\ flight' \in Flights /\ hostAcked' \in 0..MaxSeq
          /\ Bounded' /\ Landed' /\ ProgressKept' /\ NeverStranded'
        BY <1>4, <2>1, <2>2, TakeStep
    <2>4. lastSeen' \in BOOLEAN
        BY <2>1
    <2>4_1. ackedSeq' \in 0..MaxSeq
        BY <2>1 DEF Null
    <2>5. recorded' \in 0..MaxSeq /\ strays' \subseteq 1..MaxSeq /\ waiters' \in Nat /\ nRestarts' \in Nat
        BY <1>1, <2>1 DEF BatcherTypeOK
    <2>6. BatcherTypeOK'
        BY <2>3, <2>4, <2>4_1, <2>5 DEF BatcherTypeOK
    <2>7. QED
        BY <2>3, <2>6 DEF ProgressInv
<1>5. QED
    BY <1>2, <1>3, <1>4

\* The flush in progress ends well: what it took is in the database, and what
\* was recorded meanwhile is taken next or left to a timer.
LEMMA LandsStep ==
    ASSUME ProgressInv, NEW q \in {"seen", "acked"}, QueryLands(q)
    PROVE  ProgressInv'
<1> USE ProgressAssumption
<1>1. BatcherTypeOK /\ Bounded /\ Landed /\ ProgressKept /\ NeverStranded
    BY DEF ProgressInv
<1>2. /\ flight.seq \in 0..MaxSeq /\ hostAcked \in 0..MaxSeq /\ ackedSeq \in 0..MaxSeq
      /\ recorded \in 0..MaxSeq /\ flight.waiting \subseteq {"seen", "acked"}
      /\ NoFlight \in Flights /\ NoFlight.seq = Null /\ NoFlight.waiting = {}
    BY <1>1, FlightFields DEF BatcherTypeOK
<1>3. /\ q \in flight.waiting
      /\ IF q = "acked" THEN hostAcked' = Greatest(hostAcked, flight.seq) ELSE hostAcked' = hostAcked
      /\ UNCHANGED <<strays, recorded, nFailures, nCloses, nRestarts>>
    BY DEF QueryLands, UpdateHostAckedSeq
<1>4. hostAcked' \in 0..MaxSeq /\ hostAcked <= hostAcked' /\ hostAcked' <= recorded
    BY <1>1, <1>2, <1>3, GreatestIsMax DEF Bounded
<1>5. CASE flight.waiting # {q}
    <2>1. /\ flight' = [flight EXCEPT !.waiting = @ \ {q}]
          /\ UNCHANGED <<lastSeen, ackedSeq, timer, waiters>>
        BY <1>5 DEF QueryLands
    <2>2. /\ flight' \in Flights /\ flight'.seq = flight.seq
          /\ flight'.waiting = flight.waiting \ {q}
        BY <1>1, <2>1 DEF BatcherTypeOK, Flights
    <2>3. flight' # NoFlight
        BY <1>2, <1>3, <1>5, <2>2
    <2>4. BatcherTypeOK'
        BY <1>1, <1>3, <1>4, <2>1, <2>2 DEF BatcherTypeOK
    <2>5. Bounded'
        BY <1>1, <1>2, <1>3, <1>4, <2>1, <2>2 DEF Bounded
    <2>6. Landed'
        <3>1. CASE q = "acked"
            <4>1. flight.seq <= hostAcked'
                BY <1>2, <1>3, <3>1, GreatestIsMax
            <4>2. QED
                BY <2>2, <3>1, <4>1 DEF Landed
        <3>2. CASE q = "seen"
            BY <1>1, <1>3, <2>2, <3>2 DEF Landed
        <3>3. QED
            BY <3>1, <3>2
    <2>7. ProgressKept'
        BY <1>1, <1>2, <1>3, <1>4, <2>1, <2>2 DEF ProgressKept, Bounded
    <2>8. NeverStranded'
        BY <2>3 DEF NeverStranded
    <2>9. QED
        BY <2>4, <2>5, <2>6, <2>7, <2>8 DEF ProgressInv
<1>6. CASE flight.waiting = {q}
    <2>1. FinishFlush
        BY <1>6 DEF QueryLands
    <2>2. /\ "acked" \notin flight.waiting \/ hostAcked' = Greatest(hostAcked, flight.seq)
          /\ hostAcked' \in {hostAcked, Greatest(hostAcked, flight.seq)}
        BY <1>3, <1>6
    <2>3. flight.seq <= hostAcked'
        BY <1>1, <1>2, <1>4, <2>2, GreatestIsMax DEF Landed
    <2>4. CASE waiters > 0 /\ Pending
        <3>1. /\ TakeFlight /\ lastSeen' = FALSE /\ ackedSeq' = Null /\ timer' = FALSE
              /\ waiters' = waiters - 1
            BY <2>1, <2>4 DEF FinishFlush
        <3>2. /\ flight' \in Flights
              /\ Bounded' /\ Landed' /\ ProgressKept' /\ NeverStranded'
            BY <1>3, <2>2, <2>4, <3>1, TakeStep
        <3>3. lastSeen' \in BOOLEAN /\ timer' \in BOOLEAN
            BY <3>1
        <3>3_1. ackedSeq' \in 0..MaxSeq /\ waiters' \in Nat
            BY <1>1, <2>4, <3>1 DEF Null, BatcherTypeOK
        <3>4. BatcherTypeOK'
            BY <1>1, <1>3, <1>4, <3>2, <3>3, <3>3_1 DEF BatcherTypeOK
        <3>5. QED
            BY <3>2, <3>4 DEF ProgressInv
    <2>5. CASE ~(waiters > 0 /\ Pending)
        <3>1. /\ flight' = NoFlight /\ lastSeen' = lastSeen /\ ackedSeq' = ackedSeq
              /\ waiters' \in Nat /\ timer' \in BOOLEAN /\ (Pending => timer')
            <4>1. lastSeen \in BOOLEAN /\ timer \in BOOLEAN /\ waiters \in Nat /\ Pending \in BOOLEAN
                BY <1>1 DEF BatcherTypeOK, Pending
            <4>2. CASE waiters > 0 /\ ~Pending
                <5>1. lastSeen = FALSE /\ ackedSeq = Null
                    BY <4>1, <4>2 DEF Pending
                <5>2. /\ flight' = NoFlight /\ waiters' = 0 /\ timer' = FALSE
                      /\ lastSeen' = FALSE /\ ackedSeq' = Null
                    BY <2>1, <4>2 DEF FinishFlush
                <5>3. lastSeen' = lastSeen /\ ackedSeq' = ackedSeq /\ timer' \in BOOLEAN
                    BY <5>1, <5>2
                <5>4. waiters' \in Nat
                    BY <5>2
                <5>5. QED
                    BY <4>2, <5>2, <5>3, <5>4
            <4>3. CASE ~(waiters > 0)
                <5>1. /\ flight' = NoFlight /\ timer' = (timer \/ Pending)
                      /\ UNCHANGED <<lastSeen, ackedSeq, waiters>>
                    BY <2>1, <4>3 DEF FinishFlush
                <5>2. QED
                    BY <4>1, <5>1
            <4>4. QED
                BY <2>5, <4>2, <4>3
        <3>2. BatcherTypeOK'
            BY <1>1, <1>2, <1>3, <1>4, <3>1 DEF BatcherTypeOK
        <3>3. Bounded' /\ Landed'
            BY <1>1, <1>2, <1>3, <1>4, <3>1 DEF Bounded, Landed, Null
        <3>4. ProgressKept'
            BY <1>1, <1>2, <1>3, <1>4, <2>3, <3>1 DEF ProgressKept, Bounded
        <3>5. NeverStranded'
            BY <3>1 DEF NeverStranded, Pending
        <3>6. QED
            BY <3>2, <3>3, <3>4, <3>5 DEF ProgressInv
    <2>6. QED
        BY <2>4, <2>5
<1>7. QED
    BY <1>5, <1>6

\* Recording a number merges it into what is pending and sets a timer.
LEMMA RecordStep ==
    ASSUME ProgressInv, Record
    PROVE  ProgressInv'
<1> USE ProgressAssumption
<1>1. BatcherTypeOK /\ Bounded /\ Landed /\ ProgressKept
    BY DEF ProgressInv
<1>2. /\ flight.seq \in 0..MaxSeq /\ hostAcked \in 0..MaxSeq /\ ackedSeq \in 0..MaxSeq
      /\ recorded \in 0..MaxSeq /\ strays \subseteq 1..MaxSeq
    BY <1>1, FlightFields DEF BatcherTypeOK
<1>3. PICK n \in {Null} \cup 1..MaxSeq :
        ackedSeq' = Greatest(ackedSeq, n) /\ recorded' = Greatest(recorded, n)
    BY DEF Record
<1>4. n \in 0..MaxSeq
    BY DEF Null
<1>5. /\ timer' = TRUE /\ lastSeen' = TRUE
      /\ UNCHANGED <<flight, waiters, strays, hostAcked, nFailures, nCloses, nRestarts>>
    BY DEF Record
<1>6. /\ ackedSeq' \in 0..MaxSeq /\ recorded' \in 0..MaxSeq
      /\ ackedSeq' <= recorded' /\ recorded <= recorded'
      /\ recorded' = recorded \/ recorded' = ackedSeq'
    BY <1>1, <1>2, <1>3, <1>4 DEF Greatest, Bounded
<1>7. recorded' = recorded /\ recorded = ackedSeq => ackedSeq' = recorded'
    BY <1>2, <1>3, <1>4 DEF Greatest
<1>8. lastSeen' \in BOOLEAN /\ timer' \in BOOLEAN
    BY <1>5
<1>9. BatcherTypeOK'
    BY <1>1, <1>5, <1>6, <1>8 DEF BatcherTypeOK
<1>10. Bounded' /\ Landed'
    BY <1>1, <1>2, <1>5, <1>6 DEF Bounded, Landed
<1>11. ProgressKept'
    BY <1>1, <1>5, <1>6, <1>7 DEF ProgressKept
<1>12. NeverStranded'
    BY <1>5 DEF NeverStranded
<1>13. QED
    BY <1>9, <1>10, <1>11, <1>12 DEF ProgressInv

\* The flush in progress fails: what it took is merged back and a timer set.
LEMMA FailsStep ==
    ASSUME ProgressInv, NEW q \in {"seen", "acked"}, QueryFails(q)
    PROVE  ProgressInv'
<1> USE ProgressAssumption
<1>1. BatcherTypeOK /\ Bounded /\ Landed /\ ProgressKept
    BY DEF ProgressInv
<1>2. /\ flight.seq \in 0..MaxSeq /\ hostAcked \in 0..MaxSeq /\ ackedSeq \in 0..MaxSeq
      /\ recorded \in 0..MaxSeq /\ strays \subseteq 1..MaxSeq
      /\ NoFlight \in Flights /\ NoFlight.seq = Null /\ NoFlight.waiting = {}
    BY <1>1, FlightFields DEF BatcherTypeOK
<1>3. /\ ackedSeq' = Greatest(ackedSeq, flight.seq) /\ flight' = NoFlight
      /\ strays' = strays \cup {n \in {flight.seq} : q = "seen" /\ "acked" \in flight.waiting}
      /\ waiters' = 0 /\ UNCHANGED <<hostAcked, recorded, nCloses, nRestarts>>
    BY DEF QueryFails, KeepForRetry
<1>4. lastSeen' = (lastSeen \/ TRUE) /\ timer' = TRUE
    BY DEF QueryFails, KeepForRetry
<1>5. lastSeen' \in BOOLEAN /\ timer' \in BOOLEAN
    BY <1>4
<1>6. nFailures' \in Nat /\ waiters' \in Nat
    BY <1>1, <1>3 DEF QueryFails, BatcherTypeOK
<1>7. /\ ackedSeq' \in 0..MaxSeq /\ ackedSeq' <= recorded
      /\ ackedSeq <= ackedSeq' /\ flight.seq <= ackedSeq'
    BY <1>1, <1>2, <1>3 DEF Greatest, Bounded
<1>8. strays' \subseteq 1..MaxSeq /\ \A n \in strays' : n <= recorded
    <2>1. ASSUME NEW n \in strays' PROVE n \in 1..MaxSeq /\ n <= recorded
        <3>1. CASE n \in strays
            BY <1>1, <1>2, <3>1 DEF Bounded
        <3>2. CASE n \notin strays
            <4>1. n = flight.seq /\ "acked" \in flight.waiting
                BY <1>3, <3>2
            <4>2. QED
                BY <1>1, <1>2, <4>1 DEF Bounded, Landed, Null
        <3>3. QED
            BY <3>1, <3>2
    <2>2. QED
        BY <2>1
<1>9. BatcherTypeOK'
    BY <1>1, <1>2, <1>3, <1>5, <1>6, <1>7, <1>8 DEF BatcherTypeOK
<1>10. Bounded' /\ Landed'
    BY <1>1, <1>2, <1>3, <1>7, <1>8 DEF Bounded, Landed, Null
<1>11. ProgressKept'
    BY <1>1, <1>2, <1>3, <1>7 DEF ProgressKept
<1>12. NeverStranded'
    BY <1>4 DEF NeverStranded
<1>13. QED
    BY <1>9, <1>10, <1>11, <1>12 DEF ProgressInv

\* A query that outlived its flush or its process is executed late.
LEMMA StrayStep ==
    ASSUME ProgressInv, StrayEnds
    PROVE  ProgressInv'
<1> USE ProgressAssumption
<1>1. BatcherTypeOK /\ Bounded /\ Landed /\ ProgressKept /\ NeverStranded
    BY DEF ProgressInv
<1>2. /\ flight.seq \in 0..MaxSeq /\ hostAcked \in 0..MaxSeq /\ recorded \in 0..MaxSeq
      /\ strays \subseteq 1..MaxSeq
    BY <1>1, FlightFields DEF BatcherTypeOK
<1>3. PICK n \in strays : strays' = strays \ {n} /\ hostAcked' \in {hostAcked, Greatest(hostAcked, n)}
    BY DEF StrayEnds, UpdateHostAckedSeq
<1>4. UNCHANGED <<lastSeen, ackedSeq, timer, flight, waiters, recorded, nFailures, nCloses, nRestarts>>
    BY DEF StrayEnds
<1>5. /\ n \in 0..MaxSeq /\ n <= recorded
    BY <1>1, <1>2 DEF Bounded
<1>6. hostAcked' \in 0..MaxSeq /\ hostAcked <= hostAcked' /\ hostAcked' <= recorded
    BY <1>1, <1>2, <1>3, <1>5 DEF Greatest, Bounded
<1>7. BatcherTypeOK'
    BY <1>1, <1>3, <1>4, <1>6 DEF BatcherTypeOK
<1>8. Bounded' /\ Landed'
    BY <1>1, <1>2, <1>3, <1>4, <1>6 DEF Bounded, Landed
<1>9. ProgressKept'
    BY <1>1, <1>2, <1>4, <1>6 DEF ProgressKept
<1>10. NeverStranded'
    BY <1>1, <1>4 DEF NeverStranded, Pending
<1>11. QED
    BY <1>7, <1>8, <1>9, <1>10 DEF ProgressInv

\* The control plane stops and starts, with queries still on their way.
LEMMA RestartStep ==
    ASSUME ProgressInv, Restart
    PROVE  ProgressInv' /\ recorded' \in hostAcked..recorded
<1> USE ProgressAssumption
<1>1. BatcherTypeOK /\ Bounded /\ Landed
    BY DEF ProgressInv
<1>2. /\ flight.seq \in 0..MaxSeq /\ hostAcked \in 0..MaxSeq /\ recorded \in 0..MaxSeq
      /\ strays \subseteq 1..MaxSeq /\ nRestarts \in Nat
      /\ NoFlight \in Flights /\ NoFlight.seq = Null /\ NoFlight.waiting = {}
    BY <1>1, FlightFields DEF BatcherTypeOK
<1>3. /\ strays' = strays \cup {n \in {flight.seq} : "acked" \in flight.waiting}
      /\ ackedSeq' = Null /\ flight' = NoFlight /\ waiters' = 0 /\ nRestarts' = nRestarts + 1
      /\ UNCHANGED <<hostAcked, nFailures, nCloses>>
    BY DEF Restart
<1>4. lastSeen' = FALSE /\ timer' = FALSE
    BY DEF Restart
<1>5. strays' \subseteq 1..MaxSeq /\ \A n \in strays' : n <= recorded
    <2>1. ASSUME NEW n \in strays' PROVE n \in 1..MaxSeq /\ n <= recorded
        <3>1. CASE n \in strays
            BY <1>1, <1>2, <3>1 DEF Bounded
        <3>2. CASE n \notin strays
            <4>1. n = flight.seq /\ "acked" \in flight.waiting
                BY <1>3, <3>2
            <4>2. QED
                BY <1>1, <1>2, <4>1 DEF Bounded, Landed, Null
        <3>3. QED
            BY <3>1, <3>2
    <2>2. QED
        BY <2>1
<1>6. PICK n \in {hostAcked} \cup strays' :
        (\A m \in {hostAcked} \cup strays' : m <= n) /\ recorded' = n
    BY DEF Restart
<1>7. recorded' \in 0..MaxSeq /\ hostAcked <= recorded' /\ recorded' <= recorded
    BY <1>1, <1>2, <1>5, <1>6 DEF Bounded
<1>8. BatcherTypeOK'
    <2>1. lastSeen' \in BOOLEAN /\ timer' \in BOOLEAN
        BY <1>4
    <2>2. ackedSeq' \in 0..MaxSeq /\ waiters' \in Nat /\ nRestarts' \in Nat
        BY <1>2, <1>3 DEF Null
    <2>3. QED
        BY <1>1, <1>2, <1>3, <1>5, <1>7, <2>1, <2>2 DEF BatcherTypeOK
<1>9. Bounded' /\ Landed'
    BY <1>2, <1>3, <1>6, <1>7 DEF Bounded, Landed, Null
<1>10. ProgressKept'
    BY <1>2, <1>3 DEF ProgressKept
<1>11. NeverStranded'
    BY <1>3, <1>4 DEF NeverStranded, Pending
<1>12. QED
    BY <1>2, <1>7, <1>8, <1>9, <1>10, <1>11 DEF ProgressInv

\* Every operation of the writer preserves the invariant.
LEMMA ProgressStep == ProgressInv /\ [BatcherNext]_batcherVars => ProgressInv'
<1> SUFFICES ASSUME ProgressInv, [BatcherNext]_batcherVars PROVE ProgressInv'
    OBVIOUS
<1>1. BatcherTypeOK
    BY DEF ProgressInv
<1>2. CASE TimerFires
    <2>1. timer' \in BOOLEAN
        BY <1>2 DEF TimerFires
    <2>2. /\ Flush /\ timer' = FALSE
          /\ UNCHANGED <<strays, hostAcked, recorded, nFailures, nCloses, nRestarts>>
        BY <1>2 DEF TimerFires
    <2>3. nFailures' \in Nat /\ nCloses' \in Nat
        BY <1>1, <2>2 DEF BatcherTypeOK
    <2>4. QED
        BY <2>1, <2>2, <2>3, FlushStep
<1>3. CASE SocketCloses
    <2>1. /\ Flush /\ timer' = (timer /\ flight # NoFlight)
          /\ UNCHANGED <<strays, hostAcked, recorded, nFailures, nRestarts>>
        BY <1>3 DEF SocketCloses
    <2>2. timer \in BOOLEAN
        BY <1>1 DEF BatcherTypeOK
    <2>3. timer' \in BOOLEAN /\ timer' \in {FALSE, timer}
        BY <2>1, <2>2
    <2>4. nFailures' \in Nat /\ nCloses' \in Nat
        BY <1>1, <1>3 DEF SocketCloses, BatcherTypeOK
    <2>5. QED
        BY <2>1, <2>3, <2>4, FlushStep
<1>4. CASE UNCHANGED batcherVars
    BY <1>4 DEF batcherVars, ProgressInv, BatcherTypeOK, Bounded, Landed, ProgressKept, NeverStranded, Pending
<1>5. QED
    BY <1>2, <1>3, <1>4, RecordStep, LandsStep, FailsStep, StrayStep, RestartStep DEF BatcherNext

\* The inductive invariant holds throughout; the theorems below follow from it.
THEOREM ProgressInvariant == BatcherSpec => []ProgressInv
<1>1. QED
    BY ProgressInit, ProgressStep, PTL DEF BatcherSpec

\* Every variable of the writer keeps its type.
THEOREM BatcherTypeCorrect == BatcherSpec => []BatcherTypeOK
<1>1. ProgressInv => BatcherTypeOK
    BY DEF ProgressInv
<1>2. QED
    BY <1>1, ProgressInvariant, PTL

\* The highest recorded number is in the database, pending, or in the flush in
\* progress, as long as no restart has emptied the memory: no failing, partly
\* failing or overlapping flush forgets it.
THEOREM ProgressIsKept == BatcherSpec => []ProgressKept
<1>1. ProgressInv => ProgressKept
    BY DEF ProgressInv
<1>2. QED
    BY <1>1, ProgressInvariant, PTL

\* What is pending is never left without a timer or a flush that writes it.
THEOREM NothingStranded == BatcherSpec => []NeverStranded
<1>1. ProgressInv => NeverStranded
    BY DEF ProgressInv
<1>2. QED
    BY <1>1, ProgressInvariant, PTL

\* The writer keeps the promise of PersistedCursor, in whatever order its
\* queries, and those that outlive their flush or their process, are executed.
THEOREM BatcherRefinement == BatcherSpec => BatcherImplementsCursor
<1> USE DEF BatcherCursor!Next, BatcherCursor!Note, BatcherCursor!Store, BatcherCursor!Forget, BatcherCursor!vars
<1>1. BatcherInit => BatcherCursor!Init
    BY DEF BatcherInit, BatcherCursor!Init
<1>2. ProgressInv /\ ProgressInv' /\ [BatcherNext]_batcherVars => [BatcherCursor!Next]_BatcherCursor!vars
    <2> SUFFICES ASSUME ProgressInv, ProgressInv', [BatcherNext]_batcherVars PROVE [BatcherCursor!Next]_BatcherCursor!vars
        OBVIOUS
    <2>1. /\ hostAcked \in Nat /\ recorded \in Nat /\ hostAcked <= recorded
          /\ hostAcked' \in Nat /\ recorded' \in Nat /\ hostAcked' <= recorded'
        BY ProgressAssumption DEF ProgressInv, BatcherTypeOK, Bounded
    <2>2. CASE recorded' = recorded /\ hostAcked' >= hostAcked
        BY <2>1, <2>2
    <2>3. CASE hostAcked' = hostAcked /\ recorded' >= recorded
        BY <2>1, <2>3
    <2>4. CASE Record
        <3>1. PICK n \in {Null} \cup 1..MaxSeq : recorded' = Greatest(recorded, n)
            BY <2>4 DEF Record
        <3>2. recorded' >= recorded
            BY <2>1, <3>1 DEF Greatest, Null
        <3>3. QED
            BY <2>3, <2>4, <3>2 DEF Record
    <2>5. CASE TimerFires \/ SocketCloses
        BY <2>1, <2>2, <2>5 DEF TimerFires, SocketCloses
    <2>6. ASSUME NEW q \in {"seen", "acked"}, QueryLands(q) PROVE [BatcherCursor!Next]_BatcherCursor!vars
        <3>1. flight.seq \in Nat
            BY FlightFields, ProgressAssumption DEF ProgressInv
        <3>2. recorded' = recorded /\ hostAcked' \in {hostAcked, Greatest(hostAcked, flight.seq)}
            BY <2>6 DEF QueryLands, UpdateHostAckedSeq
        <3>3. QED
            BY <2>1, <2>2, <3>1, <3>2, GreatestIsMax
    <2>7. ASSUME NEW q \in {"seen", "acked"}, QueryFails(q) PROVE [BatcherCursor!Next]_BatcherCursor!vars
        BY <2>1, <2>2, <2>7 DEF QueryFails
    <2>8. CASE StrayEnds
        <3>1. PICK n \in strays : hostAcked' \in {hostAcked, Greatest(hostAcked, n)}
            BY <2>8 DEF StrayEnds, UpdateHostAckedSeq
        <3>2. n \in Nat
            BY ProgressAssumption DEF ProgressInv, BatcherTypeOK
        <3>3. QED
            BY <2>1, <2>2, <2>8, <3>1, <3>2, GreatestIsMax DEF StrayEnds
    <2>9. CASE Restart
        <3>1. recorded' \in hostAcked..recorded /\ hostAcked' = hostAcked
            BY <2>9, RestartStep DEF Restart
        <3>2. QED
            BY <3>1
    <2>10. CASE UNCHANGED batcherVars
        BY <2>1, <2>2, <2>10 DEF batcherVars
    <2>11. QED
        BY <2>4, <2>5, <2>6, <2>7, <2>8, <2>9, <2>10 DEF BatcherNext
<1>3. QED
    BY <1>1, <1>2, ProgressInvariant, PTL DEF BatcherSpec, BatcherImplementsCursor, BatcherCursor!Spec

=============================================================================
