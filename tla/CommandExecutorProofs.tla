----------------------- MODULE CommandExecutorProofs -----------------------
(***************************************************************************)
(* Theorems about agentd's command executor, for every set of commands,    *)
(* sessions and workers.                                                   *)
(*                                                                         *)
(* That a session has one command in flight rests on where its key is: a   *)
(* scheduled key is in the ready list once, or held by one busy worker,    *)
(* never both (SlotInv).  That every accepted command is reported once     *)
(* rests on where the command is: in its queue, reported only when it is   *)
(* the head that a worker is about to take off, or out of it and reported  *)
(* (ResultInv).  That Close waits for all of them rests on no scheduled    *)
(* key being in neither place (CloseInv), and that a session keeps its     *)
(* order on what was dispatched before a queued command being reported or  *)
(* ahead of it in the queue (OrderInv).  That no wake-up is lost is        *)
(* inductive as it stands: it counts workers against ready keys.           *)
(***************************************************************************)
EXTENDS CommandExecutor, SequenceTheorems, FiniteSetTheorems, TLAPS

IsReady(k) == \E i \in DOMAIN readyKeys : readyKeys[i] = k

Scheduling == \A k \in Keys : k \in scheduled <=> queues[k] # <<>>

ReadyOnce ==
    /\ \A i, j \in DOMAIN readyKeys : readyKeys[i] = readyKeys[j] => i = j
    /\ \A i \in DOMAIN readyKeys : readyKeys[i] \in scheduled

Holds(w) == key[w] \in scheduled /\ ~IsReady(key[w]) /\ cmd[w] = Head(queues[key[w]])
BusyHolds == \A w \in Workers : Busy(w) => Holds(w)

SlotInv == TypeOK /\ Scheduling /\ ReadyOnce /\ BusyHolds /\ OneInFlightPerKey

\* Every queued command is accepted, under its key, and queued once.
QueuedOnce ==
    \A k \in Keys : \A i \in DOMAIN queues[k] :
        /\ queues[k][i] \in accepted /\ KeyOf[queues[k][i]] = k
        /\ \A j \in DOMAIN queues[k] : queues[k][i] = queues[k][j] => i = j

\* A queued command has a result only when a worker has just reported it.
HeadReported(k) == \E w \in Workers : worker[w] = "reported" /\ key[w] = k
QueuedReported ==
    \A k \in Keys : \A i \in DOMAIN queues[k] :
        Contains(results, queues[k][i]) <=> i = 1 /\ HeadReported(k)

ResultsAccepted == \A i \in DOMAIN results : results[i] \in accepted

ResultInv == QueuedOnce /\ QueuedReported /\ ResultsAccepted /\ NoSecondResult

InQueue(c) == \E i \in DOMAIN queues[KeyOf[c]] : queues[KeyOf[c]][i] = c
NoneForgotten == \A c \in accepted : Contains(results, c) \/ InQueue(c)

Held(k) == \E w \in Workers : Busy(w) /\ key[w] = k
KeyPlaced == \A k \in scheduled : IsReady(k) \/ Held(k)

ExitedMeansDone ==
    /\ \A w \in Workers : worker[w] = "exited" => closed
    /\ (\A w \in Workers : worker[w] = "exited") => readyKeys = <<>>

CloseInv == NoneForgotten /\ KeyPlaced /\ ExitedMeansDone

-----------------------------------------------------------------------------
\* The elements of a sequence after one more is appended.
LEMMA Appended ==
    ASSUME NEW S, NEW s \in Seq(S), NEW e \in S
    PROVE  /\ Append(s, e) \in Seq(S) /\ Append(s, e) # <<>>
           /\ DOMAIN Append(s, e) = 1..(Len(s) + 1) /\ Len(s) \in Nat /\ DOMAIN s = 1..Len(s)
           /\ \A i \in DOMAIN s : i \in DOMAIN Append(s, e) /\ Append(s, e)[i] = s[i]
           /\ Append(s, e)[Len(s) + 1] = e
           /\ \A i \in DOMAIN Append(s, e) : i \in DOMAIN s \/ i = Len(s) + 1
           /\ s # <<>> => Head(Append(s, e)) = Head(s)
           /\ s = <<>> => Head(Append(s, e)) = e
OBVIOUS

\* The elements of a sequence without its first.
LEMMA Shortened ==
    ASSUME NEW S, NEW s \in Seq(S), s # <<>>
    PROVE  /\ Tail(s) \in Seq(S) /\ Head(s) \in S /\ Head(s) = s[1] /\ 1 \in DOMAIN s
           /\ \A i \in DOMAIN Tail(s) :
                i \in Nat \ {0} /\ i + 1 \in DOMAIN s /\ Tail(s)[i] = s[i + 1]
           /\ \A i \in DOMAIN s : i = 1 \/ (i - 1 \in DOMAIN Tail(s) /\ s[i] = Tail(s)[i - 1])
           /\ Tail(s) = <<>> <=> Len(s) = 1
           /\ Tail(s) # <<>> => Head(Tail(s)) = s[2]
<1>1. Len(s) \in Nat \ {0} /\ DOMAIN s = 1..Len(s)
    OBVIOUS
<1>2. Tail(s) \in Seq(S) /\ Len(Tail(s)) = Len(s) - 1 /\ DOMAIN Tail(s) = 1..(Len(s) - 1)
    OBVIOUS
<1>3. \A i \in 1..(Len(s) - 1) : Tail(s)[i] = s[i + 1]
    OBVIOUS
<1>4. Head(s) \in S /\ Head(s) = s[1] /\ 1 \in DOMAIN s
    BY <1>1
<1>5. \A i \in DOMAIN Tail(s) : i \in Nat \ {0} /\ i + 1 \in DOMAIN s /\ Tail(s)[i] = s[i + 1]
    BY <1>1, <1>2, <1>3
<1>6. \A i \in DOMAIN s : i = 1 \/ (i - 1 \in DOMAIN Tail(s) /\ s[i] = Tail(s)[i - 1])
    BY <1>1, <1>2, <1>3
<1>7. Tail(s) = <<>> <=> Len(s) = 1
  <2>1. Tail(s) = <<>> <=> Len(Tail(s)) = 0
      BY <1>2, EmptySeq
  <2>2. QED
      BY <1>1, <1>2, <2>1
<1>8. Tail(s) # <<>> => Head(Tail(s)) = s[2]
    BY <1>1, <1>2, <1>3, <1>7
<1>9. QED
    BY <1>2, <1>4, <1>5, <1>6, <1>7, <1>8

\* Signal wakes at most a worker that waits, and changes nothing else.
LEMMA Woken ==
    ASSUME NEW ws \in [Workers -> {"idle", "waiting", "running", "reported", "exited"}],
           Signal(ws)
    PROVE  /\ worker' \in [Workers -> {"idle", "waiting", "running", "reported", "exited"}]
           /\ \A w \in Workers :
                worker'[w] = ws[w] \/ (ws[w] = "waiting" /\ worker'[w] = "idle")
BY DEF Signal

\* What the type invariant says of one worker and of one key.
LEMMA Typed ==
    ASSUME TypeOK, NEW w \in Workers
    PROVE  /\ key[w] \in Keys \cup {None} /\ cmd[w] \in Cmds \cup {None}
           /\ \A k \in Keys : queues[k] \in Seq(Cmds)
BY DEF TypeOK

-----------------------------------------------------------------------------
\* A fresh executor has no command, and every worker is about to look for one.
LEMMA SlotInit == Init => SlotInv
<1> SUFFICES ASSUME Init PROVE SlotInv
    OBVIOUS
<1>1. TypeOK
  <2>1. <<>> \in Seq(Cmds) /\ <<>> \in Seq(Keys)
      OBVIOUS
  <2>2. queues \in [Keys -> Seq(Cmds)]
      BY <2>1 DEF Init
  <2>3. readyKeys \in Seq(Keys) /\ results \in Seq(Cmds) /\ submitted \in Seq(Cmds)
      BY <2>1 DEF Init
  <2>4. worker \in [Workers -> {"idle", "waiting", "running", "reported", "exited"}]
        /\ key \in [Workers -> Keys \cup {None}] /\ cmd \in [Workers -> Cmds \cup {None}]
      BY DEF Init
  <2>5. QED
      BY <2>2, <2>3, <2>4 DEF Init, TypeOK
<1>2. Scheduling /\ ReadyOnce /\ BusyHolds /\ OneInFlightPerKey
    BY DEF Init, Scheduling, ReadyOnce, BusyHolds, OneInFlightPerKey, Busy
<1>3. QED
    BY <1>1, <1>2 DEF SlotInv

\* Submit puts a key that was not scheduled at the end of the ready list.
LEMMA SlotSubmit ==
    ASSUME SlotInv, NEW c \in Cmds, Submit(c)
    PROVE  SlotInv'
<1> USE DEF SlotInv
<1> DEFINE k == KeyOf[c]
<1>1. k \in Keys /\ queues[k] \in Seq(Cmds)
    BY ExecutorAssumption DEF TypeOK
<1>2. /\ queues' = [queues EXCEPT ![k] = Append(@, c)]
      /\ key' = key /\ cmd' = cmd /\ closed' = closed /\ results' = results
      /\ nDuplicates' = nDuplicates
      /\ accepted' = accepted \cup {c} /\ submitted' = Append(submitted, c)
    BY DEF Submit, Enqueue
<1>3. queues' \in [Keys -> Seq(Cmds)] /\ queues'[k] = Append(queues[k], c)
      /\ \A l \in Keys : l # k => queues'[l] = queues[l]
    BY <1>1, <1>2, Appended DEF TypeOK
<1>4. queues'[k] # <<>> /\ (queues[k] # <<>> => Head(queues'[k]) = Head(queues[k]))
    BY <1>1, <1>3, Appended
<1>5. submitted' \in Seq(Cmds)
    BY <1>2 DEF TypeOK
<1>6. CASE k \in scheduled
  <2>1. scheduled' = scheduled /\ readyKeys' = readyKeys /\ worker' = worker
      BY <1>6 DEF Submit, IsScheduled
  <2>2. TypeOK'
      BY <1>2, <1>3, <1>5, <2>1 DEF TypeOK
  <2>3. Scheduling'
      BY <1>3, <1>4, <1>6, <2>1 DEF Scheduling
  <2>4. ReadyOnce' /\ OneInFlightPerKey'
      BY <1>2, <2>1 DEF ReadyOnce, OneInFlightPerKey, Busy
  <2>5. BusyHolds'
    <3> SUFFICES ASSUME NEW w \in Workers, Busy(w)' PROVE Holds(w)'
        BY DEF BusyHolds
    <3>1. Holds(w)
        BY <2>1 DEF BusyHolds, Busy
    <3>2. Head(queues'[key[w]]) = Head(queues[key[w]])
        BY <1>3, <1>4, <3>1 DEF Holds, Scheduling, TypeOK
    <3>3. QED
        BY <1>2, <2>1, <3>1, <3>2 DEF Holds, IsReady
  <2>6. QED
      BY <2>2, <2>3, <2>4, <2>5
<1>7. CASE k \notin scheduled
  <2>1. scheduled' = scheduled \cup {k} /\ readyKeys' = Append(readyKeys, k) /\ Signal(worker)
      BY <1>7 DEF Submit, IsScheduled, MakeReady
  <2>2. readyKeys \in Seq(Keys)
      BY DEF TypeOK
  <2>3. \A w \in Workers : Busy(w)' <=> Busy(w)
      BY <2>1, Woken DEF TypeOK, Busy
  <2>4. TypeOK'
      BY <1>1, <1>2, <1>3, <1>5, <2>1, <2>2, Appended, Woken DEF TypeOK
  <2>5. Scheduling'
      BY <1>3, <1>4, <2>1 DEF Scheduling
  <2>6. \A i \in DOMAIN readyKeys : readyKeys[i] # k
      BY <1>7 DEF ReadyOnce
  <2>7. ReadyOnce'
      BY <1>1, <2>1, <2>2, <2>6, Appended DEF ReadyOnce
  <2>8. OneInFlightPerKey'
      BY <1>2, <2>3 DEF OneInFlightPerKey
  <2>9. BusyHolds'
    <3> SUFFICES ASSUME NEW w \in Workers, Busy(w)' PROVE Holds(w)'
        BY DEF BusyHolds
    <3>1. Holds(w) /\ key[w] # k
        BY <1>7, <2>3 DEF BusyHolds, Holds
    <3>2. queues'[key[w]] = queues[key[w]]
        BY <1>3, <3>1 DEF Holds, TypeOK
    <3>3. ~IsReady(key[w])'
        BY <1>1, <1>2, <2>1, <2>2, <3>1, Appended DEF Holds, IsReady
    <3>4. QED
        BY <1>2, <2>1, <3>1, <3>2, <3>3 DEF Holds
  <2>10. QED
      BY <2>4, <2>5, <2>7, <2>8, <2>9
<1>8. QED
    BY <1>6, <1>7

\* Taking a key off the ready list hands it to the worker.
LEMMA SlotTake ==
    ASSUME SlotInv, NEW w \in Workers, Take(w)
    PROVE  SlotInv'
<1> USE DEF SlotInv
<1> DEFINE k == Head(readyKeys)
<1>1. /\ worker[w] = "idle" /\ readyKeys # <<>> /\ readyKeys' = Tail(readyKeys)
      /\ worker' = [worker EXCEPT ![w] = "running"]
      /\ key' = [key EXCEPT ![w] = k] /\ cmd' = [cmd EXCEPT ![w] = Head(queues[k])]
      /\ queues' = queues /\ scheduled' = scheduled /\ accepted' = accepted
      /\ closed' = closed /\ results' = results /\ submitted' = submitted
      /\ nDuplicates' = nDuplicates
    BY DEF Take, Took
<1>2. readyKeys \in Seq(Keys) /\ k \in Keys /\ k = readyKeys[1] /\ 1 \in DOMAIN readyKeys
      /\ readyKeys' \in Seq(Keys)
    BY <1>1, Shortened DEF TypeOK
<1>3. k \in scheduled /\ queues[k] # <<>> /\ queues[k] \in Seq(Cmds)
    BY <1>2 DEF ReadyOnce, Scheduling, TypeOK
<1>4. Head(queues[k]) \in Cmds
    BY <1>3, Shortened
<1>5. /\ worker'[w] = "running" /\ key'[w] = k /\ cmd'[w] = Head(queues[k])
      /\ \A v \in Workers \ {w} : worker'[v] = worker[v] /\ key'[v] = key[v] /\ cmd'[v] = cmd[v]
    BY <1>1 DEF TypeOK
<1>6. TypeOK'
    BY <1>1, <1>2, <1>4 DEF TypeOK
<1>7. Scheduling'
    BY <1>1 DEF Scheduling
<1>8. \A i \in DOMAIN readyKeys' :
          i \in Nat \ {0} /\ i + 1 \in DOMAIN readyKeys /\ readyKeys'[i] = readyKeys[i + 1]
    BY <1>1, <1>2, Shortened
<1>9. \A i, j \in DOMAIN readyKeys' : readyKeys'[i] = readyKeys'[j] => i = j
  <2> SUFFICES ASSUME NEW i \in DOMAIN readyKeys', NEW j \in DOMAIN readyKeys',
                      readyKeys'[i] = readyKeys'[j]
               PROVE  i = j
      OBVIOUS
  <2>1. i + 1 = j + 1
      BY <1>8 DEF ReadyOnce
  <2>2. QED
      BY <1>8, <2>1
<1>10. ReadyOnce'
    BY <1>1, <1>8, <1>9 DEF ReadyOnce
<1>11. \A i \in DOMAIN readyKeys' : readyKeys'[i] # k
  <2> SUFFICES ASSUME NEW i \in DOMAIN readyKeys', readyKeys'[i] = k PROVE FALSE
      OBVIOUS
  <2>1. i + 1 = 1
      BY <1>2, <1>8 DEF ReadyOnce
  <2>2. QED
      BY <1>8, <2>1
<1>12. \A v \in Workers : Busy(v) => key[v] # k
    BY <1>2 DEF BusyHolds, Holds, IsReady
<1>13. OneInFlightPerKey'
    BY <1>5, <1>12 DEF OneInFlightPerKey, Busy
<1>14. BusyHolds'
  <2> SUFFICES ASSUME NEW v \in Workers, Busy(v)' PROVE Holds(v)'
      BY DEF BusyHolds
  <2>1. CASE v = w
      BY <1>1, <1>3, <1>5, <1>11, <2>1 DEF Holds, IsReady
  <2>2. CASE v # w
    <3>1. Holds(v) /\ key'[v] = key[v] /\ cmd'[v] = cmd[v]
        BY <1>5, <2>2 DEF BusyHolds, Busy
    <3>2. ~IsReady(key[v])'
        BY <1>8, <3>1 DEF Holds, IsReady
    <3>3. QED
        BY <1>1, <3>1, <3>2 DEF Holds, IsReady
  <2>3. QED
      BY <2>1, <2>2
<1>15. QED
    BY <1>6, <1>7, <1>10, <1>13, <1>14

\* A result is handed on; the worker keeps its key and its command.
LEMMA SlotReport ==
    ASSUME SlotInv, NEW w \in Workers, Report(w)
    PROVE  SlotInv'
<1> USE DEF SlotInv
<1>1. /\ worker[w] = "running" /\ worker' = [worker EXCEPT ![w] = "reported"]
      /\ results' = Append(results, cmd[w])
      /\ UNCHANGED <<queues, readyKeys, scheduled, accepted, closed, key, cmd, submitted,
                     nDuplicates>>
    BY DEF Report
<1>2. \A v \in Workers : Busy(v)' <=> Busy(v)
    BY <1>1 DEF Busy, TypeOK
<1>3. cmd[w] \in Cmds
  <2>1. key[w] \in Keys /\ queues[key[w]] # <<>> /\ cmd[w] = Head(queues[key[w]])
      BY <1>1 DEF BusyHolds, Busy, Holds, Scheduling, TypeOK
  <2>2. QED
      BY <2>1, Shortened DEF TypeOK
<1>4. TypeOK'
    BY <1>1, <1>3, Appended DEF TypeOK
<1>5. Scheduling' /\ ReadyOnce'
    BY <1>1 DEF Scheduling, ReadyOnce
<1>6. BusyHolds' /\ OneInFlightPerKey'
    BY <1>1, <1>2 DEF BusyHolds, Holds, IsReady, OneInFlightPerKey
<1>7. QED
    BY <1>4, <1>5, <1>6

\* Completing a command takes it off its queue, and its key is ready again or
\* no longer scheduled.
LEMMA SlotComplete ==
    ASSUME SlotInv, NEW w \in Workers, Complete(w)
    PROVE  SlotInv'
<1> USE DEF SlotInv
<1>1. PICK k \in Keys : k = key[w] /\ k \in scheduled /\ queues[k] # <<>> /\ ~IsReady(k)
    BY DEF Complete, BusyHolds, Busy, Holds, Scheduling, TypeOK
<1>2. /\ worker[w] = "reported" /\ queues' = [queues EXCEPT ![k] = Tail(@)]
      /\ key' = [key EXCEPT ![w] = None] /\ cmd' = [cmd EXCEPT ![w] = None]
      /\ UNCHANGED <<accepted, closed, results, submitted, nDuplicates>>
    BY <1>1 DEF Complete
<1>3. queues[k] \in Seq(Cmds) /\ Tail(queues[k]) \in Seq(Cmds)
      /\ (Tail(queues[k]) = <<>> <=> LastOf(k))
  <2>1. queues[k] \in Seq(Cmds)
      BY DEF TypeOK
  <2>2. QED
      BY <1>1, <2>1, Shortened DEF LastOf
<1>4. queues' \in [Keys -> Seq(Cmds)] /\ queues'[k] = Tail(queues[k])
      /\ \A l \in Keys : l # k => queues'[l] = queues[l]
    BY <1>2, <1>3 DEF TypeOK
<1>5. key' \in [Workers -> Keys \cup {None}] /\ cmd' \in [Workers -> Cmds \cup {None}]
      /\ \A v \in Workers : v # w => key'[v] = key[v] /\ cmd'[v] = cmd[v]
    BY <1>2 DEF TypeOK
<1> DEFINE ws == [worker EXCEPT ![w] = "idle"]
<1>6. ws \in [Workers -> {"idle", "waiting", "running", "reported", "exited"}]
      /\ ws[w] = "idle" /\ \A v \in Workers : v # w => ws[v] = worker[v]
    BY DEF TypeOK
<1>7. \/ /\ LastOf(k) /\ scheduled' = scheduled \ {k} /\ worker' = ws
         /\ readyKeys' = readyKeys
      \/ /\ ~LastOf(k) /\ scheduled' = scheduled /\ readyKeys' = Append(readyKeys, k)
         /\ Signal(ws)
    BY <1>1 DEF Complete, MakeReady
<1>8. /\ worker' \in [Workers -> {"idle", "waiting", "running", "reported", "exited"}]
      /\ \A v \in Workers : Busy(v)' => v # w /\ Busy(v)
    BY <1>6, <1>7, Woken DEF Busy
<1>9. \A v \in Workers : Busy(v)' => key[v] # k
    BY <1>1, <1>2, <1>8 DEF OneInFlightPerKey, Busy
<1>10. readyKeys \in Seq(Keys) /\ \A i \in DOMAIN readyKeys : readyKeys[i] # k
    BY <1>1 DEF IsReady, TypeOK
<1>11. TypeOK'
  <2>1. Append(readyKeys, k) \in Seq(Keys)
      BY <1>10, Appended
  <2>2. QED
      BY <1>2, <1>4, <1>5, <1>7, <1>8, <1>10, <2>1 DEF TypeOK
<1>12. Scheduling'
    BY <1>1, <1>3, <1>4, <1>7 DEF Scheduling
<1>13. ReadyOnce'
  <2>1. CASE LastOf(k)
      BY <1>7, <1>10, <2>1 DEF ReadyOnce
  <2>2. CASE ~LastOf(k)
    <3>1. readyKeys' = Append(readyKeys, k) /\ scheduled' = scheduled
        BY <1>7, <2>2
    <3>2. \A i \in DOMAIN readyKeys' :
            (i \in DOMAIN readyKeys /\ readyKeys'[i] = readyKeys[i])
              \/ (i = Len(readyKeys) + 1 /\ readyKeys'[i] = k)
        BY <1>10, <3>1, Appended
    <3>3. QED
        BY <1>1, <1>10, <3>1, <3>2 DEF ReadyOnce
  <2>3. QED
      BY <2>1, <2>2
<1>14. OneInFlightPerKey'
    BY <1>5, <1>8 DEF OneInFlightPerKey
<1>15. BusyHolds'
  <2> SUFFICES ASSUME NEW v \in Workers, Busy(v)' PROVE Holds(v)'
      BY DEF BusyHolds
  <2>1. Holds(v) /\ key'[v] = key[v] /\ cmd'[v] = cmd[v] /\ key[v] # k
      BY <1>5, <1>8, <1>9 DEF BusyHolds
  <2>2. queues'[key[v]] = queues[key[v]] /\ key[v] \in scheduled'
      BY <1>4, <1>7, <2>1 DEF Holds, TypeOK
  <2>3. ~\E i \in DOMAIN readyKeys' : readyKeys'[i] = key[v]
      BY <1>1, <1>7, <1>10, <2>1, Appended DEF Holds, IsReady
  <2>4. QED
      BY <2>1, <2>2, <2>3 DEF Holds, IsReady
<1>16. QED
    BY <1>11, <1>12, <1>13, <1>14, <1>15

\* A worker that waits, wakes up or exits, and a refused command, touch no key.
LEMMA SlotIdle ==
    ASSUME SlotInv,
           \/ \E c \in Cmds : SubmitRefused(c)
           \/ Close
           \/ \E w \in Workers : Wait(w) \/ Exit(w)
    PROVE  SlotInv'
<1> USE DEF SlotInv
<1>1. UNCHANGED <<queues, readyKeys, scheduled, accepted, key, cmd, results, submitted>>
    BY DEF SubmitRefused, Close, Wait, Exit
<1>2. /\ worker' \in [Workers -> {"idle", "waiting", "running", "reported", "exited"}]
      /\ closed' \in BOOLEAN /\ nDuplicates' \in Nat
      /\ \A v \in Workers : Busy(v)' <=> Busy(v)
  <2>1. CASE \E c \in Cmds : SubmitRefused(c)
      BY <2>1 DEF SubmitRefused, TypeOK, Busy
  <2>2. CASE Close
      BY <2>2 DEF Close, TypeOK, Busy
  <2>3. CASE \E w \in Workers : Wait(w) \/ Exit(w)
      BY <2>3 DEF Wait, Exit, MayExit, TypeOK, Busy
  <2>4. QED
      BY <2>1, <2>2, <2>3
<1>3. TypeOK' /\ Scheduling' /\ ReadyOnce'
    BY <1>1, <1>2 DEF TypeOK, Scheduling, ReadyOnce
<1>4. BusyHolds' /\ OneInFlightPerKey'
    BY <1>1, <1>2 DEF BusyHolds, Holds, IsReady, OneInFlightPerKey
<1>5. QED
    BY <1>3, <1>4

\* Every step keeps a key where it belongs.
LEMMA SlotStep == SlotInv /\ [Next]_vars => SlotInv'
<1> SUFFICES ASSUME SlotInv, [Next]_vars PROVE SlotInv'
    OBVIOUS
<1>1. CASE \E c \in Cmds : Submit(c)
    BY <1>1, SlotSubmit
<1>2. CASE \E w \in Workers : Take(w)
    BY <1>2, SlotTake
<1>3. CASE \E w \in Workers : Report(w)
    BY <1>3, SlotReport
<1>4. CASE \E w \in Workers : Complete(w)
    BY <1>4, SlotComplete
<1>5. CASE \/ \E c \in Cmds : SubmitRefused(c)
           \/ Close
           \/ \E w \in Workers : Wait(w) \/ Exit(w)
    BY <1>5, SlotIdle
<1>6. CASE UNCHANGED vars
    BY <1>6 DEF vars, SlotInv, TypeOK, Scheduling, ReadyOnce, BusyHolds, Holds, IsReady,
                OneInFlightPerKey, Busy
<1>7. QED
    BY <1>1, <1>2, <1>3, <1>4, <1>5, <1>6 DEF Next

\* The invariant holds throughout.
THEOREM SlotInvariant == Spec => []SlotInv
<1>1. QED
    BY SlotInit, SlotStep, PTL DEF Spec

\* The variables of the executor keep their types.
THEOREM TypeCorrect == Spec => []TypeOK
<1>1. SlotInv => TypeOK
    BY DEF SlotInv
<1>2. QED
    BY <1>1, SlotInvariant, PTL

\* Commands of one session never run at the same time, for every number of
\* workers, sessions and commands.
THEOREM SessionIsSerial == Spec => []OneInFlightPerKey
<1>1. SlotInv => OneInFlightPerKey
    BY DEF SlotInv
<1>2. QED
    BY <1>1, SlotInvariant, PTL

-----------------------------------------------------------------------------
\* With no command there is no result.
LEMMA ResultInit == Init => ResultInv
BY DEF Init, ResultInv, QueuedOnce, QueuedReported, ResultsAccepted, NoSecondResult, Contains

\* A submitted command is new: no queue and no result mentions it.
LEMMA ResultSubmit ==
    ASSUME SlotInv, ResultInv, NEW c \in Cmds, Submit(c)
    PROVE  ResultInv'
<1> USE DEF SlotInv, ResultInv
<1> DEFINE k == KeyOf[c]
<1>1. k \in Keys /\ queues[k] \in Seq(Cmds)
    BY ExecutorAssumption DEF TypeOK
<1>2. /\ queues' = [queues EXCEPT ![k] = Append(@, c)]
      /\ c \notin accepted /\ accepted' = accepted \cup {c}
      /\ key' = key /\ results' = results
    BY DEF Submit, Enqueue, Accepts
<1>3. queues'[k] = Append(queues[k], c) /\ \A l \in Keys : l # k => queues'[l] = queues[l]
    BY <1>1, <1>2 DEF TypeOK
<1>4. \A w \in Workers : worker'[w] = "reported" <=> worker[w] = "reported"
  <2>1. worker' = worker \/ Signal(worker)
      BY DEF Submit, MakeReady
  <2>2. QED
      BY <2>1, Woken DEF TypeOK
<1>5. ~Contains(results, c)
    BY <1>2 DEF ResultsAccepted, Contains
<1>6. \A l \in Keys : \A i \in DOMAIN queues[l] : queues[l][i] # c
    BY <1>2 DEF QueuedOnce
<1>7. \A i \in DOMAIN queues'[k] :
          (i \in DOMAIN queues[k] /\ queues'[k][i] = queues[k][i])
            \/ (i = Len(queues[k]) + 1 /\ queues'[k][i] = c)
    BY <1>1, <1>3, Appended
<1>8. QueuedOnce'
  <2> SUFFICES ASSUME NEW l \in Keys, NEW i \in DOMAIN queues'[l]
               PROVE  /\ queues'[l][i] \in accepted' /\ KeyOf[queues'[l][i]] = l
                      /\ \A j \in DOMAIN queues'[l] : queues'[l][i] = queues'[l][j] => i = j
      BY DEF QueuedOnce
  <2>1. CASE l = k
      BY <1>2, <1>6, <1>7, <2>1 DEF QueuedOnce
  <2>2. CASE l # k
      BY <1>2, <1>3, <2>2 DEF QueuedOnce
  <2>3. QED
      BY <2>1, <2>2
<1>9. QueuedReported'
  <2> SUFFICES ASSUME NEW l \in Keys, NEW i \in DOMAIN queues'[l]
               PROVE  Contains(results, queues'[l][i]) <=> i = 1 /\ HeadReported(l)
      BY <1>2, <1>4 DEF QueuedReported, HeadReported
  <2>1. CASE l # k \/ i \in DOMAIN queues[k]
      BY <1>3, <1>6, <1>7, <2>1 DEF QueuedReported
  <2>2. CASE l = k /\ i \notin DOMAIN queues[k]
    <3>1. queues'[k][i] = c /\ i = Len(queues[k]) + 1
        BY <1>7, <2>2
    <3>2. HeadReported(k) => queues[k] # <<>>
      <4>1. ASSUME NEW w \in Workers, worker[w] = "reported", key[w] = k
            PROVE  k \in scheduled
          BY <4>1 DEF BusyHolds, Busy, Holds
      <4>2. QED
          BY <1>1, <4>1 DEF HeadReported, Scheduling
    <3>3. HeadReported(k) => i # 1
        BY <1>1, <2>2, <3>2, Shortened
    <3>4. QED
        BY <1>5, <2>2, <3>1, <3>3
  <2>3. QED
      BY <2>1, <2>2
<1>10. ResultsAccepted' /\ NoSecondResult'
    BY <1>2 DEF ResultsAccepted, NoSecondResult
<1>11. QED
    BY <1>8, <1>9, <1>10

\* A worker reports the head of the queue it holds, which has no result yet.
LEMMA ResultReport ==
    ASSUME SlotInv, ResultInv, NEW w \in Workers, Report(w)
    PROVE  ResultInv'
<1> USE DEF SlotInv, ResultInv
<1>1. /\ worker[w] = "running" /\ worker' = [worker EXCEPT ![w] = "reported"]
      /\ results' = Append(results, cmd[w])
      /\ queues' = queues /\ accepted' = accepted /\ key' = key
    BY DEF Report
<1>2. PICK k \in Keys : /\ k = key[w] /\ queues[k] # <<>> /\ cmd[w] = Head(queues[k])
    BY <1>1 DEF BusyHolds, Busy, Holds, Scheduling, TypeOK
<1>3. queues[k] \in Seq(Cmds) /\ results \in Seq(Cmds)
    BY DEF TypeOK
<1>4. 1 \in DOMAIN queues[k] /\ cmd[w] = queues[k][1] /\ cmd[w] \in Cmds
    BY <1>2, <1>3, Shortened
<1>5. \A v \in Workers : Busy(v) /\ key[v] = k => v = w
    BY <1>1, <1>2 DEF OneInFlightPerKey, Busy
<1>6. ~HeadReported(k)
    BY <1>1, <1>5 DEF HeadReported, Busy
<1>7. ~Contains(results, cmd[w])
    BY <1>4, <1>6 DEF QueuedReported
<1>8. \A i \in DOMAIN results' :
          (i \in DOMAIN results /\ results'[i] = results[i])
            \/ (i = Len(results) + 1 /\ results'[i] = cmd[w])
    BY <1>1, <1>3, <1>4, Appended
<1>9. \A c \in Cmds : Contains(results', c) <=> Contains(results, c) \/ c = cmd[w]
  <2>1. \A i \in DOMAIN results : i \in DOMAIN results' /\ results'[i] = results[i]
      BY <1>1, <1>3, <1>4, Appended
  <2>2. Len(results) + 1 \in DOMAIN results' /\ results'[Len(results) + 1] = cmd[w]
      BY <1>1, <1>3, <1>4, Appended
  <2>3. QED
      BY <1>8, <2>1, <2>2 DEF Contains
<1>10. ResultsAccepted' /\ NoSecondResult'
    BY <1>1, <1>4, <1>7, <1>8 DEF ResultsAccepted, NoSecondResult, QueuedOnce, Contains
<1>11. \A l \in Keys :
           (\E v \in Workers : worker'[v] = "reported" /\ key'[v] = l) <=> HeadReported(l) \/ l = k
    BY <1>1, <1>2 DEF HeadReported, TypeOK
<1>12. QueuedReported'
  <2> SUFFICES ASSUME NEW l \in Keys, NEW i \in DOMAIN queues[l]
               PROVE  Contains(results', queues[l][i]) <=> i = 1 /\ (HeadReported(l) \/ l = k)
      BY <1>1, <1>11 DEF QueuedReported, HeadReported
  <2>1. queues[l][i] \in Cmds
      BY DEF TypeOK
  <2>2. queues[l][i] = cmd[w] <=> l = k /\ i = 1
      BY <1>4 DEF QueuedOnce
  <2>3. QED
      BY <1>9, <1>6, <2>1, <2>2 DEF QueuedReported
<1>13. QueuedOnce'
    BY <1>1 DEF QueuedOnce
<1>14. QED
    BY <1>10, <1>12, <1>13

\* The head that leaves a queue is the one that has its result.
LEMMA ResultComplete ==
    ASSUME SlotInv, ResultInv, NEW w \in Workers, Complete(w)
    PROVE  ResultInv'
<1> USE DEF SlotInv, ResultInv
<1>1. PICK k \in Keys : k = key[w] /\ queues[k] # <<>>
    BY DEF Complete, BusyHolds, Busy, Holds, Scheduling, TypeOK
<1>2. /\ worker[w] = "reported" /\ queues' = [queues EXCEPT ![k] = Tail(@)]
      /\ key' = [key EXCEPT ![w] = None]
      /\ accepted' = accepted /\ results' = results
      /\ \/ worker' = [worker EXCEPT ![w] = "idle"]
         \/ Signal([worker EXCEPT ![w] = "idle"])
    BY <1>1 DEF Complete, MakeReady
<1>3. queues[k] \in Seq(Cmds)
    BY DEF TypeOK
<1>4. queues'[k] = Tail(queues[k]) /\ \A l \in Keys : l # k => queues'[l] = queues[l]
    BY <1>1, <1>2 DEF TypeOK
<1>5. \A i \in DOMAIN queues'[k] :
          i \in Nat \ {0} /\ i + 1 \in DOMAIN queues[k] /\ queues'[k][i] = queues[k][i + 1]
    BY <1>1, <1>3, <1>4, Shortened
<1>6. \A v \in Workers :
          worker'[v] = "reported" <=> v # w /\ worker[v] = "reported"
  <2> DEFINE ws == [worker EXCEPT ![w] = "idle"]
  <2>1. ws \in [Workers -> {"idle", "waiting", "running", "reported", "exited"}]
        /\ ws[w] = "idle" /\ \A v \in Workers : v # w => ws[v] = worker[v]
      BY DEF TypeOK
  <2>2. worker' = ws \/ Signal(ws)
      BY <1>2
  <2>3. QED
      BY <2>1, <2>2, Woken
<1>7. \A v \in Workers : v # w => key'[v] = key[v]
    BY <1>2 DEF TypeOK
<1>8. \A v \in Workers : worker[v] = "reported" /\ key[v] = k => v = w
    BY <1>1, <1>2 DEF OneInFlightPerKey, Busy
<1>9. \A l \in Keys :
          (\E v \in Workers : worker'[v] = "reported" /\ key'[v] = l) <=> HeadReported(l) /\ l # k
    BY <1>1, <1>2, <1>6, <1>7, <1>8 DEF HeadReported
<1>10. QueuedOnce'
  <2> SUFFICES ASSUME NEW l \in Keys, NEW i \in DOMAIN queues'[l]
               PROVE  /\ queues'[l][i] \in accepted /\ KeyOf[queues'[l][i]] = l
                      /\ \A j \in DOMAIN queues'[l] : queues'[l][i] = queues'[l][j] => i = j
      BY <1>2 DEF QueuedOnce
  <2>1. CASE l = k
    <3>1. queues'[l][i] \in accepted /\ KeyOf[queues'[l][i]] = l
        BY <1>5, <2>1 DEF QueuedOnce
    <3>2. ASSUME NEW j \in DOMAIN queues'[l], queues'[l][i] = queues'[l][j] PROVE i = j
      <4>1. i + 1 = j + 1
          BY <1>5, <2>1, <3>2 DEF QueuedOnce
      <4>2. QED
          BY <1>5, <2>1, <4>1
    <3>3. QED
        BY <3>1, <3>2
  <2>2. CASE l # k
      BY <1>4, <2>2 DEF QueuedOnce
  <2>3. QED
      BY <2>1, <2>2
<1>11. QueuedReported'
  <2> SUFFICES ASSUME NEW l \in Keys, NEW i \in DOMAIN queues'[l]
               PROVE  Contains(results, queues'[l][i]) <=> i = 1 /\ HeadReported(l) /\ l # k
      BY <1>2, <1>9 DEF QueuedReported, HeadReported
  <2>1. CASE l = k
    <3>1. i + 1 # 1 /\ i + 1 \in DOMAIN queues[k] /\ queues'[k][i] = queues[k][i + 1]
        BY <1>5, <2>1
    <3>2. QED
        BY <2>1, <3>1 DEF QueuedReported
  <2>2. CASE l # k
      BY <1>4, <2>2 DEF QueuedReported
  <2>3. QED
      BY <2>1, <2>2
<1>12. ResultsAccepted' /\ NoSecondResult'
    BY <1>2 DEF ResultsAccepted, NoSecondResult
<1>13. QED
    BY <1>10, <1>11, <1>12

\* Every other step leaves queues, results and reported workers alone.
LEMMA ResultOther ==
    ASSUME SlotInv, ResultInv,
           \/ \E c \in Cmds : SubmitRefused(c)
           \/ Close
           \/ \E w \in Workers : Wait(w) \/ Take(w) \/ Exit(w)
    PROVE  ResultInv'
<1> USE DEF SlotInv, ResultInv
<1>1. queues' = queues /\ accepted' = accepted /\ results' = results
    BY DEF SubmitRefused, Close, Wait, Take, Exit
<1>2. \A v \in Workers :
        /\ worker'[v] = "reported" <=> worker[v] = "reported"
        /\ worker[v] = "reported" => key'[v] = key[v]
  <2>1. CASE \E c \in Cmds : SubmitRefused(c)
      BY <2>1 DEF SubmitRefused
  <2>2. CASE Close
      BY <2>2 DEF Close, TypeOK
  <2>3. CASE \E w \in Workers : Wait(w) \/ Exit(w)
      BY <2>3 DEF Wait, Exit, MayExit, TypeOK
  <2>4. CASE \E w \in Workers : Take(w)
      BY <2>4 DEF Take, Took, TypeOK
  <2>5. QED
      BY <2>1, <2>2, <2>3, <2>4
<1>3. QED
    BY <1>1, <1>2 DEF QueuedOnce, QueuedReported, ResultsAccepted, NoSecondResult, HeadReported

\* Every step keeps one result for a command at most.
LEMMA ResultStep == SlotInv /\ ResultInv /\ [Next]_vars => ResultInv'
<1> SUFFICES ASSUME SlotInv, ResultInv, [Next]_vars PROVE ResultInv'
    OBVIOUS
<1>1. CASE \E c \in Cmds : Submit(c)
    BY <1>1, ResultSubmit
<1>2. CASE \E w \in Workers : Report(w)
    BY <1>2, ResultReport
<1>3. CASE \E w \in Workers : Complete(w)
    BY <1>3, ResultComplete
<1>4. CASE \/ \E c \in Cmds : SubmitRefused(c)
           \/ Close
           \/ \E w \in Workers : Wait(w) \/ Take(w) \/ Exit(w)
    BY <1>4, ResultOther
<1>5. CASE UNCHANGED vars
    BY <1>5 DEF vars, ResultInv, QueuedOnce, QueuedReported, ResultsAccepted, NoSecondResult,
                HeadReported
<1>6. QED
    BY <1>1, <1>2, <1>3, <1>4, <1>5 DEF Next

\* An accepted id produces no second result, however often it is dispatched.
THEOREM ReportedOnce == Spec => []NoSecondResult
<1>1. Spec => []ResultInv
    BY ResultInit, ResultStep, SlotInvariant, PTL DEF Spec
<1>2. ResultInv => NoSecondResult
    BY DEF ResultInv
<1>3. QED
    BY <1>1, <1>2, PTL

-----------------------------------------------------------------------------
\* There is a worker, and it has not exited.
LEMMA CloseInit == Init => CloseInv
BY ExecutorAssumption
   DEF Init, CloseInv, NoneForgotten, KeyPlaced, ExitedMeansDone

\* A submitted command is in its queue, and its key ready or held.
LEMMA CloseSubmit ==
    ASSUME SlotInv, CloseInv, NEW c \in Cmds, Submit(c)
    PROVE  CloseInv'
<1> USE DEF SlotInv, CloseInv
<1> DEFINE k == KeyOf[c]
<1>1. k \in Keys /\ queues[k] \in Seq(Cmds) /\ accepted \subseteq Cmds
    BY ExecutorAssumption DEF TypeOK
<1>2. /\ queues' = [queues EXCEPT ![k] = Append(@, c)]
      /\ accepted' = accepted \cup {c} /\ ~closed /\ closed' = closed
      /\ key' = key /\ results' = results
    BY DEF Submit, Enqueue, Accepts
<1>3. queues'[k] = Append(queues[k], c) /\ \A l \in Keys : l # k => queues'[l] = queues[l]
    BY <1>1, <1>2 DEF TypeOK
<1>4. \A i \in DOMAIN queues[k] : i \in DOMAIN queues'[k] /\ queues'[k][i] = queues[k][i]
    BY <1>1, <1>3, Appended
<1>5. Len(queues[k]) + 1 \in DOMAIN queues'[k] /\ queues'[k][Len(queues[k]) + 1] = c
    BY <1>1, <1>3, Appended
<1>6. \A v \in Workers : (Busy(v)' <=> Busy(v)) /\ (worker'[v] = "exited" <=> worker[v] = "exited")
  <2>1. worker' = worker \/ Signal(worker)
      BY DEF Submit, MakeReady
  <2>2. QED
      BY <2>1, Woken DEF TypeOK, Busy
<1>7. NoneForgotten'
  <2> SUFFICES ASSUME NEW d \in accepted'
               PROVE  Contains(results, d)
                        \/ \E i \in DOMAIN queues'[KeyOf[d]] : queues'[KeyOf[d]][i] = d
      BY <1>2 DEF NoneForgotten, InQueue
  <2>1. CASE d = c
      BY <1>5, <2>1
  <2>2. CASE d # c
    <3>1. d \in accepted /\ KeyOf[d] \in Keys
        BY <1>1, <1>2, <2>2, ExecutorAssumption
    <3>2. CASE Contains(results, d)
        BY <3>2
    <3>3. CASE InQueue(d)
        BY <1>3, <1>4, <3>1, <3>3 DEF InQueue
    <3>4. QED
        BY <3>1, <3>2, <3>3 DEF NoneForgotten
  <2>3. QED
      BY <2>1, <2>2
<1>8. \A l \in Keys : IsReady(l) => \E i \in DOMAIN readyKeys' : readyKeys'[i] = l
  <2>1. readyKeys \in Seq(Keys) /\ (readyKeys' = readyKeys \/ readyKeys' = Append(readyKeys, k))
      BY DEF Submit, MakeReady, TypeOK
  <2>2. \A i \in DOMAIN readyKeys : i \in DOMAIN readyKeys' /\ readyKeys'[i] = readyKeys[i]
      BY <1>1, <2>1, Appended
  <2>3. QED
      BY <2>2 DEF IsReady
<1>9. KeyPlaced'
  <2> SUFFICES ASSUME NEW l \in scheduled'
               PROVE  (\E i \in DOMAIN readyKeys' : readyKeys'[i] = l) \/ Held(l)
      BY <1>2, <1>6 DEF KeyPlaced, IsReady, Held
  <2>1. CASE l \in scheduled
      BY <1>8, <2>1 DEF KeyPlaced, TypeOK
  <2>2. CASE l \notin scheduled
    <3>1. l = k /\ readyKeys' = Append(readyKeys, k) /\ readyKeys \in Seq(Keys)
        BY <2>2 DEF Submit, IsScheduled, MakeReady, TypeOK
    <3>2. Len(readyKeys) + 1 \in DOMAIN readyKeys' /\ readyKeys'[Len(readyKeys) + 1] = k
        BY <1>1, <3>1, Appended
    <3>3. QED
        BY <3>1, <3>2
  <2>3. QED
      BY <2>1, <2>2
<1>10. ExitedMeansDone'
  <2>1. \A v \in Workers : worker[v] # "exited"
      BY <1>2 DEF ExitedMeansDone
  <2>2. QED
      BY <1>6, <2>1, ExecutorAssumption DEF ExitedMeansDone
<1>11. QED
    BY <1>7, <1>9, <1>10

\* A key leaves the ready list for the worker that takes it.
LEMMA CloseTake ==
    ASSUME SlotInv, CloseInv, NEW w \in Workers, Take(w)
    PROVE  CloseInv'
<1> USE DEF SlotInv, CloseInv
<1>1. /\ worker[w] = "idle" /\ readyKeys # <<>> /\ readyKeys' = Tail(readyKeys)
      /\ worker' = [worker EXCEPT ![w] = "running"]
      /\ key' = [key EXCEPT ![w] = Head(readyKeys)]
      /\ queues' = queues /\ scheduled' = scheduled /\ accepted' = accepted
      /\ closed' = closed /\ results' = results
    BY DEF Take, Took
<1>2. worker'[w] = "running" /\ key'[w] = Head(readyKeys)
      /\ \A v \in Workers : v # w => worker'[v] = worker[v] /\ key'[v] = key[v]
    BY <1>1 DEF TypeOK
<1>3. readyKeys \in Seq(Keys) /\ Head(readyKeys) = readyKeys[1]
      /\ \A i \in DOMAIN readyKeys :
            i = 1 \/ (i - 1 \in DOMAIN readyKeys' /\ readyKeys[i] = readyKeys'[i - 1])
    BY <1>1, Shortened DEF TypeOK
<1>4. NoneForgotten'
    BY <1>1 DEF NoneForgotten, InQueue
<1>5. KeyPlaced'
  <2> SUFFICES ASSUME NEW l \in scheduled
               PROVE  \/ \E i \in DOMAIN readyKeys' : readyKeys'[i] = l
                      \/ \E v \in Workers : Busy(v)' /\ key'[v] = l
      BY <1>1 DEF KeyPlaced, IsReady, Held
  <2>1. CASE Held(l)
      BY <1>1, <1>2, <2>1 DEF Held, Busy
  <2>2. CASE IsReady(l)
    <3>1. PICK i \in DOMAIN readyKeys : readyKeys[i] = l
        BY <2>2 DEF IsReady
    <3>2. CASE i = 1
        BY <1>2, <1>3, <3>1, <3>2 DEF Busy
    <3>3. CASE i # 1
        BY <1>3, <3>1, <3>3
    <3>4. QED
        BY <3>2, <3>3
  <2>3. QED
      BY <2>1, <2>2 DEF KeyPlaced
<1>6. ExitedMeansDone'
    BY <1>1, <1>2 DEF ExitedMeansDone
<1>7. QED
    BY <1>4, <1>5, <1>6

\* A result is out, and nothing else has changed.
LEMMA CloseReport ==
    ASSUME SlotInv, CloseInv, NEW w \in Workers, Report(w)
    PROVE  CloseInv'
<1> USE DEF SlotInv, CloseInv
<1>1. /\ worker[w] = "running" /\ worker' = [worker EXCEPT ![w] = "reported"]
      /\ results' = Append(results, cmd[w])
      /\ UNCHANGED <<queues, readyKeys, scheduled, accepted, closed, key>>
    BY DEF Report
<1>2. results \in Seq(Cmds) /\ results' \in Seq(Cmds)
  <2>1. TypeOK'
      BY SlotReport
  <2>2. QED
      BY <2>1 DEF TypeOK
<1>3. \A i \in DOMAIN results : i \in DOMAIN results' /\ results'[i] = results[i]
    BY <1>1, <1>2
<1>4. NoneForgotten'
    BY <1>1, <1>3 DEF NoneForgotten, Contains, InQueue
<1>5. \A v \in Workers : (Busy(v)' <=> Busy(v)) /\ (worker'[v] = "exited" <=> worker[v] = "exited")
    BY <1>1 DEF TypeOK, Busy
<1>6. KeyPlaced' /\ ExitedMeansDone'
    BY <1>1, <1>5 DEF KeyPlaced, IsReady, Held, ExitedMeansDone
<1>7. QED
    BY <1>4, <1>6

\* The command that leaves its queue has its result, and its key is ready again
\* unless the queue is empty.
LEMMA CloseComplete ==
    ASSUME SlotInv, ResultInv, CloseInv, NEW w \in Workers, Complete(w)
    PROVE  CloseInv'
<1> USE DEF SlotInv, CloseInv
<1>1. PICK k \in Keys : k = key[w] /\ queues[k] # <<>>
    BY DEF Complete, BusyHolds, Busy, Holds, Scheduling, TypeOK
<1>2. /\ worker[w] = "reported" /\ queues' = [queues EXCEPT ![k] = Tail(@)]
      /\ key' = [key EXCEPT ![w] = None]
      /\ accepted' = accepted /\ closed' = closed /\ results' = results
    BY <1>1 DEF Complete
<1>3. queues'[k] = Tail(queues[k]) /\ \A l \in Keys : l # k => queues'[l] = queues[l]
    BY <1>1, <1>2 DEF TypeOK
<1>4. \A i \in DOMAIN queues[k] :
          i = 1 \/ (i - 1 \in DOMAIN queues'[k] /\ queues[k][i] = queues'[k][i - 1])
  <2>1. queues[k] \in Seq(Cmds)
      BY DEF TypeOK
  <2>2. QED
      BY <1>1, <1>3, <2>1, Shortened
<1>5. 1 \in DOMAIN queues[k] => Contains(results, queues[k][1])
    BY <1>1, <1>2 DEF ResultInv, QueuedReported, HeadReported
<1>6. NoneForgotten'
  <2> SUFFICES ASSUME NEW d \in accepted, ~Contains(results, d)
               PROVE  \E i \in DOMAIN queues'[KeyOf[d]] : queues'[KeyOf[d]][i] = d
      BY <1>2 DEF NoneForgotten, InQueue
  <2>1. PICK i \in DOMAIN queues[KeyOf[d]] : queues[KeyOf[d]][i] = d
      BY DEF NoneForgotten, InQueue
  <2>2. KeyOf[d] \in Keys
      BY ExecutorAssumption DEF TypeOK
  <2>3. CASE KeyOf[d] = k
      BY <1>4, <1>5, <2>1, <2>3
  <2>4. CASE KeyOf[d] # k
      BY <1>3, <2>1, <2>2, <2>4
  <2>5. QED
      BY <2>3, <2>4
<1> DEFINE ws == [worker EXCEPT ![w] = "idle"]
<1>7. ws \in [Workers -> {"idle", "waiting", "running", "reported", "exited"}]
      /\ ws[w] = "idle" /\ \A v \in Workers : v # w => ws[v] = worker[v]
    BY DEF TypeOK
<1>8. \/ /\ scheduled' = scheduled \ {k} /\ worker' = ws /\ readyKeys' = readyKeys
      \/ /\ scheduled' = scheduled /\ readyKeys' = Append(readyKeys, k) /\ Signal(ws)
    BY <1>1 DEF Complete, MakeReady
<1>9. /\ worker'[w] = "idle"
      /\ \A v \in Workers : v # w => (Busy(v)' <=> Busy(v)) /\ key'[v] = key[v]
      /\ \A v \in Workers : worker'[v] = "exited" => worker[v] = "exited"
    BY <1>2, <1>7, <1>8, Woken DEF Busy, TypeOK
<1>10. KeyPlaced'
  <2> SUFFICES ASSUME NEW l \in scheduled'
               PROVE  \/ \E i \in DOMAIN readyKeys' : readyKeys'[i] = l
                      \/ \E v \in Workers : Busy(v)' /\ key'[v] = l
      BY DEF KeyPlaced, IsReady, Held
  <2>1. readyKeys \in Seq(Keys) /\ l \in scheduled
      BY <1>8 DEF TypeOK
  <2>2. CASE l = k
    <3>1. readyKeys' = Append(readyKeys, k)
        BY <1>8, <2>2
    <3>2. Len(readyKeys) + 1 \in DOMAIN readyKeys' /\ readyKeys'[Len(readyKeys) + 1] = k
        BY <1>1, <2>1, <3>1, Appended
    <3>3. QED
        BY <2>2, <3>2
  <2>3. CASE l # k /\ IsReady(l)
    <3>1. \A i \in DOMAIN readyKeys : i \in DOMAIN readyKeys' /\ readyKeys'[i] = readyKeys[i]
        BY <1>1, <1>8, <2>1, Appended
    <3>2. QED
        BY <2>3, <3>1 DEF IsReady
  <2>4. CASE l # k /\ Held(l)
      BY <1>1, <1>9, <2>4 DEF Held
  <2>5. QED
      BY <2>1, <2>2, <2>3, <2>4 DEF KeyPlaced
<1>11. ExitedMeansDone'
    BY <1>2, <1>9 DEF ExitedMeansDone
<1>12. QED
    BY <1>6, <1>10, <1>11

\* A worker exits only when the executor is closed and no key is ready; waiting,
\* waking up and refusing a command move nothing.
LEMMA CloseOther ==
    ASSUME SlotInv, CloseInv,
           \/ \E c \in Cmds : SubmitRefused(c)
           \/ Close
           \/ \E w \in Workers : Wait(w) \/ Exit(w)
    PROVE  CloseInv'
<1> USE DEF SlotInv, CloseInv
<1>1. UNCHANGED <<queues, readyKeys, scheduled, accepted, key, results>>
    BY DEF SubmitRefused, Close, Wait, Exit
<1>2. NoneForgotten'
    BY <1>1 DEF NoneForgotten, InQueue
<1>3. \A v \in Workers : Busy(v)' <=> Busy(v)
  <2>1. CASE \E c \in Cmds : SubmitRefused(c)
      BY <2>1 DEF SubmitRefused, Busy
  <2>2. CASE Close
      BY <2>2 DEF Close, TypeOK, Busy
  <2>3. CASE \E w \in Workers : Wait(w) \/ Exit(w)
      BY <2>3 DEF Wait, Exit, MayExit, TypeOK, Busy
  <2>4. QED
      BY <2>1, <2>2, <2>3
<1>4. KeyPlaced'
    BY <1>1, <1>3 DEF KeyPlaced, IsReady, Held
<1>5. ExitedMeansDone'
  <2>1. CASE \E c \in Cmds : SubmitRefused(c)
      BY <2>1 DEF SubmitRefused, ExitedMeansDone
  <2>2. CASE Close
      BY <2>2 DEF Close, TypeOK, ExitedMeansDone
  <2>3. ASSUME NEW w \in Workers, Wait(w) PROVE ExitedMeansDone'
      BY <2>3 DEF Wait, TypeOK, ExitedMeansDone
  <2>4. ASSUME NEW w \in Workers, Exit(w) PROVE ExitedMeansDone'
      BY <2>4 DEF Exit, MayExit, TypeOK, ExitedMeansDone
  <2>5. QED
      BY <2>1, <2>2, <2>3, <2>4
<1>6. QED
    BY <1>2, <1>4, <1>5

\* Every step leaves each accepted command reported or in a queue whose key
\* some worker will find.
LEMMA CloseStep == SlotInv /\ ResultInv /\ CloseInv /\ [Next]_vars => CloseInv'
<1> SUFFICES ASSUME SlotInv, ResultInv, CloseInv, [Next]_vars PROVE CloseInv'
    OBVIOUS
<1>1. CASE \E c \in Cmds : Submit(c)
    BY <1>1, CloseSubmit
<1>2. CASE \E w \in Workers : Take(w)
    BY <1>2, CloseTake
<1>3. CASE \E w \in Workers : Report(w)
    BY <1>3, CloseReport
<1>4. CASE \E w \in Workers : Complete(w)
    BY <1>4, CloseComplete
<1>5. CASE \/ \E c \in Cmds : SubmitRefused(c)
           \/ Close
           \/ \E w \in Workers : Wait(w) \/ Exit(w)
    BY <1>5, CloseOther
<1>6. CASE UNCHANGED vars
    BY <1>6 DEF vars, CloseInv, NoneForgotten, InQueue, KeyPlaced, IsReady, Held, Busy,
                ExitedMeansDone
<1>7. QED
    BY <1>1, <1>2, <1>3, <1>4, <1>5, <1>6 DEF Next

\* When the last worker has exited, so that Close returns, every accepted
\* command has its result.
THEOREM ShutdownDrains == Spec => []CloseDrains
<1>1. Spec => []ResultInv
    BY ResultInit, ResultStep, SlotInvariant, PTL DEF Spec
<1>2. Spec => []CloseInv
    BY <1>1, CloseInit, CloseStep, SlotInvariant, PTL DEF Spec
<1>3. SlotInv /\ CloseInv => CloseDrains
  <2> SUFFICES ASSUME SlotInv, CloseInv, \A w \in Workers : worker[w] = "exited",
                      NEW c \in accepted
               PROVE  Contains(results, c)
      BY DEF CloseDrains
  <2>1. readyKeys = <<>> /\ \A w \in Workers : ~Busy(w)
      BY DEF CloseInv, ExitedMeansDone, Busy
  <2>2. scheduled = {}
      BY <2>1 DEF CloseInv, KeyPlaced, IsReady, Held
  <2>3. queues[KeyOf[c]] = <<>>
      BY <2>2, ExecutorAssumption DEF SlotInv, TypeOK, Scheduling
  <2>4. ~InQueue(c)
      BY <2>3 DEF InQueue
  <2>5. QED
      BY <2>4 DEF CloseInv, NoneForgotten
<1>4. QED
    BY <1>2, <1>3, SlotInvariant, PTL

-----------------------------------------------------------------------------
\* What a session was given before a queued command is reported, or ahead of it.
AheadOf(k, i, c) == \E j \in DOMAIN queues[k] : j < i /\ queues[k][j] = c
QueueOrder ==
    \A k \in Keys : \A i \in DOMAIN queues[k] : \A c \in accepted :
        KeyOf[c] = k /\ Before(submitted, c, queues[k][i])
            => Contains(results, c) \/ AheadOf(k, i, c)
SubmittedAccepted == \A i \in DOMAIN submitted : submitted[i] \in accepted

OrderInv == QueueOrder /\ SubmittedAccepted

\* A submitted command comes after every other of its session.
LEMMA OrderSubmit ==
    ASSUME SlotInv, ResultInv, CloseInv, OrderInv, NEW c \in Cmds, Submit(c)
    PROVE  OrderInv'
<1> USE DEF OrderInv
<1> DEFINE k == KeyOf[c]
<1>1. /\ k \in Keys /\ queues[k] \in Seq(Cmds) /\ accepted \subseteq Cmds
      /\ submitted \in Seq(Cmds)
    BY ExecutorAssumption DEF SlotInv, TypeOK
<1>2. /\ queues' = [queues EXCEPT ![k] = Append(@, c)]
      /\ c \notin accepted /\ accepted' = accepted \cup {c}
      /\ submitted' = Append(submitted, c) /\ results' = results
    BY DEF Submit, Enqueue, Accepts
<1>3. queues'[k] = Append(queues[k], c) /\ \A l \in Keys : l # k => queues'[l] = queues[l]
    BY <1>1, <1>2 DEF SlotInv, TypeOK
<1>4. /\ Len(queues[k]) \in Nat /\ DOMAIN queues[k] = 1..Len(queues[k])
      /\ \A i \in DOMAIN queues[k] : i \in DOMAIN queues'[k] /\ queues'[k][i] = queues[k][i]
      /\ \A i \in DOMAIN queues'[k] :
            i \in DOMAIN queues[k] \/ (i = Len(queues[k]) + 1 /\ queues'[k][i] = c)
    BY <1>1, <1>3, Appended
<1>5. /\ Len(submitted) \in Nat /\ DOMAIN submitted = 1..Len(submitted)
      /\ DOMAIN submitted' = 1..(Len(submitted) + 1)
      /\ \A i \in DOMAIN submitted : submitted'[i] = submitted[i]
      /\ submitted'[Len(submitted) + 1] = c
    BY <1>1, <1>2, Appended
<1>6. SubmittedAccepted'
    BY <1>2, <1>5 DEF SubmittedAccepted
<1>7. \A a, b : Before(submitted', a, b) /\ b # c => Before(submitted, a, b)
    BY <1>5 DEF Before
<1>8. \A a : Before(submitted', a, c) => a \in accepted
  <2>1. \A i \in DOMAIN submitted : submitted[i] # c
      BY <1>2 DEF SubmittedAccepted
  <2>2. QED
      BY <1>5, <2>1 DEF Before, SubmittedAccepted
<1>9. \A b : ~Before(submitted, c, b)
    BY <1>2 DEF Before, SubmittedAccepted
<1>10. QueueOrder'
  <2> SUFFICES ASSUME NEW l \in Keys, NEW i \in DOMAIN queues'[l], NEW a \in accepted',
                      KeyOf[a] = l, Before(submitted', a, queues'[l][i])
               PROVE  Contains(results, a) \/ \E j \in DOMAIN queues'[l] : j < i /\ queues'[l][j] = a
      BY <1>2 DEF QueueOrder, AheadOf
  <2>1. CASE l # k
    <3>1. queues'[l] = queues[l] /\ queues[l][i] # c
        BY <1>2, <1>3, <2>1 DEF ResultInv, QueuedOnce
    <3>2. a \in accepted /\ Before(submitted, a, queues[l][i])
        BY <1>2, <1>7, <1>9, <3>1
    <3>3. QED
        BY <3>1, <3>2 DEF QueueOrder, AheadOf
  <2>2. CASE l = k /\ i \in DOMAIN queues[k]
    <3>1. queues'[k][i] = queues[k][i] /\ queues[k][i] # c
        BY <1>2, <1>4, <2>2 DEF ResultInv, QueuedOnce
    <3>2. a \in accepted /\ Before(submitted, a, queues[k][i])
        BY <1>2, <1>7, <1>9, <2>2, <3>1
    <3>3. Contains(results, a) \/ AheadOf(k, i, a)
        BY <2>2, <3>2 DEF QueueOrder
    <3>4. QED
        BY <1>4, <2>2, <3>3 DEF AheadOf
  <2>3. CASE l = k /\ i \notin DOMAIN queues[k]
    <3>1. i = Len(queues[k]) + 1 /\ queues'[k][i] = c
        BY <1>4, <2>3
    <3>2. a \in accepted
        BY <1>8, <2>3, <3>1
    <3>3. Contains(results, a) \/ \E j \in DOMAIN queues[k] : queues[k][j] = a
        BY <2>3, <3>2 DEF CloseInv, NoneForgotten, InQueue
    <3>4. QED
        BY <1>4, <2>3, <3>1, <3>3
  <2>4. QED
      BY <2>1, <2>2, <2>3
<1>11. QED
    BY <1>6, <1>10

\* The head that leaves a queue has its result, and the others keep their order.
LEMMA OrderComplete ==
    ASSUME SlotInv, ResultInv, OrderInv, NEW w \in Workers, Complete(w)
    PROVE  OrderInv'
<1> USE DEF OrderInv
<1>1. PICK k \in Keys : k = key[w] /\ queues[k] # <<>>
    BY DEF Complete, SlotInv, BusyHolds, Busy, Holds, Scheduling, TypeOK
<1>2. /\ worker[w] = "reported" /\ queues' = [queues EXCEPT ![k] = Tail(@)]
      /\ accepted' = accepted /\ submitted' = submitted /\ results' = results
    BY <1>1 DEF Complete
<1>3. queues'[k] = Tail(queues[k]) /\ \A l \in Keys : l # k => queues'[l] = queues[l]
    BY <1>1, <1>2 DEF SlotInv, TypeOK
<1>4. /\ \A i \in DOMAIN queues'[k] :
            i \in Nat \ {0} /\ i + 1 \in DOMAIN queues[k] /\ queues'[k][i] = queues[k][i + 1]
      /\ \A i \in DOMAIN queues[k] :
            i = 1 \/ (i - 1 \in DOMAIN queues'[k] /\ queues[k][i] = queues'[k][i - 1])
      /\ 1 \in DOMAIN queues[k] /\ \A i \in DOMAIN queues[k] : i \in Nat
  <2>1. queues[k] \in Seq(Cmds)
      BY DEF SlotInv, TypeOK
  <2>2. QED
      BY <1>1, <1>3, <2>1, Shortened
<1>5. Contains(results, queues[k][1])
    BY <1>1, <1>2, <1>4 DEF ResultInv, QueuedReported, HeadReported
<1>6. QueueOrder'
  <2> SUFFICES ASSUME NEW l \in Keys, NEW i \in DOMAIN queues'[l], NEW a \in accepted,
                      KeyOf[a] = l, Before(submitted, a, queues'[l][i])
               PROVE  Contains(results, a) \/ \E j \in DOMAIN queues'[l] : j < i /\ queues'[l][j] = a
      BY <1>2 DEF QueueOrder, AheadOf
  <2>1. CASE l # k
      BY <1>3, <2>1 DEF QueueOrder, AheadOf
  <2>2. CASE l = k
    <3>1. i \in Nat /\ i + 1 \in DOMAIN queues[k] /\ queues'[k][i] = queues[k][i + 1]
        BY <1>4, <2>2
    <3>2. Contains(results, a) \/ AheadOf(k, i + 1, a)
        BY <2>2, <3>1 DEF QueueOrder
    <3>3. CASE AheadOf(k, i + 1, a)
      <4>1. PICK j \in DOMAIN queues[k] : j < i + 1 /\ queues[k][j] = a
          BY <3>3 DEF AheadOf
      <4>2. CASE j = 1
          BY <1>5, <4>1, <4>2
      <4>3. CASE j # 1
        <5>1. j - 1 \in DOMAIN queues'[k] /\ queues'[k][j - 1] = a
            BY <1>4, <4>1, <4>3
        <5>2. j - 1 < i
            BY <1>4, <3>1, <4>1
        <5>3. QED
            BY <2>2, <5>1, <5>2
      <4>4. QED
          BY <4>2, <4>3
    <3>4. QED
        BY <3>2, <3>3
  <2>3. QED
      BY <2>1, <2>2
<1>7. SubmittedAccepted'
    BY <1>2 DEF SubmittedAccepted
<1>8. QED
    BY <1>6, <1>7

\* A result only helps.
LEMMA OrderReport ==
    ASSUME SlotInv, OrderInv, NEW w \in Workers, Report(w)
    PROVE  OrderInv'
<1>1. results' = Append(results, cmd[w])
      /\ queues' = queues /\ accepted' = accepted /\ submitted' = submitted
    BY DEF Report
<1>2. results \in Seq(Cmds) /\ results' \in Seq(Cmds)
  <2>1. TypeOK'
      BY SlotReport DEF SlotInv
  <2>2. QED
      BY <2>1 DEF SlotInv, TypeOK
<1>3. \A c : Contains(results, c) => Contains(results', c)
    BY <1>1, <1>2 DEF Contains
<1>4. QED
    BY <1>1, <1>3 DEF OrderInv, QueueOrder, AheadOf, SubmittedAccepted

\* Every step keeps the order of each session.
LEMMA OrderStep ==
    SlotInv /\ ResultInv /\ CloseInv /\ OrderInv /\ [Next]_vars => OrderInv'
<1> SUFFICES ASSUME SlotInv, ResultInv, CloseInv, OrderInv, [Next]_vars PROVE OrderInv'
    OBVIOUS
<1>1. CASE \E c \in Cmds : Submit(c)
    BY <1>1, OrderSubmit
<1>2. CASE \E w \in Workers : Complete(w)
    BY <1>2, OrderComplete
<1>3. CASE \E w \in Workers : Report(w)
    BY <1>3, OrderReport
<1>4. CASE \/ \E c \in Cmds : SubmitRefused(c)
           \/ Close
           \/ \E w \in Workers : Wait(w) \/ Take(w) \/ Exit(w)
           \/ UNCHANGED vars
  <2>1. UNCHANGED <<queues, accepted, submitted, results>>
      BY <1>4 DEF SubmitRefused, Close, Wait, Take, Exit, vars
  <2>2. QED
      BY <2>1 DEF OrderInv, QueueOrder, AheadOf, SubmittedAccepted
<1>5. QED
    BY <1>1, <1>2, <1>3, <1>4 DEF Next

\* A session's commands take effect in the order they were dispatched.
THEOREM SessionKeepsOrder == Spec => []SessionOrder
<1>1. Spec => []ResultInv
    BY ResultInit, ResultStep, SlotInvariant, PTL DEF Spec
<1>2. Spec => []CloseInv
    BY <1>1, CloseInit, CloseStep, SlotInvariant, PTL DEF Spec
<1>3. Init => OrderInv
    BY DEF Init, OrderInv, QueueOrder, SubmittedAccepted
<1>4. Spec => []OrderInv
    BY <1>1, <1>2, <1>3, OrderStep, SlotInvariant, PTL DEF Spec
<1>5. SlotInv /\ OrderInv => SessionOrder
  <2> SUFFICES ASSUME SlotInv, OrderInv, NEW w \in Workers, Busy(w), NEW c \in accepted,
                      KeyOf[c] = key[w], Before(submitted, c, cmd[w])
               PROVE  Contains(results, c)
      BY DEF SessionOrder
  <2>1. PICK k \in Keys : k = key[w] /\ queues[k] # <<>> /\ cmd[w] = Head(queues[k])
      BY DEF SlotInv, BusyHolds, Holds, Scheduling, TypeOK
  <2>2. queues[k] \in Seq(Cmds)
      BY DEF SlotInv, TypeOK
  <2>3. 1 \in DOMAIN queues[k] /\ cmd[w] = queues[k][1]
      BY <2>1, <2>2, Shortened
  <2>4. ~AheadOf(k, 1, c)
      BY <2>2 DEF AheadOf
  <2>5. QED
      BY <2>1, <2>3, <2>4 DEF OrderInv, QueueOrder
<1>6. QED
    BY <1>4, <1>5, SlotInvariant, PTL

-----------------------------------------------------------------------------
\* Wake-ups: the workers that are about to look for a key, against the keys.
Idle == {w \in Workers : worker[w] = "idle"}
Sleeps == \E w \in Workers : worker[w] = "waiting"

\* NewExecutor's pool is finite, and so is every part of it.
LEMMA Counted ==
    /\ IsFiniteSet(Idle) /\ IsFiniteSet(Idle') /\ Cardinality(Idle) \in Nat
    /\ \A S \in SUBSET Idle' :
           IsFiniteSet(S) /\ Cardinality(S) \in Nat /\ Cardinality(Idle') >= Cardinality(S)
<1>1. \A S \in SUBSET Workers : IsFiniteSet(S) /\ Cardinality(S) \in Nat
    BY ExecutorAssumption, FS_Subset, FS_CardinalityType
<1>2. Idle \in SUBSET Workers /\ Idle' \in SUBSET Workers
    BY DEF Idle
<1>3. QED
    BY <1>1, <1>2, FS_Subset

\* A key that becomes ready, while somebody sleeps, wakes one more worker.
LEMMA WakesOne ==
    ASSUME TypeOK, NoLostWakeup, NEW k \in Keys, NEW ws, MakeReady(k, ws), Sleeps',
           ws \in [Workers -> {"idle", "waiting", "running", "reported", "exited"}],
           \A w \in Workers : worker[w] \in {"idle", "waiting"} => ws[w] = worker[w],
           \A w \in Workers : ws[w] = "waiting" => worker[w] = "waiting"
    PROVE  NoLostWakeup'
<1>1. PICK w \in Workers : ws[w] = "waiting" /\ worker' = [ws EXCEPT ![w] = "idle"]
    BY DEF MakeReady, Signal, Sleeps
<1>2. Idle \cup {w} \subseteq Idle' /\ w \notin Idle
    BY <1>1 DEF Idle
<1>3. Cardinality(Idle \cup {w}) = Cardinality(Idle) + 1
    BY <1>2, Counted, FS_AddElement
<1>4. Cardinality(Idle') >= Cardinality(Idle) + 1
    BY <1>2, <1>3, Counted
<1>5. Cardinality(Idle) >= Len(readyKeys)
    BY <1>1 DEF NoLostWakeup, Idle
<1>6. Len(readyKeys') = Len(readyKeys) + 1 /\ Len(readyKeys) \in Nat
    BY DEF MakeReady, TypeOK
<1>7. Cardinality(Idle') \in Nat
    BY Counted
<1>8. Cardinality(Idle') >= Len(readyKeys')
    BY <1>4, <1>5, <1>6, <1>7, Counted
<1>9. QED
    BY <1>8 DEF NoLostWakeup, Idle

\* No fewer workers look for a key, and no more keys are ready.
LEMMA WakeupKept ==
    ASSUME TypeOK, NoLostWakeup, readyKeys' = readyKeys, Sleeps' => Sleeps, Idle \subseteq Idle'
    PROVE  NoLostWakeup'
<1>1. Cardinality(Idle') >= Cardinality(Idle) /\ Cardinality(Idle') \in Nat
    BY Counted
<1>2. Len(readyKeys) \in Nat
    BY DEF TypeOK
<1>3. Sleeps => Cardinality(Idle) >= Len(readyKeys)
    BY DEF NoLostWakeup, Sleeps, Idle
<1>4. Sleeps' => Cardinality(Idle') >= Len(readyKeys')
    BY <1>1, <1>2, <1>3, Counted
<1>5. QED
    BY <1>4 DEF NoLostWakeup, Sleeps, Idle

LEMMA WakeupStep ==
    ASSUME TypeOK, SlotInv, NoLostWakeup, [Next]_vars
    PROVE  NoLostWakeup'
<1> SUFFICES ASSUME Sleeps' PROVE NoLostWakeup'
    BY DEF NoLostWakeup, Sleeps
<1> DEFINE States == {"idle", "waiting", "running", "reported", "exited"}
<1>1. ASSUME NEW c \in Cmds, Submit(c) PROVE NoLostWakeup'
    <2>1. KeyOf[c] \in Keys /\ worker \in [Workers -> States]
        BY ExecutorAssumption DEF TypeOK
    <2>2. CASE IsScheduled(KeyOf[c])
        BY <1>1, <2>2, WakeupKept DEF Submit, Sleeps, Idle
    <2>3. CASE ~IsScheduled(KeyOf[c])
        <3>1. MakeReady(KeyOf[c], worker)
            BY <1>1, <2>3 DEF Submit
        <3>2. QED
            BY <2>1, <3>1, WakesOne
    <2>4. QED
        BY <2>2, <2>3
<1>2. CASE Close
    BY <1>2 DEF Close, Sleeps, TypeOK
<1>3. ASSUME NEW w \in Workers, Wait(w) \/ Exit(w) PROVE NoLostWakeup'
    <2>1. readyKeys' = <<>>
        BY <1>3 DEF Wait, Exit, MayExit
    <2>2. Len(readyKeys') = 0 /\ Cardinality(Idle') \in Nat
        BY <2>1, Counted
    <2>3. QED
        BY <2>2 DEF NoLostWakeup, Idle
<1>4. ASSUME NEW w \in Workers, Take(w) PROVE NoLostWakeup'
    <2>1. /\ worker[w] = "idle" /\ worker' = [worker EXCEPT ![w] = "running"]
          /\ readyKeys # <<>> /\ readyKeys' = Tail(readyKeys)
        BY <1>4 DEF Take
    <2>2. w \in Idle /\ Idle' = Idle \ {w} /\ Sleeps
        BY <2>1 DEF Idle, Sleeps, TypeOK
    <2>3. Cardinality(Idle') = Cardinality(Idle) - 1
        BY <2>2, Counted, FS_RemoveElement
    <2>4. Len(readyKeys') = Len(readyKeys) - 1 /\ Len(readyKeys) \in Nat
        BY <2>1 DEF TypeOK
    <2>5. Cardinality(Idle) >= Len(readyKeys)
        BY <2>2 DEF NoLostWakeup, Sleeps, Idle
    <2>6. Cardinality(Idle') >= Len(readyKeys')
        BY <2>3, <2>4, <2>5, Counted
    <2>7. QED
        BY <2>6 DEF NoLostWakeup, Idle
<1>5. ASSUME NEW w \in Workers, Report(w) PROVE NoLostWakeup'
    BY <1>5, WakeupKept DEF Report, Sleeps, Idle, TypeOK
<1>6. ASSUME NEW w \in Workers, Complete(w) PROVE NoLostWakeup'
    <2> DEFINE ws == [worker EXCEPT ![w] = "idle"]
    <2>1. /\ worker[w] = "reported" /\ key[w] \in Keys
        BY <1>6 DEF Complete, SlotInv, BusyHolds, Busy, Holds, TypeOK
    <2>2. /\ ws \in [Workers -> States]
          /\ \A v \in Workers : worker[v] \in {"idle", "waiting"} => ws[v] = worker[v]
          /\ \A v \in Workers : ws[v] = "waiting" => worker[v] = "waiting"
        BY <2>1 DEF TypeOK
    <2>3. CASE LastOf(key[w])
        <3>1. worker' = ws /\ readyKeys' = readyKeys
            BY <1>6, <2>3 DEF Complete
        <3> HIDE DEF ws
        <3>2. QED
            BY <2>2, <3>1, WakeupKept DEF Sleeps, Idle
    <2>4. CASE ~LastOf(key[w])
        <3>1. MakeReady(key[w], ws)
            BY <1>6, <2>4 DEF Complete
        <3> HIDE DEF ws
        <3>2. PICK k \in Keys : key[w] = k
            BY <2>1
        <3>3. QED
            BY <2>2, <3>1, <3>2, WakesOne
    <2>5. QED
        BY <2>3, <2>4
<1>7. CASE (\E c \in Cmds : SubmitRefused(c)) \/ UNCHANGED vars
    BY <1>7, WakeupKept DEF SubmitRefused, vars, Sleeps, Idle
<1>8. QED
    BY <1>1, <1>2, <1>3, <1>4, <1>5, <1>6, <1>7 DEF Next

\* No wake-up is lost: while a worker sleeps, at least as many others are about
\* to look for a key as keys are ready, for every number of sessions and of
\* workers (executor.go's Submit, complete, next and Close).
THEOREM WakesEnough == Spec => []NoLostWakeup
<1>1. Init => NoLostWakeup
    BY DEF Init, NoLostWakeup
<1>2. SlotInv /\ NoLostWakeup /\ [Next]_vars => NoLostWakeup'
    BY WakeupStep DEF SlotInv
<1>3. QED
    BY <1>1, <1>2, SlotInvariant, PTL DEF Spec

=============================================================================
