-------------------------- MODULE ApprovalsProofs ---------------------------
(***************************************************************************)
(* Theorems about approvals, for every number of requests, operators and   *)
(* faults.                                                                 *)
(*                                                                         *)
(* That the approvals implement Verdict rests on one fact besides the      *)
(* types: a command on its way carries the verdict of its row (Carried).   *)
(*                                                                         *)
(* AtMostOnePending rests on the order of the queue.  A redelivered event  *)
(* finds the rows of all earlier ones (Inserted, Current, Closed), so that *)
(* two handlers about to insert new rows serve the same request; and what  *)
(* one of them has superseded stays superseded until it inserts (Cleared). *)
(***************************************************************************)
EXTENDS Approvals, TLAPS

Carried == \A c \in commands : row[c.request] = c.decision

Deciding == \A o \in Operators : operator[o].at = "decide" => operator[o].request \in Requests

Inserted == \A i \in 1..done : row[log[i]] # "none"

Current ==
    serving["current"] # Idle =>
        /\ serving["current"].at \in {"supersede", "insert"}
        /\ done < Len(log) /\ serving["current"].request = log[done + 1]

Base == TypeOK /\ Deciding /\ Current

\* The event that a closed socket's handler still works on.
At(j) ==
    /\ serving["closed"].request = log[j]
    /\ \A i \in 1..(j - 1) : row[log[i]] # "none"

Closed ==
    serving["closed"] # Idle =>
        /\ serving["closed"].at \in {"supersede", "insert"}
        /\ serving["closed"].request \in Requests
        /\ \/ row[serving["closed"].request] # "none"
           \/ \E j \in (done + 1)..Len(log) : At(j)

Inserting(s) == serving[s].at = "insert" /\ row[serving[s].request] = "none"

Cleared == \A s \in Sockets : Inserting(s) => \A a \in Requests : ~Undecided(a)

PendingInv == Inserted /\ Closed /\ Cleared /\ AtMostOnePending

-----------------------------------------------------------------------------
\* The initial state has the types of the variables.
LEMMA TypeInit == Init => TypeOK
<1> SUFFICES ASSUME Init PROVE TypeOK
    OBVIOUS
<1>1. /\ hook \in [Requests -> {"none", "waiting", "allow", "deny", "dialog"}]
      /\ handler \in [Requests -> {"none", "check", "update", "send", "done"}]
      /\ meta \in Requests \cup {None} /\ recent \in BOOLEAN
      /\ row \in [Requests -> {"none", "pending", "overdue", "allow", "deny", "timedout"}]
    BY DEF Init
<1>2. log \in Seq(Requests) /\ done \in 0..Len(log) /\ faults \in Nat
    BY DEF Init
<1>3. serving \in [Sockets -> [at : {"idle", "supersede", "insert"},
                               request : Requests \cup {None}]]
    BY DEF Init, Idle
<1>4. operator \in [Operators -> [at : {"idle", "decide", "done"},
                                  request : Requests \cup {None},
                                  decision : Decisions]]
    BY DEF Init, NoOperator, Decisions
<1>5. commands \in SUBSET [request : Requests, decision : Decisions]
    BY DEF Init
<1>6. QED
    BY <1>1, <1>2, <1>3, <1>4, <1>5 DEF TypeOK

\* Every step keeps them, if the event being served is one of the log and the
\* approval being decided is one.
LEMMA TypeStep == Base /\ [Next]_vars => TypeOK'
<1> SUFFICES ASSUME TypeOK, Deciding, Current, [Next]_vars PROVE TypeOK'
    BY DEF Base
<1> USE ApprovalsAssumption DEF TypeOK
<1>1. ASSUME NEW a \in Requests, Hook(a) PROVE TypeOK'
    BY <1>1 DEF Hook, plane, link
<1>2. ASSUME NEW a \in Requests, Check(a) PROVE TypeOK'
    BY <1>2 DEF Check, plane, link
<1>3. ASSUME NEW a \in Requests, UpdateSession(a) PROVE TypeOK'
    BY <1>3 DEF UpdateSession, plane, link
<1>4. ASSUME NEW a \in Requests, SendRequest(a) PROVE TypeOK'
    <2>1. log' \in Seq(Requests) /\ Len(log') = Len(log) + 1 /\ done' = done
        BY <1>4 DEF SendRequest
    <2>2. QED
        BY <1>4, <2>1 DEF SendRequest, plane
<1>5. ASSUME NEW a \in Requests, HookTimesOut(a) PROVE TypeOK'
    BY <1>5 DEF HookTimesOut, plane, link
<1>6. ASSUME NEW a \in Requests, Expire(a) PROVE TypeOK'
    BY <1>6 DEF Expire, agentd, link
<1>7. CASE OtherHook
    BY <1>7 DEF OtherHook, plane, link
<1>8. CASE DecisionAges
    BY <1>8 DEF DecisionAges, plane, link
<1>9. CASE Take
    <2>1. log[done + 1] \in Requests
        BY <1>9 DEF Take
    <2>2. QED
        BY <1>9, <2>1 DEF Take, agentd, plane, Sockets
<1>10. CASE Forget
    <2>1. log' \in Seq(Requests) /\ Len(log') = Len(log) - 1 /\ done' = done - 1 /\ done > 0
        BY <1>10 DEF Forget
    <2>2. QED
        BY <1>10, <2>1 DEF Forget, agentd, plane
<1>11. ASSUME NEW s \in Sockets, Supersede(s) PROVE TypeOK'
    BY <1>11 DEF Supersede, OthersTimedOut, agentd
<1>12. ASSUME NEW s \in Sockets, Insert(s) PROVE TypeOK'
    <2>1. serving' \in [Sockets -> [at : {"idle", "supersede", "insert"},
                                    request : Requests \cup {None}]]
        BY <1>12 DEF Insert, Idle
    <2>2. row' \in [Requests -> {"none", "pending", "overdue", "allow", "deny", "timedout"}]
        BY <1>12 DEF Insert
    <2>3. log' = log /\ done' \in 0..Len(log)
        BY <1>12 DEF Insert, Counts, Current, Idle
    <2>4. QED
        BY <1>12, <2>1, <2>2, <2>3 DEF Insert, agentd
<1>13. CASE Sweep
    BY <1>13 DEF Sweep, agentd, link
<1>14. ASSUME NEW o \in Operators, NEW a \in Requests, NEW decision \in Decisions,
              CheckApproval(o, a, decision)
       PROVE TypeOK'
    BY <1>14 DEF CheckApproval, agentd, link
<1>15. ASSUME NEW o \in Operators, DecideAndEnqueue(o) PROVE TypeOK'
    <2> DEFINE c == [request |-> operator[o].request, decision |-> operator[o].decision]
    <2>1. operator' \in [Operators -> [at : {"idle", "decide", "done"},
                                       request : Requests \cup {None},
                                       decision : Decisions]]
        BY <1>15 DEF DecideAndEnqueue, Answered, NoOperator, Decisions
    <2>2. c \in [request : Requests, decision : Decisions]
        BY <1>15 DEF DecideAndEnqueue, Deciding
    <2>3. /\ commands' \in {commands, commands \cup {c}}
          /\ row' \in {row, [row EXCEPT ![c.request] = c.decision]}
          /\ UNCHANGED <<hook, handler, meta, recent, log, done, serving, faults>>
        BY <1>15 DEF DecideAndEnqueue, agentd, link
    <2>4. row' \in [Requests -> {"none", "pending", "overdue", "allow", "deny", "timedout"}]
        BY <2>2, <2>3 DEF Decisions
    <2>5. commands' \in SUBSET [request : Requests, decision : Decisions]
        BY <2>2, <2>3
    <2>6. QED
        BY <2>1, <2>3, <2>4, <2>5
<1>16. ASSUME NEW c \in commands, Receive(c) PROVE TypeOK'
    BY <1>16 DEF Receive, plane, link, Delivered, Decisions
<1>17. ASSUME NEW c \in commands, Lose(c) PROVE TypeOK'
    BY <1>17 DEF Lose, agentd, plane, link
<1>18. CASE Drop
    BY <1>18 DEF Drop, Fault, agentd, plane, Idle, Sockets
<1>19. CASE ServerRestart
    BY <1>19 DEF ServerRestart, Fault, agentd, Idle, Answered, NoOperator, Decisions
<1>20. CASE AgentRestart
    <2>1. /\ hook' \in [Requests -> {"none", "waiting", "allow", "deny", "dialog"}]
          /\ handler' \in [Requests -> {"none", "check", "update", "send", "done"}]
        BY <1>20 DEF AgentRestart
    <2>2. meta' \in Requests \cup {None} /\ recent' \in BOOLEAN
        BY <1>20 DEF AgentRestart
    <2>3. faults' \in Nat
        BY <1>20 DEF AgentRestart, Fault
    <2>4. QED
        BY <1>20, <2>1, <2>2, <2>3 DEF AgentRestart, plane, link
<1>21. CASE UNCHANGED vars
    BY <1>21 DEF vars, agentd, plane, link
<1>22. QED
    BY <1>1, <1>2, <1>3, <1>4, <1>5, <1>6, <1>7, <1>8, <1>9, <1>10, <1>11, <1>12,
       <1>13, <1>14, <1>15, <1>16, <1>17, <1>18, <1>19, <1>20, <1>21
    DEF Next, HandlerStep, Serve

\* Only CheckApproval starts a decision, of an approval.
LEMMA DecidingStep == Base /\ [Next]_vars => Deciding'
<1> SUFFICES ASSUME TypeOK, Deciding, [Next]_vars PROVE Deciding'
    BY DEF Base
<1>1. CASE UNCHANGED operator
    BY <1>1 DEF Deciding
<1>2. ASSUME NEW o \in Operators, NEW a \in Requests, NEW decision \in Decisions,
             CheckApproval(o, a, decision)
      PROVE Deciding'
    BY <1>2 DEF CheckApproval, Deciding, TypeOK
<1>3. ASSUME NEW o \in Operators, DecideAndEnqueue(o) PROVE Deciding'
    BY <1>3 DEF DecideAndEnqueue, Deciding, TypeOK, Answered, NoOperator
<1>4. CASE ServerRestart
    BY <1>4 DEF ServerRestart, Deciding, Answered, NoOperator
<1>5. QED
    BY <1>1, <1>2, <1>3, <1>4
    DEF Next, HandlerStep, Serve, vars, Hook, Check, UpdateSession, SendRequest,
        HookTimesOut, Expire, OtherHook, DecisionAges, Take, Forget, Supersede, Insert,
        Sweep, Receive, Lose, Drop, AgentRestart, plane

\* What forgetting does to the log.
LEMMA Forgotten ==
    ASSUME TypeOK, Forget
    PROVE  /\ Len(log') = Len(log) - 1 /\ done' = done - 1 /\ serving' = serving
           /\ \A i \in 1..(Len(log) - 1) : log'[i] = log[i + 1]
<1>1. log' = Tail(log) /\ done' = done - 1 /\ serving' = serving /\ row' = row
    BY DEF Forget, plane
<1>2. log \in Seq(Requests) /\ log # <<>>
    BY DEF TypeOK, Forget
<1>3. QED
    BY <1>1, <1>2

\* The current socket serves the event after the ones it has counted.
LEMMA CurrentStep == Base /\ [Next]_vars => Current'
<1> SUFFICES ASSUME TypeOK, Current, [Next]_vars PROVE Current'
    BY DEF Base
<1>0. done \in Nat /\ Len(log) \in Nat /\ log \in Seq(Requests)
    BY DEF TypeOK
<1>1. CASE UNCHANGED link
    BY <1>1 DEF Current, link
<1>2. ASSUME NEW a \in Requests, SendRequest(a) PROVE Current'
    <2>1. /\ Len(log') = Len(log) + 1 /\ done' = done /\ serving' = serving
          /\ \A i \in 1..Len(log) : log'[i] = log[i]
        BY <1>0, <1>2 DEF SendRequest
    <2>2. QED
        BY <1>0, <2>1 DEF Current
<1>3. CASE Take
    BY <1>0, <1>3 DEF Take, Current, TypeOK, Sockets
<1>4. CASE Forget
    <2>1. /\ Len(log') = Len(log) - 1 /\ done' = done - 1 /\ serving' = serving
          /\ \A i \in 1..(Len(log) - 1) : log'[i] = log[i + 1]
        BY <1>4, Forgotten
    <2>2. QED
        BY <1>0, <1>4, <2>1 DEF Current, Forget
<1>5. ASSUME NEW s \in Sockets, Supersede(s) PROVE Current'
    BY <1>5 DEF Supersede, Current, TypeOK, Idle, Sockets
<1>6. ASSUME NEW s \in Sockets, Insert(s) PROVE Current'
    BY <1>6 DEF Insert, Current, TypeOK, Counts, Sockets
<1>7. CASE Drop \/ ServerRestart
    BY <1>7 DEF Drop, ServerRestart, Current, Sockets
<1>8. QED
    BY <1>1, <1>2, <1>3, <1>4, <1>5, <1>6, <1>7
    DEF Next, HandlerStep, Serve, vars, Hook, Check, UpdateSession,
        HookTimesOut, Expire, OtherHook, DecisionAges,
        Sweep, Receive, Lose, AgentRestart, CheckApproval, DecideAndEnqueue

\* The three hold throughout.
LEMMA BaseInvariant == Spec => []Base
<1>1. Init => Base
    BY TypeInit DEF Base, Init, Deciding, Current, NoOperator, Sockets
<1>2. Base /\ [Next]_vars => Base'
    BY TypeStep, DecidingStep, CurrentStep DEF Base
<1>3. QED
    BY <1>1, <1>2, PTL DEF Spec

\* Every variable keeps its type.
THEOREM TypeCorrect == Spec => []TypeOK
<1>1. Base => TypeOK
    BY DEF Base
<1>2. QED
    BY <1>1, BaseInvariant, PTL

-----------------------------------------------------------------------------
\* Only an insert opens a request or gives it a row.
LEMMA OnlyInsertOpens ==
    ASSUME Base, [Next]_vars, ~\E s \in Sockets : Insert(s), NEW a \in Requests
    PROVE  /\ Undecided(a)' => Undecided(a)
           /\ row'[a] = "none" <=> row[a] = "none"
<1> USE DEF Base, TypeOK, Undecided
<1>1. CASE UNCHANGED row
    BY <1>1
<1>2. ASSUME NEW s \in Sockets, Supersede(s)
      PROVE (Undecided(a)' => Undecided(a)) /\ (row'[a] = "none" <=> row[a] = "none")
    BY <1>2 DEF Supersede, OthersTimedOut
<1>3. ASSUME NEW b \in Requests, Expire(b)
      PROVE (Undecided(a)' => Undecided(a)) /\ (row'[a] = "none" <=> row[a] = "none")
    BY <1>3 DEF Expire
<1>4. CASE Sweep
    BY <1>4 DEF Sweep, Overdue
<1>5. ASSUME NEW o \in Operators, DecideAndEnqueue(o)
      PROVE (Undecided(a)' => Undecided(a)) /\ (row'[a] = "none" <=> row[a] = "none")
    <2> DEFINE b == operator[o].request
               v == operator[o].decision
    <2>1. v \in {"allow", "deny"}
        BY DEF Decisions
    <2>2. row' = row \/ (Undecided(b) /\ row' = [row EXCEPT ![b] = v])
        BY <1>5 DEF DecideAndEnqueue, Decidable
    <2>3. QED
        BY <2>1, <2>2
<1>6. QED
    BY <1>1, <1>2, <1>3, <1>4, <1>5
    DEF Next, HandlerStep, Serve, vars, plane, Hook, Check, UpdateSession, SendRequest,
        HookTimesOut, OtherHook, DecisionAges, Take, Forget, Receive, Lose, Drop,
        CheckApproval, ServerRestart, AgentRestart

\* What an insert does: the request has a row from then on.
LEMMA InsertGivesRow ==
    ASSUME Base, NEW s \in Sockets, Insert(s)
    PROVE  LET a == serving[s].request IN
           /\ a \in Requests => row'[a] # "none"
           /\ \A b \in Requests : b # a => row'[b] = row[b]
           /\ row[a] # "none" => row' = row
BY DEF Base, TypeOK, Insert

\* A row is never removed.
LEMMA RowsStay ==
    ASSUME Base, [Next]_vars, NEW a \in Requests, row[a] # "none"
    PROVE  row'[a] # "none"
BY OnlyInsertOpens, InsertGivesRow

\* What has been counted has a row.
LEMMA InsertedStep == Base /\ Inserted /\ [Next]_vars => Inserted'
<1> SUFFICES ASSUME Base, Inserted, [Next]_vars PROVE Inserted'
    OBVIOUS
<1>0. /\ done \in Nat /\ Len(log) \in Nat /\ done <= Len(log) /\ log \in Seq(Requests)
      /\ \A i \in 1..Len(log) : log[i] \in Requests
    BY DEF Base, TypeOK
<1>1. CASE log' = log /\ done' \in 0..done
    BY <1>0, <1>1, RowsStay DEF Inserted
<1>2. ASSUME NEW a \in Requests, SendRequest(a) PROVE Inserted'
    <2>1. done' = done /\ \A i \in 1..Len(log) : log'[i] = log[i]
        BY <1>0, <1>2 DEF SendRequest
    <2>2. QED
        BY <1>0, <2>1, RowsStay DEF Inserted
<1>3. CASE Forget
    <2>1. TypeOK
        BY DEF Base
    <2>2. done' = done - 1 /\ \A i \in 1..(Len(log) - 1) : log'[i] = log[i + 1]
        BY <1>3, <2>1, Forgotten
    <2>3. QED
        BY <1>0, <2>2, RowsStay DEF Inserted
<1>4. ASSUME NEW s \in Sockets, Insert(s) PROVE Inserted'
    <2>1. log' = log
        BY <1>4 DEF Insert
    <2>2. CASE done' = done
        BY <1>0, <1>1, <2>1, <2>2
    <2>3. CASE s = "current" /\ done' = done + 1
        <3>1. done < Len(log) /\ serving["current"].request = log[done + 1]
            BY <1>4, <2>3 DEF Insert, Base, Current, Idle
        <3>2. row'[log[done + 1]] # "none"
            BY <1>0, <1>4, <2>3, <3>1, InsertGivesRow
        <3>3. QED
            BY <1>0, <2>1, <2>3, <3>2, RowsStay DEF Inserted
    <2>4. QED
        BY <1>4, <2>2, <2>3 DEF Insert, Counts
<1>5. CASE Drop \/ ServerRestart
    BY <1>0, <1>1, <1>5 DEF Drop, ServerRestart, Resumes
<1>6. QED
    BY <1>0, <1>1, <1>2, <1>3, <1>4, <1>5
    DEF Next, HandlerStep, Serve, vars, plane, link, Hook, Check, UpdateSession,
        HookTimesOut, Expire, OtherHook, DecisionAges, Take, Supersede, Sweep, Receive,
        Lose, CheckApproval, DecideAndEnqueue, AgentRestart

\* Arithmetic of positions in the log.
LEMMA Within ==
    ASSUME NEW k \in Nat, NEW d \in Nat, NEW n \in Nat, k <= d, d < n
    PROVE  d + 1 \in (k + 1)..n
OBVIOUS

\* What the closed socket's handler still works on comes after the rows that
\* exist, or has one.
LEMMA ClosedStep == Base /\ Inserted /\ Closed /\ [Next]_vars => Closed'
<1> SUFFICES ASSUME Base, Inserted, Closed, [Next]_vars, serving'["closed"] # Idle
             PROVE  /\ serving'["closed"].at \in {"supersede", "insert"}
                    /\ serving'["closed"].request \in Requests
                    /\ \/ row'[serving'["closed"].request] # "none"
                       \/ \E j \in (done' + 1)..Len(log') : At(j)'
    BY DEF Closed
<1> DEFINE a == serving["closed"].request
           Goal == /\ serving'["closed"].at \in {"supersede", "insert"}
                   /\ serving'["closed"].request \in Requests
                   /\ \/ row'[serving'["closed"].request] # "none"
                      \/ \E j \in (done' + 1)..Len(log') : At(j)'
<1>0. /\ done \in Nat /\ Len(log) \in Nat /\ done <= Len(log) /\ log \in Seq(Requests)
      /\ \A i \in 1..Len(log) : log[i] \in Requests
      /\ serving \in [Sockets -> [at : {"idle", "supersede", "insert"},
                                  request : Requests \cup {None}]]
    BY DEF Base, TypeOK
<1>1. CASE log' = log /\ done' = done /\ serving'["closed"].request = a
           /\ serving'["closed"].at \in {"supersede", "insert"} /\ serving["closed"] # Idle
    <2>1. CASE row[a] # "none"
        BY <1>1, <2>1, RowsStay DEF Closed
    <2>2. ASSUME NEW j \in (done + 1)..Len(log), At(j) PROVE At(j)'
        BY <1>0, <1>1, <2>2, RowsStay DEF At
    <2>3. QED
        BY <1>1, <2>1, <2>2 DEF Closed
<1>2. ASSUME NEW b \in Requests, SendRequest(b) PROVE Goal
    <2>1. /\ Len(log') = Len(log) + 1 /\ done' = done /\ serving' = serving
          /\ \A i \in 1..Len(log) : log'[i] = log[i]
        BY <1>0, <1>2 DEF SendRequest
    <2>2. CASE row[a] # "none"
        BY <2>1, <2>2, RowsStay DEF Closed
    <2>3. ASSUME NEW j \in (done + 1)..Len(log), At(j) PROVE At(j)' /\ j \in (done' + 1)..Len(log')
        BY <1>0, <2>1, <2>3, RowsStay DEF At
    <2>4. QED
        BY <2>1, <2>2, <2>3 DEF Closed
<1>3. CASE Forget
    <2>1. TypeOK
        BY DEF Base
    <2>2. /\ Len(log') = Len(log) - 1 /\ done' = done - 1 /\ serving' = serving /\ done > 0
          /\ \A i \in 1..(Len(log) - 1) : log'[i] = log[i + 1]
        BY <1>3, <2>1, Forgotten DEF Forget
    <2>3. CASE row[a] # "none"
        BY <2>2, <2>3, RowsStay DEF Closed
    <2>4. ASSUME NEW j \in (done + 1)..Len(log), At(j)
          PROVE  At(j - 1)' /\ j - 1 \in (done' + 1)..Len(log')
        BY <1>0, <2>2, <2>4, RowsStay DEF At
    <2>5. QED
        BY <2>2, <2>3, <2>4 DEF Closed
<1>4. CASE Take
    <2>1. log' = log /\ done' = done /\ serving'["closed"] = serving["closed"]
        BY <1>0, <1>4 DEF Take, Sockets
    <2>2. QED
        BY <1>1, <2>1 DEF Closed
<1>5. ASSUME NEW s \in Sockets, Supersede(s) PROVE Goal
    <2>1. /\ log' = log /\ done' = done /\ serving'["closed"].request = a
          /\ serving'["closed"].at \in {serving["closed"].at, "insert"}
        BY <1>0, <1>5 DEF Supersede, Sockets
    <2>2. serving["closed"] # Idle
        BY <1>0, <1>5 DEF Supersede, Sockets, Idle
    <2>3. QED
        BY <1>1, <2>1, <2>2 DEF Closed
<1>6. ASSUME NEW s \in Sockets, Insert(s) PROVE Goal
    <2>1. s = "current" /\ serving'["closed"] = serving["closed"] /\ log' = log /\ done' = done + 1
        BY <1>0, <1>6 DEF Insert, Sockets, Counts
    <2>2. done < Len(log) /\ serving["current"].request = log[done + 1]
        BY <1>6, <2>1 DEF Insert, Base, Current, Idle
    <2>3. CASE row[a] # "none"
        BY <2>1, <2>3, RowsStay DEF Closed
    <2>4. CASE a = log[done + 1]
        <3>1. row'[a] # "none"
            BY <1>0, <1>6, <2>1, <2>2, <2>4, InsertGivesRow
        <3>2. QED
            BY <2>1, <3>1 DEF Closed
    <2>5. ASSUME NEW j \in (done + 1)..Len(log), At(j), a # log[done + 1]
          PROVE  At(j)' /\ j \in (done' + 1)..Len(log')
        BY <1>0, <2>1, <2>5, RowsStay DEF At
    <2>6. QED
        BY <2>1, <2>3, <2>4, <2>5 DEF Closed
<1>7. CASE Drop
    <2>1. /\ serving'["closed"] = serving["current"] /\ log' = log /\ row' = row
          /\ done' \in 0..done
        BY <1>7 DEF Drop, Sockets, Resumes, plane
    <2>2. /\ serving["current"].at \in {"supersede", "insert"}
          /\ done < Len(log) /\ serving["current"].request = log[done + 1]
        BY <2>1 DEF Base, Current
    <2>3. \A i \in 1..done : row'[log'[i]] # "none"
        BY <2>1 DEF Inserted
    <2>4. done' \in Nat /\ done' <= done /\ Len(log') = Len(log) /\ done < Len(log)
        BY <1>0, <2>1, <2>2
    <2>5. done + 1 \in (done' + 1)..Len(log')
        BY <1>0, <2>4, Within
    <2>6. PICK j \in (done' + 1)..Len(log') : j = done + 1
        BY <2>5
    <2>7. At(j)'
        BY <1>0, <2>1, <2>2, <2>3, <2>6 DEF At
    <2>8. log[done + 1] \in Requests
        BY <1>0, <2>2
    <2>9. serving'["closed"].request \in Requests
        BY <2>1, <2>2, <2>8
    <2>10. QED
        BY <2>1, <2>2, <2>7, <2>9
<1>8. CASE ServerRestart
    BY <1>8 DEF ServerRestart, Sockets
<1>9. CASE UNCHANGED link
    BY <1>1, <1>9 DEF Closed, link
<1>10. QED
    BY <1>2, <1>3, <1>4, <1>5, <1>6, <1>7, <1>8, <1>9
    DEF Next, HandlerStep, Serve, vars, Hook, Check, UpdateSession,
        HookTimesOut, Expire, OtherHook, DecisionAges, Sweep, Receive,
        Lose, CheckApproval, DecideAndEnqueue, AgentRestart

\* Two handlers that are about to give a request its row serve the same one.
LEMMA SameRequest ==
    ASSUME Base, Inserted, Closed, Inserting("current"), Inserting("closed")
    PROVE  serving["current"].request = serving["closed"].request
<1>1. /\ done \in Nat /\ done < Len(log) /\ Len(log) \in Nat
      /\ serving["current"].request = log[done + 1]
    BY DEF Base, TypeOK, Current, Inserting, Idle
<1>2. PICK j \in (done + 1)..Len(log) : At(j)
    BY DEF Closed, Inserting, Idle
<1>3. row[log[done + 1]] = "none"
    BY <1>1 DEF Inserting
<1>4. j = done + 1
    BY <1>1, <1>2, <1>3 DEF At
<1>5. QED
    BY <1>1, <1>2, <1>4 DEF At

\* No request is open while a handler is about to open another.
LEMMA ClearedStep == Base /\ Inserted /\ Closed /\ Cleared /\ [Next]_vars => Cleared'
<1> SUFFICES ASSUME Base, Inserted, Closed, Cleared, [Next]_vars,
                    NEW s \in Sockets, Inserting(s)',
                    NEW b \in Requests
             PROVE  ~Undecided(b)'
    BY DEF Cleared
<1>0. /\ \A t \in Sockets : serving[t] \in [at : {"idle", "supersede", "insert"},
                                            request : Requests \cup {None}]
      /\ serving["closed"] # Idle => serving["closed"].request \in Requests
      /\ serving["current"] # Idle => serving["current"].request \in Requests
      /\ DOMAIN serving = Sockets /\ DOMAIN row = Requests
    BY DEF Base, TypeOK, Closed, Current
<1>1. CASE /\ ~\E t \in Sockets : Insert(t)
           /\ \E t \in Sockets : serving'[s] = serving[t]
    <2>1. PICK t \in Sockets : serving'[s] = serving[t]
        BY <1>1
    <2>2. serving[t].request \in Requests
        BY <1>0, <2>1 DEF Inserting, Sockets, Idle
    <2>3. Inserting(t)
        BY <1>1, <2>1, <2>2, OnlyInsertOpens DEF Inserting
    <2>4. QED
        BY <1>1, <2>3, OnlyInsertOpens DEF Cleared
<1>2. ASSUME NEW t \in Sockets, Supersede(t) PROVE ~Undecided(b)'
    <2>1. ~\E u \in Sockets : Insert(u)
        BY <1>0, <1>2 DEF Supersede, Insert, Sockets, OthersTimedOut
    <2>2. CASE s # t
        BY <1>0, <1>1, <1>2, <2>1, <2>2 DEF Supersede
    <2>3. CASE s = t
        <3>1. serving'[s].request = serving[s].request
            BY <1>0, <1>2, <2>3 DEF Supersede
        <3>2. QED
            BY <1>0, <1>2, <2>3, <3>1 DEF Supersede, OthersTimedOut, Inserting, Undecided
    <2>4. QED
        BY <2>2, <2>3
<1>3. ASSUME NEW t \in Sockets, Insert(t) PROVE ~Undecided(b)'
    <2>1. s # t /\ serving'[s] = serving[s]
        BY <1>0, <1>3 DEF Insert, Inserting, Idle
    <2>2. /\ serving[s].request \in Requests /\ serving[t].request \in Requests
          /\ serving[t].at = "insert" /\ serving[s].at = "insert"
        BY <1>0, <1>3, <2>1 DEF Insert, Inserting, Sockets, Idle
    <2>3. row[serving[s].request] = "none"
        BY <2>1, <2>2, RowsStay DEF Inserting
    <2>4. row'[serving[t].request] # "none"
        BY <1>3, <2>2, InsertGivesRow
    <2>5. row[serving[t].request] # "none"
        BY <2>1, <2>2, <2>3, <2>4, SameRequest DEF Inserting, Sockets
    <2>6. row' = row
        BY <1>3, <2>5, InsertGivesRow
    <2>7. QED
        BY <2>1, <2>2, <2>3, <2>6 DEF Cleared, Inserting, Undecided
<1>4. CASE Take
    <2>1. ~\E u \in Sockets : Insert(u)
        BY <1>0, <1>4 DEF Take, Insert, Sockets, Idle
    <2>2. s = "closed"
        BY <1>0, <1>4 DEF Take, Sockets, Inserting
    <2>3. QED
        BY <1>0, <1>1, <1>4, <2>1, <2>2 DEF Take, Sockets
<1>5. CASE Drop \/ ServerRestart
    <2>1. s = "closed" /\ serving'[s] = serving["current"] /\ row' = row
        BY <1>5 DEF Drop, ServerRestart, Sockets, Inserting, Idle, plane
    <2>2. QED
        BY <2>1 DEF Inserting, Cleared, Sockets, Undecided
<1>6. CASE UNCHANGED serving
    BY <1>1, <1>3, <1>6
<1>7. QED
    BY <1>2, <1>3, <1>4, <1>5, <1>6
    DEF Next, HandlerStep, Serve, vars, link, Hook, Check, UpdateSession, SendRequest,
        HookTimesOut, Expire, OtherHook, DecisionAges, Forget, Sweep, Receive,
        Lose, CheckApproval, DecideAndEnqueue, AgentRestart

\* The conjuncts of the invariant together.
LEMMA PendingInvariant == Spec => [](Base /\ PendingInv)
<1>1. Init => Base
    BY TypeInit DEF Base, Init, Deciding, Current, NoOperator, Sockets
<1>2. Init => PendingInv
    BY DEF Init, PendingInv, Inserted, Closed, Cleared, Inserting, AtMostOnePending,
           Undecided, Sockets, Idle
<1>3. Base /\ [Next]_vars => Base'
    BY TypeStep, DecidingStep, CurrentStep DEF Base
<1>4. ASSUME Base, PendingInv, [Next]_vars PROVE AtMostOnePending'
    <2>1. CASE ~\E s \in Sockets : Insert(s)
        BY <1>4, <2>1, OnlyInsertOpens DEF PendingInv, AtMostOnePending
    <2>2. ASSUME NEW s \in Sockets, Insert(s) PROVE AtMostOnePending'
        <3>1. CASE row[serving[s].request] # "none"
            BY <1>4, <2>2, <3>1, InsertGivesRow DEF PendingInv, AtMostOnePending, Undecided
        <3>2. CASE row[serving[s].request] = "none"
            BY <1>4, <2>2, <3>2, InsertGivesRow
            DEF PendingInv, AtMostOnePending, Cleared, Inserting, Insert, Undecided
        <3>3. QED
            BY <3>1, <3>2
    <2>3. QED
        BY <2>1, <2>2
<1>5. Base /\ PendingInv /\ [Next]_vars => PendingInv'
    BY <1>4, InsertedStep, ClosedStep, ClearedStep DEF PendingInv
<1>6. QED
    BY <1>1, <1>2, <1>3, <1>5, PTL DEF Spec

\* A session has at most one approval to decide, however often requests are
\* redelivered and the handlers of two sockets overlap.
THEOREM OneToDecide == Spec => []AtMostOnePending
<1>1. PendingInv => AtMostOnePending
    BY DEF PendingInv
<1>2. QED
    BY <1>1, PendingInvariant, PTL

-----------------------------------------------------------------------------
\* A verdict stands: only an open request is given one.
LEMMA VerdictsStay ==
    ASSUME Base, [Next]_vars, NEW a \in Requests, VerdictOf(a) # "open"
    PROVE  row'[a] = row[a]
<1> USE DEF Base, TypeOK, Undecided, VerdictOf
<1>1. CASE UNCHANGED row
    BY <1>1
<1>2. ASSUME NEW s \in Sockets, Supersede(s) PROVE row'[a] = row[a]
    BY <1>2 DEF Supersede, OthersTimedOut
<1>3. ASSUME NEW s \in Sockets, Insert(s) PROVE row'[a] = row[a]
    BY <1>3 DEF Insert
<1>4. ASSUME NEW b \in Requests, Expire(b) PROVE row'[a] = row[a]
    BY <1>4 DEF Expire
<1>5. CASE Sweep
    BY <1>5 DEF Sweep, Overdue
<1>6. ASSUME NEW o \in Operators, DecideAndEnqueue(o) PROVE row'[a] = row[a]
    BY <1>6 DEF DecideAndEnqueue, Decidable
<1>7. QED
    BY <1>1, <1>2, <1>3, <1>4, <1>5, <1>6
    DEF Next, HandlerStep, Serve, vars, plane, Hook, Check, UpdateSession, SendRequest,
        HookTimesOut, OtherHook, DecisionAges, Take, Forget, Receive, Lose, Drop,
        CheckApproval, ServerRestart, AgentRestart

\* A command carries the verdict of its request.
LEMMA CarriedStep == Base /\ Carried /\ [Next]_vars => Carried'
<1> SUFFICES ASSUME Base, Carried, [Next]_vars, NEW c \in commands' PROVE row'[c.request] = c.decision
    BY DEF Carried
<1>1. CASE c \in commands
    <2>1. c.request \in Requests /\ c.decision \in {"allow", "deny"}
        BY <1>1 DEF Base, TypeOK, Decisions
    <2>2. QED
        BY <1>1, <2>1, VerdictsStay DEF Carried, VerdictOf, Undecided
<1>2. ASSUME NEW o \in Operators, DecideAndEnqueue(o), c \notin commands
      PROVE row'[c.request] = c.decision
    <2>1. operator[o].request \in Requests
        BY <1>2 DEF DecideAndEnqueue, Base, Deciding
    <2>2. QED
        BY <1>2, <2>1 DEF DecideAndEnqueue, Base, TypeOK
<1>3. QED
    BY <1>1, <1>2
    DEF Next, HandlerStep, Serve, vars, plane, Hook, Check, UpdateSession, SendRequest,
        HookTimesOut, OtherHook, DecisionAges, Take, Forget, Receive, Lose, Drop, Expire,
        Supersede, Insert, Sweep, CheckApproval, ServerRestart, AgentRestart

\* The invariant of the refinement.
LEMMA CarriedInvariant == Spec => [](Base /\ Carried)
<1>1. Init => Base
    BY TypeInit DEF Base, Init, Deciding, Current, NoOperator, Sockets
<1>2. Init => Carried
    BY DEF Init, Carried
<1>3. Base /\ [Next]_vars => Base'
    BY TypeStep, DecidingStep, CurrentStep DEF Base
<1>4. QED
    BY <1>1, <1>2, <1>3, CarriedStep, PTL DEF Spec

\* The rows as Verdict sees them, after a step that decides none.
LEMMA SameVerdicts ==
    ASSUME Base, \A a \in Requests : VerdictOf(a)' = VerdictOf(a)
    PROVE  [a \in Requests |-> VerdictOf(a)]' = [a \in Requests |-> VerdictOf(a)]
OBVIOUS

\* Every step is a step of Verdict, or leaves what it sees unchanged.
LEMMA VerdictStep == Base /\ Base' /\ Carried /\ [Next]_vars => [V!Next]_V!vars
<1> SUFFICES ASSUME Base, Base', Carried, [Next]_vars PROVE [V!Next]_V!vars
    OBVIOUS
<1> DEFINE verdict == [a \in Requests |-> VerdictOf(a)]
<1>0. /\ hook \in [Requests -> {"none", "waiting", "allow", "deny", "dialog"}]
      /\ row \in [Requests -> {"none", "pending", "overdue", "allow", "deny", "timedout"}]
      /\ row' \in [Requests -> {"none", "pending", "overdue", "allow", "deny", "timedout"}]
    BY DEF Base, TypeOK
<1>1. CASE UNCHANGED <<row, hook>>
    <2>1. verdict' = verdict
        BY <1>1, SameVerdicts DEF VerdictOf, Undecided
    <2>2. QED
        BY <1>1, <2>1 DEF V!vars
<1>2. ASSUME NEW a \in Requests, Hook(a) PROVE V!Next
    <2>1. verdict' = verdict
        BY <1>2, SameVerdicts DEF Hook, plane, VerdictOf, Undecided
    <2>2. V!Ask(a)
        BY <1>2, <2>1 DEF Hook, V!Ask
    <2>3. QED
        BY <2>2 DEF V!Next
<1>3. ASSUME NEW a \in Requests, HookTimesOut(a) PROVE V!Next
    <2>1. verdict' = verdict
        BY <1>3, SameVerdicts DEF HookTimesOut, plane, VerdictOf, Undecided
    <2>2. hook' = [b \in Requests |-> IF b \in {a} THEN "dialog" ELSE hook[b]]
        BY <1>0, <1>3 DEF HookTimesOut
    <2>3. V!GiveUp({a})
        BY <1>3, <2>1, <2>2 DEF HookTimesOut, V!GiveUp
    <2>4. QED
        BY <2>3 DEF V!Next
<1>4. ASSUME NEW c \in commands, Receive(c) PROVE [V!Next]_V!vars
    <2>1. verdict' = verdict
        BY <1>4, SameVerdicts DEF Receive, plane, VerdictOf, Undecided
    <2>2. c.request \in Requests /\ c.decision \in {"allow", "deny"}
        BY DEF Base, TypeOK, Decisions
    <2>3. verdict[c.request] = c.decision
        BY <2>2 DEF Carried, VerdictOf, Undecided
    <2>4. CASE hook[c.request] = "waiting"
        <3>1. V!Answer(c.request)
            BY <1>0, <1>4, <2>1, <2>2, <2>3, <2>4 DEF Receive, Delivered, V!Answer
        <3>2. QED
            BY <2>2, <3>1 DEF V!Next
    <2>5. CASE hook[c.request] # "waiting"
        <3>1. hook' = hook
            BY <1>0, <1>4, <2>2, <2>5 DEF Receive, Delivered
        <3>2. QED
            BY <2>1, <3>1 DEF V!vars
    <2>6. QED
        BY <2>4, <2>5
<1>5. ASSUME NEW S \in SUBSET Requests,
             \A a \in S : Undecided(a),
             row' = [a \in Requests |-> IF a \in S THEN "timedout" ELSE row[a]],
             hook' = hook
      PROVE  V!Next
    <2>1. \A a \in S : verdict[a] = "open"
        BY <1>5 DEF VerdictOf
    <2>2. \A a \in Requests : VerdictOf(a)' = IF a \in S THEN "timedout" ELSE VerdictOf(a)
        BY <1>5 DEF VerdictOf, Undecided
    <2>3. verdict' = [a \in Requests |-> IF a \in S THEN "timedout" ELSE verdict[a]]
        BY <2>2
    <2>4. V!Lapse(S)
        BY <1>5, <2>1, <2>3 DEF V!Lapse
    <2>5. QED
        BY <2>4 DEF V!Next
<1>6. ASSUME NEW s \in Sockets, Supersede(s) PROVE V!Next
    <2> DEFINE S == {b \in Requests : b # serving[s].request /\ Undecided(b)}
    <2>1. row' = [a \in Requests |-> IF a \in S THEN "timedout" ELSE row[a]]
        BY <1>6 DEF Supersede, OthersTimedOut
    <2>2. hook' = hook
        BY <1>6 DEF Supersede, agentd
    <2>3. \A a \in S : Undecided(a)
        OBVIOUS
    <2>4. QED
        BY <1>5, <2>1, <2>2, <2>3
<1>7. CASE Sweep
    <2> DEFINE S == {a \in Requests : row[a] = "overdue"}
    <2>1. row' = [a \in Requests |-> IF a \in S THEN "timedout" ELSE row[a]]
        BY <1>7 DEF Sweep, Overdue
    <2>2. hook' = hook
        BY <1>7 DEF Sweep, agentd
    <2>3. \A a \in S : Undecided(a)
        BY DEF Undecided
    <2>4. QED
        BY <1>5, <2>1, <2>2, <2>3
<1>8. ASSUME NEW s \in Sockets, Insert(s) PROVE [V!Next]_V!vars
    <2>1. hook' = hook
        BY <1>8 DEF Insert, agentd
    <2>2. verdict' = verdict
        BY <1>0, <1>8, SameVerdicts DEF Insert, VerdictOf, Undecided
    <2>3. QED
        BY <2>1, <2>2 DEF V!vars
<1>9. ASSUME NEW a \in Requests, Expire(a) PROVE [V!Next]_V!vars
    <2>1. hook' = hook
        BY <1>9 DEF Expire, agentd
    <2>2. verdict' = verdict
        BY <1>0, <1>9, SameVerdicts DEF Expire, VerdictOf, Undecided
    <2>3. QED
        BY <2>1, <2>2 DEF V!vars
<1>10. ASSUME NEW o \in Operators, DecideAndEnqueue(o) PROVE [V!Next]_V!vars
    <2> DEFINE a == operator[o].request
               v == operator[o].decision
    <2>1. a \in Requests /\ v \in {"allow", "deny"} /\ hook' = hook
        BY <1>10 DEF DecideAndEnqueue, agentd, Base, TypeOK, Deciding, Decisions
    <2>2. CASE row' = row
        BY <1>1, <2>1, <2>2
    <2>3. CASE Undecided(a) /\ row' = [row EXCEPT ![a] = v]
        <3>1. \A b \in Requests : VerdictOf(b)' = IF b = a THEN v ELSE VerdictOf(b)
            BY <1>0, <2>1, <2>3 DEF VerdictOf, Undecided
        <3>2. verdict' = [verdict EXCEPT ![a] = v]
            BY <2>1, <3>1
        <3>3. V!Decide(a, v)
            BY <2>1, <2>3, <3>2 DEF V!Decide, VerdictOf
        <3>4. QED
            BY <2>1, <3>3 DEF V!Next
    <2>4. QED
        BY <1>10, <2>2, <2>3 DEF DecideAndEnqueue, Decidable
<1>11. CASE AgentRestart
    <2> DEFINE S == {a \in Requests : hook[a] = "waiting"}
    <2>1. verdict' = verdict
        BY <1>11, SameVerdicts DEF AgentRestart, plane, VerdictOf, Undecided
    <2>2. V!GiveUp(S)
        BY <1>11, <2>1 DEF AgentRestart, V!GiveUp
    <2>3. QED
        BY <2>2 DEF V!Next
<1>12. QED
    BY <1>1, <1>2, <1>3, <1>4, <1>6, <1>7, <1>8, <1>9, <1>10, <1>11
    DEF Next, HandlerStep, Serve, vars, agentd, plane, Check, UpdateSession, SendRequest,
        OtherHook, DecisionAges, Take, Forget, Lose, Drop, CheckApproval, ServerRestart

\* Approvals implement Verdict: one verdict for each request, given once, and no
\* answer to its hook but that verdict, for every number of requests, operators
\* and faults.
THEOREM VerdictRefinement == Spec => ImplementsVerdict
<1>1. Init => V!Init
    BY DEF Init, V!Init, VerdictOf
<1>2. QED
    BY <1>1, VerdictStep, CarriedInvariant, PTL DEF Spec, ImplementsVerdict, V!Spec
=============================================================================
