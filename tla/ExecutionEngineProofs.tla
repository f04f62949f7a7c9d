----------------------- MODULE ExecutionEngineProofs -----------------------
(***************************************************************************)
(* Safety of ExecutionEngine for every number of jobs, workers, go-live    *)
(* runs and reconciliations and every retry budget.                        *)
(***************************************************************************)
EXTENDS ExecutionEngine, FiniteSetTheorems, TLAPS

-----------------------------------------------------------------------------
(* Facts about the sets of states *)

LEMMA StateFacts ==
    /\ {"CREATED", "SENT", "PARTIALLY_FILLED"} \cup {"FILLED", "FAILED", "CANCELED"}
          = EngineStates
    /\ EngineStates \subseteq OrderStates
    /\ ExchangeStatuses \subseteq OrderStates
    /\ "NEW" \in ExchangeStatuses
    /\ "FILLED" \in ExchangeStatuses
    /\ "CANCELED" \in ExchangeStatuses
    /\ Reported \subseteq ExchangeStatuses
    /\ Absent \notin OrderStates
    /\ Absent \notin ExchangeStatuses
  BY ConstantsAssumption
     DEF EngineStates, OPEN_STATES, TERMINAL_STATES, OrderStates,
         ExchangeStatuses, Absent

LEMMA FinalStateType ==
    ASSUME NEW s \in ExchangeStatuses
    PROVE  FinalState(s) \in EngineStates
  BY StateFacts DEF FinalState, ExchangeStatuses

LEMMA IdleType == ASSUME NEW p \in Procs PROVE Idle(p) \in Session
  BY StateFacts DEF Idle, Session

\* Replacing the session of one process by another session keeps the type.
LEMMA SessUpdate ==
    ASSUME sess \in [Procs -> Session], NEW p \in Procs, NEW s \in Session,
           sess' = [sess EXCEPT ![p] = s]
    PROVE  sess' \in [Procs -> Session]
  OBVIOUS

LEMMA AutoKillSwitchType == \A r : AutoKillSwitch(r) \in BOOLEAN
  BY Zenon DEF AutoKillSwitch

LEMMA NoJobType == NoJob \in JobRow /\ NoOrder \in OrderRow
  BY StateFacts DEF NoJob, NoOrder, JobRow, OrderRow

-----------------------------------------------------------------------------
(* Type correctness *)

\* A process that is not idle works on a job that has a row.
BusyHasJob ==
    \A p \in Procs : pc[p] # "idle" =>
        /\ sess[p].job \in Jobs
        /\ jobRow[sess[p].job].state # Absent

\* External order ids, in rows and in sessions, name orders of the exchange.
ExtInRange ==
    /\ \A p \in Procs : sess[p].ex \in 0..Len(exch)
    /\ \A j \in Jobs, p \in Procs : orders[j][p].ext \in 0..Len(exch)

TypeInv == TypeOK /\ BusyHasJob /\ ExtInRange

LEMMA InitTypeInv == Init => TypeInv
  <1> SUFFICES ASSUME Init PROVE TypeInv
    OBVIOUS
  <1>1. phase \in [Jobs -> Phases] /\ pc \in [Procs -> Steps]
    BY DEF Init, Phases, Steps
  <1>2. jobRow \in [Jobs -> JobRow] /\ orders \in [Jobs -> [Procs -> OrderRow]]
    BY NoJobType DEF Init
  <1>3. sess \in [Procs -> Session]
    BY IdleType DEF Init
  <1>4. recon \in [Reconcilers -> Reconciliation]
    BY DEF Init, NotRunning, Reconciliation
  <1>5. /\ queue \in Seq(Payload) /\ exch \in Seq(ExOrder)
        /\ position \in [Users -> Nat] /\ crashes \in Nat /\ toggles \in Nat
    BY DEF Init
  <1>6. venueOpen \in BOOLEAN /\ killSwitch \in BOOLEAN /\ advised \subseteq Jobs
    BY Zenon DEF Init
  <1>7. TypeOK
    BY <1>1, <1>2, <1>3, <1>4, <1>5, <1>6 DEF TypeOK
  <1>8. BusyHasJob /\ ExtInRange
    BY DEF Init, BusyHasJob, ExtInRange, Idle, NoOrder
  <1> QED BY <1>7, <1>8 DEF TypeInv

\* The steps of submit_signal.
LEMMA SubmitType ==
    ASSUME TypeInv, NEW j \in Jobs, Submit(j)
    PROVE  TypeInv'
  <1> DEFINE Fail == [state |-> "FAILED", retry |-> 0]
             New  == [state |-> "CREATED", retry |-> 0]
  <1> USE DEF Submit, InsertJob, RejectAudit, RejectJob, PushPayload,
              CommitEnqueue, AbortSubmit, Operator, Sessions
  <1>1. New \in JobRow /\ Fail \in JobRow
    BY StateFacts DEF JobRow
  <1>2. [job |-> j, retried |-> FALSE] \in Payload
    BY DEF Payload
  <1>3. UNCHANGED <<orders, position, exch, pc, sess, recon, venueOpen, toggles>>
    OBVIOUS
  <1>4. phase' \in [Jobs -> Phases]
    BY DEF TypeInv, TypeOK, Phases
  <1>5. jobRow' = jobRow \/ jobRow' = [jobRow EXCEPT ![j] = New]
           \/ jobRow' = [jobRow EXCEPT ![j] = Fail]
    OBVIOUS
  <1>6. queue' = queue \/ \E x \in Payload : queue' = Append(queue, x)
    BY <1>2
  <1>7. advised' \subseteq Jobs /\ crashes' \in Nat
    BY DEF TypeInv, TypeOK
  <1>8. killSwitch' = killSwitch \/ killSwitch' = AutoKillSwitch(jobRow')
    OBVIOUS
  <1> USE DEF TypeInv, TypeOK
  <1>9. BusyHasJob'
    BY <1>3, <1>5 DEF BusyHasJob, Absent
  <1> HIDE DEF Submit, InsertJob, RejectAudit, RejectJob, PushPayload,
              CommitEnqueue, AbortSubmit, Operator, Sessions
  <1>10. jobRow' \in [Jobs -> JobRow]
    BY <1>1, <1>5
  <1>11. queue' \in Seq(Payload)
    <2>1. queue \in Seq(Payload)
      OBVIOUS
    <2> HIDE DEF TypeInv, TypeOK
    <2> QED BY <2>1, <1>6
  <1>12. killSwitch' \in BOOLEAN
    BY <1>8, AutoKillSwitchType, Zenon
  <1>13. ExtInRange'
    BY <1>3 DEF ExtInRange
  <1> QED BY <1>3, <1>4, <1>7, <1>9, <1>10, <1>11, <1>12, <1>13

\* The type of the variables, without what it is made of.
LEMMA TypeFacts ==
    ASSUME TypeInv
    PROVE  /\ \A j \in Jobs : jobRow[j].state \in EngineStates \cup {Absent}
                              /\ jobRow[j].retry \in Nat
           /\ \A j \in Jobs, p \in Procs : orders[j][p].state \in OrderStates \cup {Absent}
                                           /\ orders[j][p].ext \in Nat
           /\ \A p \in Procs : sess[p] \in Session
           /\ \A e \in 1..Len(exch) : exch[e] \in ExOrder
           /\ Len(exch) \in Nat
  <1>1. /\ jobRow \in [Jobs -> JobRow] /\ orders \in [Jobs -> [Procs -> OrderRow]]
        /\ sess \in [Procs -> Session] /\ exch \in Seq(ExOrder)
    BY DEF TypeInv, TypeOK
  <1> QED BY <1>1 DEF JobRow, OrderRow

\* Dropping the head of the queue, and moving it to the back.
LEMMA QueueTail ==
    ASSUME queue \in Seq(Payload), queue # <<>>
    PROVE  /\ Head(queue) \in Payload
           /\ Tail(queue) \in Seq(Payload)
           /\ Append(Tail(queue), Head(queue)) \in Seq(Payload)
  OBVIOUS

LEMMA BeginJobType ==
    ASSUME TypeInv, NEW p \in Procs, NEW j \in Jobs, BeginJob(p, j)
    PROVE  /\ sess' \in [Procs -> Session]
           /\ pc' = [pc EXCEPT ![p] = "sending"]
           /\ \A q \in Procs \ {p} : sess'[q] = sess[q]
           /\ sess'[p].job = j
           /\ sess'[p].ex = 0
           /\ jobRow[j].state # Absent
  <1>1. PICK q \in OrderColumns(p, j) :
         sess' = [sess EXCEPT ![p] =
                    [Idle(p) EXCEPT
                        !.job = j, !.col = q,
                        !.jstate = jobRow[j].state, !.jretry = jobRow[j].retry,
                        !.ostate = IF orders[j][q].state = Absent
                                   THEN "CREATED" ELSE orders[j][q].state]]
    BY DEF BeginJob
  <1>2. q \in Procs
    BY <1>1 DEF OrderColumns
  <1> DEFINE o == IF orders[j][q].state = Absent THEN "CREATED" ELSE orders[j][q].state
             s == [Idle(p) EXCEPT !.job = j, !.col = q,
                        !.jstate = jobRow[j].state, !.jretry = jobRow[j].retry,
                        !.ostate = o]
  <1>3. o \in OrderStates
    BY <1>2, TypeFacts, StateFacts
  <1>4. jobRow[j].state \in EngineStates /\ jobRow[j].state # Absent /\ jobRow[j].retry \in Nat
    BY TypeFacts DEF BeginJob, Runnable
  <1>5. s \in Session /\ s.job = j /\ s.ex = 0
    <2> HIDE DEF o
    <2> QED BY <1>2, <1>3, <1>4, StateFacts DEF Idle, Session
  <1>6. sess \in [Procs -> Session] /\ sess' = [sess EXCEPT ![p] = s]
    BY <1>1 DEF TypeInv, TypeOK
  <1>7. pc' = [pc EXCEPT ![p] = "sending"]
    BY DEF BeginJob
  <1> HIDE DEF s, o
  <1> QED BY <1>4, <1>5, <1>6, <1>7

\* Taking a payload, from the queue or directly.
LEMMA TakeType ==
    ASSUME TypeInv, NEW p \in Procs, Take(p)
    PROVE  TypeInv'
  <1> USE DEF Operator, Sessions
  <1>1. queue \in Seq(Payload) /\ pc \in [Procs -> Steps] /\ phase \in [Jobs -> Phases]
    BY DEF TypeInv, TypeOK
  <1>2. CASE Consume(p)
    <2>1. Head(queue).job \in Jobs /\ queue' \in Seq(Payload)
      BY <1>1, <1>2, QueueTail DEF Consume, Payload
    <2>2. BeginJob(p, Head(queue).job)
      BY <1>2 DEF Consume
    <2>3. UNCHANGED <<phase, jobRow, orders, position, exch, recon, venueOpen,
                      killSwitch, advised, toggles, crashes>>
      BY <1>2 DEF Consume
    <2>4. sess' \in [Procs -> Session] /\ pc' \in [Procs -> Steps]
      BY <2>1, <2>2, <1>1, BeginJobType DEF Steps
    <2>5. BusyHasJob'
      BY <2>1, <2>2, <2>3, <1>1, BeginJobType DEF BusyHasJob, TypeInv
    <2>6. ExtInRange'
      BY <2>1, <2>2, <2>3, BeginJobType, TypeFacts DEF ExtInRange, TypeInv
    <2> QED BY <2>1, <2>3, <2>4, <2>5, <2>6 DEF TypeInv, TypeOK
  <1>3. CASE ConsumeIgnored(p) \/ ConsumeDeferred(p) \/ ConsumeRefused(p)
    <2>1. queue' \in Seq(Payload)
      BY <1>1, <1>3, QueueTail DEF ConsumeIgnored, ConsumeDeferred, ConsumeRefused
    <2>2. UNCHANGED <<phase, jobRow, orders, position, exch, recon, pc, sess,
                      venueOpen, killSwitch, advised, toggles, crashes>>
      BY <1>3 DEF ConsumeIgnored, ConsumeDeferred, ConsumeRefused
    <2> QED BY <2>1, <2>2 DEF TypeInv, TypeOK, BusyHasJob, ExtInRange
  <1>4. CASE \E j \in Jobs : DirectExecute(p, j)
    <2>1. PICK j \in Jobs : DirectExecute(p, j)
      BY <1>4
    <2>2. BeginJob(p, j) /\ phase' = [phase EXCEPT ![j] = "taken"]
      BY <2>1 DEF DirectExecute
    <2>3. UNCHANGED <<queue, jobRow, orders, position, exch, recon, venueOpen,
                      killSwitch, advised, toggles, crashes>>
      BY <2>1 DEF DirectExecute
    <2>4. sess' \in [Procs -> Session] /\ pc' \in [Procs -> Steps]
      BY <2>2, <1>1, BeginJobType DEF Steps
    <2>5. BusyHasJob'
      BY <2>2, <2>3, <1>1, BeginJobType DEF BusyHasJob, TypeInv
    <2>6. ExtInRange'
      BY <2>2, <2>3, BeginJobType, TypeFacts DEF ExtInRange, TypeInv
    <2>7. phase' \in [Jobs -> Phases]
      BY <1>1, <2>2 DEF Phases
    <2> QED BY <2>3, <2>4, <2>5, <2>6, <2>7 DEF TypeInv, TypeOK
  <1> QED BY <1>2, <1>3, <1>4 DEF Take

\* A step that only gives p another session on the same job and lets the
\* exchange grow keeps the types.
LEMMA SessionStepType ==
    ASSUME TypeInv, NEW p \in Procs, NEW s \in Session, NEW step \in Steps \ {"idle"},
           sess' = [sess EXCEPT ![p] = s], pc' = [pc EXCEPT ![p] = step],
           pc[p] # "idle", s.job = sess[p].job,
           exch' \in Seq(ExOrder), Len(exch') >= Len(exch), s.ex \in 0..Len(exch'),
           UNCHANGED <<phase, jobRow, queue, orders, position, recon, venueOpen,
                       killSwitch, advised, toggles, crashes>>
    PROVE  TypeInv'
  <1>1. sess \in [Procs -> Session] /\ pc \in [Procs -> Steps] /\ Len(exch') \in Nat
    BY DEF TypeInv, TypeOK
  <1>2. sess' \in [Procs -> Session] /\ pc' \in [Procs -> Steps]
    BY <1>1
  <1>3. BusyHasJob'
    BY <1>1 DEF BusyHasJob, TypeInv
  <1>4. ExtInRange'
    BY <1>1, TypeFacts DEF ExtInRange, TypeInv
  <1> QED BY <1>2, <1>3, <1>4 DEF TypeInv, TypeOK

\* The session ToFailing leaves.
LEMMA FailingSession ==
    ASSUME TypeInv, NEW p \in Procs, NEW s \in Session, ToFailing(p, s)
    PROVE  \E t \in Session :
              /\ sess' = [sess EXCEPT ![p] = t] /\ pc' = [pc EXCEPT ![p] = "failing"]
              /\ t.job = s.job /\ t.ex = s.ex /\ t.col = s.col
              /\ t.jstate = s.jstate /\ t.jretry = s.jretry
  <1> DEFINE t == [s EXCEPT !.attempt = 0, !.status = "NEW", !.pos = 0]
  <1>1. /\ t \in Session /\ t.job = s.job /\ t.ex = s.ex /\ t.col = s.col
        /\ t.jstate = s.jstate /\ t.jretry = s.jretry
    BY StateFacts DEF Session
  <1>2. sess' = [sess EXCEPT ![p] = t] /\ pc' = [pc EXCEPT ![p] = "failing"]
    BY DEF ToFailing
  <1> HIDE DEF t
  <1> QED BY <1>1, <1>2

LEMMA AcceptType ==
    ASSUME exch \in Seq(ExOrder), NEW j \in Jobs, NEW s \in ExchangeStatuses, Accept(j, s)
    PROVE  /\ exch' \in Seq(ExOrder)
           /\ Len(exch') = Len(exch) + 1
           /\ Len(exch) \in Nat
           /\ exch'[Len(exch) + 1] = [job |-> j, status |-> s]
           /\ \A e \in 1..Len(exch) : exch'[e] = exch[e]
  <1> DEFINE x == [job |-> j, status |-> s]
  <1>1. x \in ExOrder
    BY DEF ExOrder
  <1>2. exch' = Append(exch, x)
    BY DEF Accept
  <1> HIDE DEF x
  <1>3. /\ exch' \in Seq(ExOrder)
        /\ Len(exch') = Len(exch) + 1
        /\ Len(exch) \in Nat
        /\ exch'[Len(exch) + 1] = x
        /\ \A e \in 1..Len(exch) : exch'[e] = exch[e]
    BY <1>1, <1>2
  <1> QED BY <1>3 DEF x

LEMMA NoReplyType ==
    ASSUME TypeInv, NEW p \in Procs, pc[p] = "sending", NoReply(p)
    PROVE  \E s \in Session, step \in {"sending", "failing"} :
              /\ sess' = [sess EXCEPT ![p] = s] /\ pc' = [pc EXCEPT ![p] = step]
              /\ s.job = sess[p].job /\ s.ex = sess[p].ex /\ s.col = sess[p].col
              /\ s.jstate = sess[p].jstate /\ s.jretry = sess[p].jretry
  <1>0. sess[p] \in Session /\ sess \in [Procs -> Session] /\ pc \in [Procs -> Steps]
    BY DEF TypeInv, TypeOK
  <1>1. CASE sess[p].attempt + 1 >= MaxAttempts
    <2>1. ToFailing(p, sess[p])
      BY <1>1 DEF NoReply
    <2> QED BY <1>0, <2>1, FailingSession
  <1>2. CASE ~(sess[p].attempt + 1 >= MaxAttempts)
    <2> DEFINE s == [sess[p] EXCEPT !.attempt = @ + 1]
    <2>1. /\ s \in Session /\ s.job = sess[p].job /\ s.ex = sess[p].ex
          /\ s.col = sess[p].col /\ s.jstate = sess[p].jstate /\ s.jretry = sess[p].jretry
      BY <1>0 DEF Session
    <2>2. sess' = [sess EXCEPT ![p] = s] /\ pc' = pc
      BY <1>0, <1>2 DEF NoReply
    <2>3. pc' = [pc EXCEPT ![p] = "sending"]
      BY <1>0, <2>2
    <2> HIDE DEF s
    <2> QED BY <2>1, <2>2, <2>3
  <1> QED BY <1>1, <1>2

\* The request to the exchange.
LEMMA RequestType ==
    ASSUME TypeInv, NEW p \in Procs, Request(p)
    PROVE  TypeInv'
  <1> USE DEF Operator
  <1>0. /\ sess[p] \in Session /\ exch \in Seq(ExOrder) /\ Len(exch) \in Nat
        /\ sess[p].ex \in 0..Len(exch)
    BY DEF TypeInv, TypeOK, ExtInRange
  <1>1. pc[p] = "sending" /\ sess[p].job \in Jobs
    BY DEF Request, BalanceCheckFails, RequestLost, ExchangeRejects,
           ExchangeAccepts, ReplyLost, TypeInv, BusyHasJob
  <1>2. CASE BalanceCheckFails(p) \/ ExchangeRejects(p)
    <2>1. /\ ToFailing(p, sess[p])
          /\ UNCHANGED <<phase, jobRow, queue, orders, position, exch, recon, venueOpen,
                         killSwitch, advised, toggles, crashes>>
      BY <1>2 DEF BalanceCheckFails, ExchangeRejects
    <2>2. PICK t \in Session :
             /\ sess' = [sess EXCEPT ![p] = t] /\ pc' = [pc EXCEPT ![p] = "failing"]
             /\ t.job = sess[p].job /\ t.ex = sess[p].ex
      BY <1>0, <2>1, FailingSession
    <2>3. exch' \in Seq(ExOrder) /\ Len(exch') >= Len(exch) /\ t.ex \in 0..Len(exch')
      BY <1>0, <2>1, <2>2
    <2>4. "failing" \in Steps \ {"idle"}
      BY DEF Steps
    <2> QED BY <1>1, <2>1, <2>2, <2>3, <2>4, SessionStepType
  <1>3. CASE RequestLost(p)
    <2>1. /\ NoReply(p)
          /\ UNCHANGED <<phase, jobRow, queue, orders, position, exch, recon, venueOpen,
                         killSwitch, advised, toggles, crashes>>
      BY <1>3 DEF RequestLost
    <2> QED BY <1>0, <1>1, <2>1, NoReplyType, SessionStepType DEF Steps
  <1>4. ASSUME NEW s \in Reported, ReplyLost(p, s) PROVE TypeInv'
    <2>1. /\ NoReply(p) /\ Accept(sess[p].job, s)
          /\ UNCHANGED <<phase, jobRow, queue, orders, position, recon, venueOpen,
                         killSwitch, advised, toggles, crashes>>
      BY <1>4 DEF ReplyLost
    <2>2. exch' \in Seq(ExOrder) /\ Len(exch') = Len(exch) + 1
      BY <1>0, <1>1, <2>1, AcceptType, StateFacts
    <2> QED BY <1>0, <1>1, <2>1, <2>2, NoReplyType, SessionStepType DEF Steps
  <1>5. ASSUME NEW s \in Reported, ExchangeAccepts(p, s) PROVE TypeInv'
    <2>1. PICK n \in Nat : n = Len(exch) + 1
      BY <1>0
    <2> DEFINE t == [sess[p] EXCEPT !.attempt = 0, !.status = s, !.ex = n]
    <2>2. sess' = [sess EXCEPT ![p] = t]
      BY <1>5, <2>1, Zenon DEF ExchangeAccepts
    <2>3. t \in Session /\ t.job = sess[p].job /\ t.ex = n
      BY <1>0, StateFacts DEF Session
    <2> HIDE DEF t
    <2>4. /\ Accept(sess[p].job, s)
          /\ pc' = [pc EXCEPT ![p] = "replied"]
          /\ UNCHANGED <<phase, jobRow, queue, orders, position, recon, venueOpen,
                         killSwitch, advised, toggles, crashes>>
      BY <1>5 DEF ExchangeAccepts
    <2>5. exch' \in Seq(ExOrder) /\ Len(exch') = Len(exch) + 1
      BY <1>0, <1>1, <2>4, AcceptType, StateFacts
    <2>6. t.ex \in 0..Len(exch') /\ Len(exch') >= Len(exch)
      BY <1>0, <2>1, <2>3, <2>5
    <2>7. "replied" \in Steps \ {"idle"}
      BY DEF Steps
    <2> QED BY <1>1, <2>2, <2>3, <2>4, <2>5, <2>6, <2>7, SessionStepType
  <1> QED BY <1>2, <1>3, <1>4, <1>5 DEF Request

\* A process that ends its session, with its work done or not.
LEMMA EndSessionType ==
    ASSUME TypeInv, NEW p \in Procs, EndSession(p),
           queue' \in Seq(Payload), killSwitch' \in BOOLEAN, crashes' \in Nat,
           UNCHANGED <<phase, jobRow, orders, position, exch, recon, venueOpen,
                       advised, toggles>>
    PROVE  TypeInv'
  <1>1. sess \in [Procs -> Session] /\ pc \in [Procs -> Steps] /\ Len(exch) \in Nat
    BY DEF TypeInv, TypeOK
  <1>2. /\ Idle(p) \in Session /\ Idle(p).ex = 0
        /\ sess' = [sess EXCEPT ![p] = Idle(p)] /\ pc' = [pc EXCEPT ![p] = "idle"]
    BY IdleType DEF EndSession, Idle
  <1>3. sess' \in [Procs -> Session] /\ pc' \in [Procs -> Steps]
    BY <1>1, <1>2 DEF Steps
  <1>4. BusyHasJob'
    BY <1>1, <1>2 DEF BusyHasJob, TypeInv
  <1>5. ExtInRange'
    BY <1>1, <1>2 DEF ExtInRange, TypeInv
  <1> QED BY <1>3, <1>4, <1>5 DEF TypeInv, TypeOK

\* A process that commits changes of rows and goes on with the same job.
LEMMA CommitStepType ==
    ASSUME TypeInv, NEW p \in Procs, NEW s \in Session, NEW step \in Steps \ {"idle"},
           sess' = [sess EXCEPT ![p] = s], pc' = [pc EXCEPT ![p] = step],
           pc[p] # "idle", s.job = sess[p].job, s.ex \in 0..Len(exch),
           jobRow' \in [Jobs -> JobRow],
           \A j \in Jobs : jobRow[j].state # Absent => jobRow'[j].state # Absent,
           orders' \in [Jobs -> [Procs -> OrderRow]],
           \A j \in Jobs, q \in Procs : orders'[j][q].ext \in 0..Len(exch),
           position' \in [Users -> Nat],
           UNCHANGED <<phase, queue, exch, recon, venueOpen, killSwitch, advised,
                       toggles, crashes>>
    PROVE  TypeInv'
  <1>1. sess \in [Procs -> Session] /\ pc \in [Procs -> Steps]
    BY DEF TypeInv, TypeOK
  <1>2. sess' \in [Procs -> Session] /\ pc' \in [Procs -> Steps]
    BY <1>1
  <1>3. BusyHasJob'
    BY <1>1 DEF BusyHasJob, TypeInv
  <1>4. ExtInRange'
    BY <1>1 DEF ExtInRange, TypeInv
  <1> QED BY <1>2, <1>3, <1>4 DEF TypeInv, TypeOK

LEMMA RefreshedType ==
    ASSUME TypeInv, NEW p \in Procs, pc[p] # "idle"
    PROVE  /\ Refreshed(p) \in Session
           /\ Refreshed(p).job = sess[p].job
           /\ Refreshed(p).ex = sess[p].ex
           /\ Refreshed(p).col = sess[p].col
           /\ Refreshed(p).status = sess[p].status
           /\ Refreshed(p).jstate = jobRow[sess[p].job].state
           /\ Refreshed(p).jretry = jobRow[sess[p].job].retry
  <1> DEFINE j == sess[p].job
             c == sess[p].col
             os == IF orders[j][c].state = Absent THEN "CREATED" ELSE orders[j][c].state
             js == jobRow[j].state
             jr == jobRow[j].retry
  <1>1. sess[p] \in Session
    BY TypeFacts
  <1>2. j \in Jobs /\ c \in Procs
    BY <1>1 DEF TypeInv, BusyHasJob, Session
  <1>3. js \in EngineStates /\ jr \in Nat /\ os \in OrderStates
    BY <1>2, TypeFacts, StateFacts DEF TypeInv, BusyHasJob
  <1>4. Refreshed(p) = [sess[p] EXCEPT !.jstate = js, !.jretry = jr, !.ostate = os]
    BY DEF Refreshed
  <1> HIDE DEF os, js, jr
  <1>5. /\ Refreshed(p) \in Session
        /\ Refreshed(p).job = sess[p].job
        /\ Refreshed(p).ex = sess[p].ex
        /\ Refreshed(p).col = sess[p].col
        /\ Refreshed(p).status = sess[p].status
        /\ Refreshed(p).jstate = js
        /\ Refreshed(p).jretry = jr
    BY <1>1, <1>3, <1>4 DEF Session
  <1> QED BY <1>5 DEF js, jr

LEMMA OrderWriteType ==
    ASSUME TypeInv, NEW j \in Jobs, NEW q \in Procs, NEW r \in OrderRow,
           r.ext \in 0..Len(exch), orders' = [orders EXCEPT ![j][q] = r]
    PROVE  /\ orders' \in [Jobs -> [Procs -> OrderRow]]
           /\ \A k \in Jobs, p \in Procs : orders'[k][p].ext \in 0..Len(exch)
           /\ orders'[j][q] = r
           /\ \A k \in Jobs, p \in Procs : k # j \/ p # q => orders'[k][p] = orders[k][p]
  <1>1. orders \in [Jobs -> [Procs -> OrderRow]]
    BY DEF TypeInv, TypeOK
  <1>2. \A k \in Jobs, p \in Procs : orders[k][p].ext \in 0..Len(exch)
    BY DEF TypeInv, ExtInRange
  <1>3. \A k \in Jobs, p \in Procs :
           orders'[k][p] = IF k = j /\ p = q THEN r ELSE orders[k][p]
    BY <1>1
  <1> QED BY <1>1, <1>2, <1>3

LEMMA JobWriteType ==
    ASSUME TypeInv, NEW j \in Jobs, NEW r \in JobRow, r.state # Absent,
           jobRow' = [jobRow EXCEPT ![j] = r]
    PROVE  /\ jobRow' \in [Jobs -> JobRow]
           /\ jobRow'[j] = r
           /\ \A k \in Jobs \ {j} : jobRow'[k] = jobRow[k]
           /\ \A k \in Jobs : jobRow[k].state # Absent => jobRow'[k].state # Absent
  BY DEF TypeInv, TypeOK

\* What CommitResult writes: o is the order row, r the job row, t the session.
CommitWrites(p, o, r, t) ==
    /\ orders' = [orders EXCEPT ![sess[p].job][sess[p].col] = o]
    /\ o.ext = sess[p].ex
    /\ o.state = FinalState(sess[p].status)
    /\ jobRow' = [jobRow EXCEPT ![sess[p].job] = r]
    /\ r.state = Written(jobRow[sess[p].job].state, sess[p].jstate,
                         FinalState(sess[p].status))
    /\ r.retry = jobRow[sess[p].job].retry
    /\ sess' = [sess EXCEPT ![p] = t]
    /\ t.job = sess[p].job /\ t.ex = 0 /\ t.col = sess[p].col
    /\ t.jstate = "CREATED" /\ t.jretry = sess[p].jretry

LEMMA CommitResultRows ==
    ASSUME TypeInv, NEW p \in Procs, CommitResult(p)
    PROVE  \E o \in OrderRow, r \in JobRow, t \in Session : CommitWrites(p, o, r, t)
  <1> DEFINE j == sess[p].job
             fin == FinalState(sess[p].status)
             w == Written(jobRow[j].state, sess[p].jstate, fin)
             o == [state |-> fin, ext |-> sess[p].ex]
             r == [jobRow[j] EXCEPT !.state = w]
             t == [sess[p] EXCEPT !.jstate = "CREATED", !.ex = 0, !.status = "NEW",
                                  !.pos = 0]
  <1>0. pc[p] = "applied" /\ sess[p] \in Session /\ jobRow \in [Jobs -> JobRow]
        /\ sess \in [Procs -> Session]
    BY DEF CommitResult, TypeInv, TypeOK
  <1>1. j \in Jobs /\ fin \in EngineStates /\ sess[p].ex \in Nat
    BY <1>0, FinalStateType DEF TypeInv, BusyHasJob, Session
  <1>2. w \in EngineStates /\ jobRow[j] \in JobRow
    BY <1>0, <1>1, TypeFacts DEF TypeInv, BusyHasJob, Written
  <1>3. orders' = [orders EXCEPT ![j][sess[p].col] = o]
    BY DEF CommitResult
  <1>4. jobRow' = [jobRow EXCEPT ![j] = r]
    BY <1>0, <1>1 DEF CommitResult
  <1>5. sess' = [sess EXCEPT ![p] = t]
    BY <1>0 DEF CommitResult
  <1>6. t \in Session /\ t.job = j /\ t.ex = 0 /\ t.col = sess[p].col
        /\ t.jstate = "CREATED" /\ t.jretry = sess[p].jretry
    BY <1>0, StateFacts DEF Session
  <1> HIDE DEF w, fin
  <1>7. o \in OrderRow /\ o.ext = sess[p].ex /\ o.state = fin
    BY <1>1, StateFacts DEF OrderRow
  <1>8. r \in JobRow /\ r.state = w /\ r.retry = jobRow[j].retry
    BY <1>2 DEF JobRow
  <1> HIDE DEF o, r, t
  <1> QED BY <1>3, <1>4, <1>5, <1>6, <1>7, <1>8 DEF CommitWrites, w, fin

\* What HandleFailure writes.
FailureWrites(p, o, r, t) ==
    /\ orders' = [orders EXCEPT ![sess[p].job][sess[p].col] = o]
    /\ o.ext = IF sess[p].ex # 0 THEN sess[p].ex
               ELSE orders[sess[p].job][sess[p].col].ext
    /\ o.state = IF orders[sess[p].job][sess[p].col].state = Absent THEN "CREATED"
                 ELSE orders[sess[p].job][sess[p].col].state
    /\ jobRow' = [jobRow EXCEPT ![sess[p].job] = r]
    /\ r.retry = sess[p].jretry + 1
    /\ r.state = IF sess[p].jretry + 1 >= MaxRetry
                 THEN Written(jobRow[sess[p].job].state, sess[p].jstate, "FAILED")
                 ELSE jobRow[sess[p].job].state
    /\ sess' = [sess EXCEPT ![p] = t]
    /\ t.job = sess[p].job /\ t.ex = 0 /\ t.col = sess[p].col
    /\ t.jstate = sess[p].jstate /\ t.jretry = sess[p].jretry

LEMMA HandleFailureRows ==
    ASSUME TypeInv, NEW p \in Procs, HandleFailure(p)
    PROVE  \E o \in OrderRow, r \in JobRow, t \in Session : FailureWrites(p, o, r, t)
  <1> DEFINE j == sess[p].job
             c == sess[p].col
             n == sess[p].jretry + 1
             w == IF n >= MaxRetry THEN Written(jobRow[j].state, sess[p].jstate, "FAILED")
                  ELSE jobRow[j].state
             x == IF sess[p].ex # 0 THEN sess[p].ex ELSE orders[j][c].ext
             os == IF orders[j][c].state = Absent THEN "CREATED" ELSE orders[j][c].state
             o == [state |-> os, ext |-> x]
             r == [state |-> w, retry |-> n]
             t == [sess[p] EXCEPT !.ex = 0]
  <1>0. /\ pc[p] = "failing" /\ sess[p] \in Session /\ jobRow \in [Jobs -> JobRow]
        /\ sess \in [Procs -> Session] /\ orders \in [Jobs -> [Procs -> OrderRow]]
    BY DEF HandleFailure, TypeInv, TypeOK
  <1>1. j \in Jobs /\ c \in Procs /\ n \in Nat
    BY <1>0 DEF TypeInv, BusyHasJob, Session
  <1>2. w \in EngineStates
    BY <1>0, <1>1, TypeFacts, StateFacts DEF TypeInv, BusyHasJob, Written
  <1>3. x \in Nat /\ os \in OrderStates
    BY <1>0, <1>1, TypeFacts, StateFacts DEF Session
  <1>4. orders' = [orders EXCEPT ![j][c] = o]
    BY <1>0, <1>1 DEF HandleFailure
  <1>5. jobRow' = [jobRow EXCEPT ![j] = r]
    BY <1>0, <1>1 DEF HandleFailure
  <1>6. sess' = [sess EXCEPT ![p] = t]
    BY <1>0 DEF HandleFailure
  <1>7. t \in Session /\ t.job = j /\ t.ex = 0 /\ t.col = c
        /\ t.jstate = sess[p].jstate /\ t.jretry = sess[p].jretry
    BY <1>0, StateFacts DEF Session
  <1>8. os = IF orders[j][c].state = Absent THEN "CREATED" ELSE orders[j][c].state
    OBVIOUS
  <1> HIDE DEF w, x, os, n
  <1>9. o \in OrderRow /\ o.ext = x /\ o.state = os
    BY <1>3 DEF OrderRow
  <1>10. r \in JobRow /\ r.state = w /\ r.retry = n
    BY <1>1, <1>2 DEF JobRow
  <1> HIDE DEF o, r, t
  <1> QED BY <1>4, <1>5, <1>6, <1>7, <1>8, <1>9, <1>10 DEF FailureWrites, w, x, os, n

LEMMA LatencyAlertType ==
    ASSUME TypeInv, NEW p \in Procs, LatencyAlert(p)
    PROVE  TypeInv'
  <1> DEFINE j == sess[p].job
             c == sess[p].col
             o == [state |-> "CREATED", ext |-> 0]
  <1>1. /\ pc[p] = "replied" /\ sess' = [sess EXCEPT ![p] = Refreshed(p)] /\ pc' = pc
        /\ orders' = orders \/ orders' = [orders EXCEPT ![j][c] = o]
        /\ UNCHANGED <<phase, jobRow, queue, position, exch, recon, venueOpen,
                       killSwitch, advised, toggles, crashes>>
    BY DEF LatencyAlert, Operator
  <1>2. /\ sess[p] \in Session /\ pc \in [Procs -> Steps] /\ jobRow \in [Jobs -> JobRow]
        /\ orders \in [Jobs -> [Procs -> OrderRow]] /\ position \in [Users -> Nat]
    BY DEF TypeInv, TypeOK
  <1>3. j \in Jobs /\ c \in Procs /\ sess[p].ex \in 0..Len(exch) /\ Len(exch) \in Nat
    <2>1. j \in Jobs /\ sess[p].ex \in 0..Len(exch)
      BY <1>1 DEF TypeInv, BusyHasJob, ExtInRange
    <2>2. c \in Procs /\ Len(exch) \in Nat
      BY <1>2, TypeFacts DEF Session
    <2> QED BY <2>1, <2>2
  <1>4. o \in OrderRow /\ o.ext \in 0..Len(exch)
    BY <1>3, StateFacts DEF OrderRow
  <1> HIDE DEF o
  <1>5. /\ orders' \in [Jobs -> [Procs -> OrderRow]]
        /\ \A k \in Jobs, q \in Procs : orders'[k][q].ext \in 0..Len(exch)
    BY <1>1, <1>2, <1>3, <1>4, OrderWriteType DEF TypeInv, ExtInRange
  <1>6. pc' = [pc EXCEPT ![p] = "replied"] /\ "replied" \in Steps \ {"idle"}
    BY <1>1, <1>2 DEF Steps
  <1>7. /\ Refreshed(p) \in Session /\ Refreshed(p).job = sess[p].job
        /\ Refreshed(p).ex = sess[p].ex
    BY <1>1, RefreshedType
  <1> QED BY <1>1, <1>2, <1>3, <1>5, <1>6, <1>7, CommitStepType

LEMMA ToFailingType ==
    ASSUME TypeInv, NEW p \in Procs, NEW s \in Session, ToFailing(p, s),
           pc[p] # "idle", s.job = sess[p].job, s.ex = sess[p].ex,
           UNCHANGED <<phase, jobRow, queue, orders, position, exch, recon, venueOpen,
                       killSwitch, advised, toggles, crashes>>
    PROVE  TypeInv'
  <1>1. PICK t \in Session :
          /\ sess' = [sess EXCEPT ![p] = t] /\ pc' = [pc EXCEPT ![p] = "failing"]
          /\ t.job = s.job /\ t.ex = s.ex
    BY FailingSession
  <1>2. exch \in Seq(ExOrder) /\ Len(exch) \in Nat /\ sess[p].ex \in 0..Len(exch)
    BY DEF TypeInv, TypeOK, ExtInRange
  <1>3. exch' \in Seq(ExOrder) /\ Len(exch') >= Len(exch) /\ t.ex \in 0..Len(exch')
    BY <1>1, <1>2
  <1>4. "failing" \in Steps \ {"idle"}
    BY DEF Steps
  <1> QED BY <1>1, <1>3, <1>4, SessionStepType

LEMMA ApplyResultType ==
    ASSUME TypeInv, NEW p \in Procs, ApplyResult(p)
    PROVE  TypeInv'
  <1>1. /\ pc[p] = "replied"
        /\ UNCHANGED <<phase, jobRow, queue, orders, position, exch, recon, venueOpen,
                       killSwitch, advised, toggles, crashes>>
    BY DEF ApplyResult, Operator
  <1>2. /\ sess[p] \in Session /\ sess \in [Procs -> Session] /\ exch \in Seq(ExOrder)
        /\ Len(exch) \in Nat /\ sess[p].ex \in 0..Len(exch) /\ sess[p].job \in Jobs
    BY <1>1 DEF TypeInv, TypeOK, ExtInRange, BusyHasJob
  <1>3. CASE CanApply(sess[p].ostate, sess[p].status)
    <2> DEFINE n == IF sess[p].status = "FILLED" THEN position[UserOf[sess[p].job]] ELSE 0
               t == [sess[p] EXCEPT !.pos = n]
    <2>1. n \in Nat
      BY <1>2, ConstantsAssumption DEF TypeInv, TypeOK
    <2>2. sess' = [sess EXCEPT ![p] = t] /\ pc' = [pc EXCEPT ![p] = "applied"]
      BY <1>2, <1>3 DEF ApplyResult
    <2> HIDE DEF n
    <2>3. t \in Session /\ t.job = sess[p].job /\ t.ex = sess[p].ex
      BY <1>2, <2>1 DEF Session
    <2> HIDE DEF t
    <2>4. exch' \in Seq(ExOrder) /\ Len(exch') >= Len(exch) /\ t.ex \in 0..Len(exch')
      BY <1>1, <1>2, <2>3
    <2>5. "applied" \in Steps \ {"idle"}
      BY DEF Steps
    <2> QED BY <1>1, <2>2, <2>3, <2>4, <2>5, SessionStepType
  <1>4. CASE ~CanApply(sess[p].ostate, sess[p].status)
    <2>1. ToFailing(p, sess[p])
      BY <1>4 DEF ApplyResult
    <2> QED BY <1>1, <1>2, <2>1, ToFailingType
  <1> QED BY <1>3, <1>4

LEMMA CommitResultType ==
    ASSUME TypeInv, NEW p \in Procs, CommitResult(p)
    PROVE  TypeInv'
  <1>0. PICK o \in OrderRow, r \in JobRow, t \in Session : CommitWrites(p, o, r, t)
    BY CommitResultRows
  <1>1. /\ orders' = [orders EXCEPT ![sess[p].job][sess[p].col] = o]
        /\ o.ext = sess[p].ex
        /\ jobRow' = [jobRow EXCEPT ![sess[p].job] = r]
        /\ r.state = Written(jobRow[sess[p].job].state, sess[p].jstate,
                             FinalState(sess[p].status))
        /\ sess' = [sess EXCEPT ![p] = t]
        /\ t.job = sess[p].job /\ t.ex = 0
    BY <1>0 DEF CommitWrites
  <1>2. /\ pc[p] = "applied" /\ pc' = [pc EXCEPT ![p] = "committed"]
        /\ UNCHANGED <<phase, queue, exch, recon, venueOpen, killSwitch, advised,
                       toggles, crashes>>
    BY DEF CommitResult, Operator
  <1>3. /\ sess[p] \in Session /\ sess[p].job \in Jobs /\ Len(exch) \in Nat
        /\ sess[p].ex \in 0..Len(exch) /\ jobRow[sess[p].job].state # Absent
    BY <1>2 DEF TypeInv, TypeOK, ExtInRange, BusyHasJob
  <1>4. sess[p].col \in Procs /\ sess[p].status \in ExchangeStatuses /\ sess[p].pos \in Nat
    BY <1>3 DEF Session
  <1>5. r.state # Absent
    BY <1>1, <1>3, <1>4, FinalStateType, StateFacts DEF Written
  <1>6. position' \in [Users -> Nat]
    <2>1. position \in [Users -> Nat] /\ SizeOf[sess[p].job] \in Nat
          /\ UserOf[sess[p].job] \in Users
      BY <1>3, ConstantsAssumption DEF TypeInv, TypeOK
    <2>2. \/ position' = position
          \/ position' = [position EXCEPT ![UserOf[sess[p].job]]
                                            = sess[p].pos + SizeOf[sess[p].job]]
      BY DEF CommitResult
    <2> QED BY <1>4, <2>1, <2>2
  <1>7. "committed" \in Steps \ {"idle"} /\ t.ex \in 0..Len(exch)
    BY <1>1, <1>3 DEF Steps
  <1>8. /\ orders' \in [Jobs -> [Procs -> OrderRow]]
        /\ \A k \in Jobs, q \in Procs : orders'[k][q].ext \in 0..Len(exch)
    BY <1>1, <1>3, <1>4, OrderWriteType
  <1>9. /\ jobRow' \in [Jobs -> JobRow]
        /\ \A k \in Jobs : jobRow[k].state # Absent => jobRow'[k].state # Absent
    BY <1>1, <1>3, <1>5, JobWriteType
  <1> QED BY <1>1, <1>2, <1>6, <1>7, <1>8, <1>9, CommitStepType

LEMMA HandleFailureType ==
    ASSUME TypeInv, NEW p \in Procs, HandleFailure(p)
    PROVE  TypeInv'
  <1>0. PICK o \in OrderRow, r \in JobRow, t \in Session : FailureWrites(p, o, r, t)
    BY HandleFailureRows
  <1>1. /\ orders' = [orders EXCEPT ![sess[p].job][sess[p].col] = o]
        /\ o.ext = IF sess[p].ex # 0 THEN sess[p].ex
                   ELSE orders[sess[p].job][sess[p].col].ext
        /\ jobRow' = [jobRow EXCEPT ![sess[p].job] = r]
        /\ r.state = IF sess[p].jretry + 1 >= MaxRetry
                     THEN Written(jobRow[sess[p].job].state, sess[p].jstate, "FAILED")
                     ELSE jobRow[sess[p].job].state
        /\ sess' = [sess EXCEPT ![p] = t]
        /\ t.job = sess[p].job /\ t.ex = 0
    BY <1>0 DEF FailureWrites
  <1>2. /\ pc[p] = "failing" /\ pc' = [pc EXCEPT ![p] = "failed"]
        /\ UNCHANGED <<phase, queue, position, exch, recon, venueOpen, killSwitch, advised,
                       toggles, crashes>>
    BY DEF HandleFailure, Operator
  <1>3. /\ sess[p] \in Session /\ sess[p].job \in Jobs /\ Len(exch) \in Nat
        /\ sess[p].ex \in 0..Len(exch) /\ jobRow[sess[p].job].state # Absent
    BY <1>2 DEF TypeInv, TypeOK, ExtInRange, BusyHasJob
  <1>4. sess[p].col \in Procs
    BY <1>3 DEF Session
  <1>5. r.state # Absent
    BY <1>1, <1>3 DEF Written, Absent
  <1>6. o.ext \in 0..Len(exch)
    BY <1>1, <1>3, <1>4 DEF TypeInv, ExtInRange
  <1>7. /\ "failed" \in Steps \ {"idle"} /\ t.ex \in 0..Len(exch)
        /\ position' \in [Users -> Nat]
    BY <1>1, <1>2, <1>3 DEF Steps, TypeInv, TypeOK
  <1>8. /\ orders' \in [Jobs -> [Procs -> OrderRow]]
        /\ \A k \in Jobs, q \in Procs : orders'[k][q].ext \in 0..Len(exch)
    BY <1>1, <1>3, <1>4, <1>6, OrderWriteType
  <1>9. /\ jobRow' \in [Jobs -> JobRow]
        /\ \A k \in Jobs : jobRow[k].state # Absent => jobRow'[k].state # Absent
    BY <1>1, <1>3, <1>5, JobWriteType
  <1> QED BY <1>1, <1>2, <1>7, <1>8, <1>9, CommitStepType

\* The steps after the reply, and a process that dies.
LEMMA SettleType ==
    ASSUME TypeInv, NEW p \in Procs, Settle(p) \/ Crash(p)
    PROVE  TypeInv'
  <1>0. /\ queue \in Seq(Payload) /\ killSwitch \in BOOLEAN /\ crashes \in Nat
        /\ sess[p] \in Session
    BY DEF TypeInv, TypeOK
  <1>1. CASE LatencyAlert(p)
    BY <1>1, LatencyAlertType
  <1>2. CASE ApplyResult(p)
    BY <1>2, ApplyResultType
  <1>3. CASE CommitResult(p)
    BY <1>3, CommitResultType
  <1>4. CASE CommitResultConflict(p)
    BY <1>0, <1>4, EndSessionType DEF CommitResultConflict, Operator
  <1>5. CASE AfterCommit(p) \/ CloseFailed(p)
    <2>1. /\ EndSession(p) /\ killSwitch' = AutoKillSwitch(jobRow)
          /\ UNCHANGED <<phase, jobRow, queue, orders, position, exch, recon, venueOpen,
                         advised, toggles, crashes>>
      BY <1>5 DEF AfterCommit, CloseFailed
    <2>2. killSwitch' \in BOOLEAN
      BY <2>1, AutoKillSwitchType, Zenon
    <2> QED BY <1>0, <2>1, <2>2, EndSessionType
  <1>6. CASE AfterCommitRaises(p)
    <2>1. /\ pc[p] = "committed" /\ ToFailing(p, Refreshed(p))
          /\ UNCHANGED <<phase, jobRow, queue, orders, position, exch, recon, venueOpen,
                         killSwitch, advised, toggles, crashes>>
      BY <1>6 DEF AfterCommitRaises, Operator
    <2>2. /\ Refreshed(p) \in Session /\ Refreshed(p).job = sess[p].job
          /\ Refreshed(p).ex = sess[p].ex
      BY <2>1, RefreshedType
    <2> QED BY <2>1, <2>2, ToFailingType
  <1>7. CASE HandleFailure(p)
    BY <1>7, HandleFailureType
  <1>8. CASE Requeue(p)
    <2> DEFINE x == [job |-> sess[p].job, retried |-> TRUE]
    <2>1. /\ EndSession(p) /\ killSwitch' = AutoKillSwitch(jobRow) /\ pc[p] # "idle"
          /\ queue' = Append(queue, x)
          /\ UNCHANGED <<phase, jobRow, orders, position, exch, recon, venueOpen,
                         advised, toggles, crashes>>
      BY <1>8 DEF Requeue
    <2>2. killSwitch' \in BOOLEAN
      BY <2>1, AutoKillSwitchType, Zenon
    <2>3. x \in Payload
      BY <2>1 DEF TypeInv, BusyHasJob, Payload
    <2> HIDE DEF x
    <2>4. queue' \in Seq(Payload)
      BY <1>0, <2>1, <2>3
    <2> QED BY <1>0, <2>1, <2>2, <2>4, EndSessionType
  <1>9. CASE Crash(p)
    BY <1>0, <1>9, EndSessionType DEF Crash, Operator
  <1> QED BY <1>1, <1>2, <1>3, <1>4, <1>5, <1>6, <1>7, <1>8, <1>9 DEF Settle

LEMMA ReconcileReadType ==
    ASSUME TypeInv, NEW c \in Reconcilers, ReconcileRead(c)
    PROVE  TypeInv'
  <1>1. PICK S \in SUBSET Mismatched :
         recon' = [recon EXCEPT ![c] =
                     [running |-> TRUE,
                      seen    |-> [j \in Jobs |-> [p \in Procs |->
                                     IF <<j, p>> \in S
                                     THEN exch[orders[j][p].ext].status
                                     ELSE Absent]],
                      jstate  |-> [j \in Jobs |-> jobRow[j].state]]]
    BY DEF ReconcileRead
  <1> DEFINE x == [j \in Jobs |-> [p \in Procs |->
                     IF <<j, p>> \in S THEN exch[orders[j][p].ext].status ELSE Absent]]
             y == [j \in Jobs |-> jobRow[j].state]
             z == [running |-> TRUE, seen |-> x, jstate |-> y]
  <1>2. ASSUME NEW j \in Jobs, NEW p \in Procs, <<j, p>> \in S
        PROVE  exch[orders[j][p].ext].status \in ExchangeStatuses
    <2>1. orders[j][p].ext # 0 /\ orders[j][p].ext \in 0..Len(exch)
      BY <1>2 DEF Mismatched, TypeInv, ExtInRange
    <2>2. orders[j][p].ext \in 1..Len(exch)
      BY <2>1, TypeFacts
    <2> QED BY <2>2, TypeFacts DEF ExOrder
  <1>3. x \in [Jobs -> [Procs -> ExchangeStatuses \cup {Absent}]]
    BY <1>2
  <1>4. y \in [Jobs -> EngineStates \cup {Absent}]
    BY TypeFacts
  <1> HIDE DEF x, y
  <1>5. z \in Reconciliation
    BY <1>3, <1>4 DEF Reconciliation
  <1>6. recon' = [recon EXCEPT ![c] = z]
    BY <1>1 DEF x, y
  <1> HIDE DEF z
  <1>7. recon' \in [Reconcilers -> Reconciliation]
    BY <1>5, <1>6 DEF TypeInv, TypeOK
  <1>8. UNCHANGED <<phase, jobRow, queue, orders, position, exch, pc, sess, venueOpen,
                    killSwitch, advised, toggles, crashes>>
    BY DEF ReconcileRead, Sessions, Operator
  <1> QED BY <1>7, <1>8 DEF TypeInv, TypeOK, BusyHasJob, ExtInRange

\* The rows a reconciliation writes.
LEMMA ReconcileCommitRows ==
    ASSUME TypeInv, NEW c \in Reconcilers, ReconcileCommit(c)
    PROVE  /\ jobRow' \in [Jobs -> JobRow]
           /\ orders' \in [Jobs -> [Procs -> OrderRow]]
           /\ \A j \in Jobs, p \in Procs : orders'[j][p].ext = orders[j][p].ext
           /\ \A j \in Jobs, p \in Procs :
                 orders'[j][p].state = IF recon[c].seen[j][p] = Absent
                                       THEN orders[j][p].state ELSE recon[c].seen[j][p]
           /\ \A j \in Jobs : jobRow'[j].retry = jobRow[j].retry
           /\ \A j \in Jobs : jobRow'[j].state = jobRow[j].state
                 \/ \E p \in Procs : /\ recon[c].seen[j][p] \in {"FILLED", "CANCELED"}
                                     /\ jobRow'[j].state = recon[c].seen[j][p]
  <1>0. /\ recon[c] \in Reconciliation /\ jobRow \in [Jobs -> JobRow]
        /\ orders \in [Jobs -> [Procs -> OrderRow]]
    BY DEF TypeInv, TypeOK
  <1>1. orders' = [j \in Jobs |-> [p \in Procs |->
                    IF recon[c].seen[j][p] = Absent THEN orders[j][p]
                    ELSE [orders[j][p] EXCEPT !.state = recon[c].seen[j][p]]]]
    BY DEF ReconcileCommit
  <1>2. \A j \in Jobs, p \in Procs : recon[c].seen[j][p] \in OrderStates \cup {Absent}
    BY <1>0, StateFacts DEF Reconciliation
  <1>3. ASSUME NEW j \in Jobs, NEW p \in Procs
        PROVE  /\ orders'[j][p] \in OrderRow
               /\ orders'[j][p].ext = orders[j][p].ext
               /\ orders'[j][p].state = IF recon[c].seen[j][p] = Absent
                                        THEN orders[j][p].state ELSE recon[c].seen[j][p]
    <2> DEFINE s == recon[c].seen[j][p]
    <2>1. orders'[j][p] = IF s = Absent THEN orders[j][p] ELSE [orders[j][p] EXCEPT !.state = s]
      BY <1>1
    <2>2. s \in OrderStates \cup {Absent} /\ orders[j][p] \in OrderRow
      BY <1>0, <1>2
    <2> HIDE DEF s
    <2>3. /\ orders'[j][p] \in OrderRow
          /\ orders'[j][p].ext = orders[j][p].ext
          /\ orders'[j][p].state = IF s = Absent THEN orders[j][p].state ELSE s
      BY <2>1, <2>2 DEF OrderRow
    <2> QED BY <2>3 DEF s
  <1>4. orders' \in [Jobs -> [Procs -> OrderRow]]
    <2>1. DOMAIN orders' = Jobs /\ \A j \in Jobs : orders'[j] \in [Procs -> OrderRow]
      BY <1>1, <1>3
    <2>2. orders' = [j \in Jobs |-> orders'[j]]
      BY <1>1, <2>1
    <2> QED BY <2>1, <2>2
  <1>5. PICK target \in [Jobs -> {"FILLED", "CANCELED", Absent}] :
         /\ \A j \in Jobs : IF JobTargets(c, j) = {} THEN target[j] = Absent
                            ELSE target[j] \in JobTargets(c, j)
         /\ jobRow' = [j \in Jobs |->
                         IF target[j] = Absent THEN jobRow[j]
                         ELSE [jobRow[j] EXCEPT !.state =
                                 Written(@, recon[c].jstate[j], target[j])]]
    BY DEF ReconcileCommit
  <1>6. ASSUME NEW j \in Jobs
        PROVE  /\ jobRow'[j] \in JobRow /\ jobRow'[j].retry = jobRow[j].retry
               /\ jobRow'[j].state = jobRow[j].state
                  \/ \E p \in Procs : /\ recon[c].seen[j][p] \in {"FILLED", "CANCELED"}
                                      /\ jobRow'[j].state = recon[c].seen[j][p]
    <2> DEFINE w == Written(jobRow[j].state, recon[c].jstate[j], target[j])
    <2>1. jobRow[j] \in JobRow
      BY <1>0
    <2>2. jobRow'[j] = IF target[j] = Absent THEN jobRow[j] ELSE [jobRow[j] EXCEPT !.state = w]
      BY <1>5, <2>1 DEF JobRow
    <2>3. CASE target[j] = Absent
      BY <2>1, <2>2, <2>3
    <2>4. CASE target[j] # Absent
      <3>1. target[j] \in JobTargets(c, j)
        BY <1>5, <2>4
      <3>2. PICK p \in Procs : /\ recon[c].seen[j][p] \in {"FILLED", "CANCELED"}
                               /\ target[j] = recon[c].seen[j][p]
        BY <3>1 DEF JobTargets
      <3>3. w = jobRow[j].state \/ w = target[j]
        BY DEF Written
      <3>4. w \in EngineStates \cup {Absent}
        BY <3>2, <3>3, TypeFacts, StateFacts
      <3> HIDE DEF w
      <3>5. jobRow'[j] \in JobRow /\ jobRow'[j].retry = jobRow[j].retry /\ jobRow'[j].state = w
        BY <2>1, <2>2, <2>4, <3>4 DEF JobRow
      <3> QED BY <3>2, <3>3, <3>5
    <2> QED BY <2>3, <2>4
  <1>7. jobRow' \in [Jobs -> JobRow]
    BY <1>5, <1>6
  <1> QED BY <1>3, <1>4, <1>6, <1>7

LEMMA ReconcileCommitType ==
    ASSUME TypeInv, NEW c \in Reconcilers, ReconcileCommit(c)
    PROVE  TypeInv'
  <1>1. /\ recon' = [recon EXCEPT ![c] = NotRunning]
        /\ UNCHANGED <<phase, queue, position, exch, pc, sess, venueOpen, killSwitch,
                       advised, toggles, crashes>>
    BY DEF ReconcileCommit, Sessions, Operator
  <1>2. NotRunning \in Reconciliation
    BY DEF NotRunning, Reconciliation
  <1>3. recon' \in [Reconcilers -> Reconciliation]
    BY <1>1, <1>2 DEF TypeInv, TypeOK
  <1>4. /\ jobRow' \in [Jobs -> JobRow]
        /\ orders' \in [Jobs -> [Procs -> OrderRow]]
    BY ReconcileCommitRows
  <1>5. BusyHasJob'
    <2>1. \A j \in Jobs : jobRow[j].state # Absent => jobRow'[j].state # Absent
      BY ReconcileCommitRows DEF Absent
    <2> QED BY <1>1, <2>1 DEF BusyHasJob, TypeInv
  <1>6. ExtInRange'
    BY <1>1, ReconcileCommitRows DEF ExtInRange, TypeInv
  <1> QED BY <1>1, <1>3, <1>4, <1>5, <1>6 DEF TypeInv, TypeOK

\* What the exchange does to an order it has accepted.
LEMMA ProgressFacts ==
    ASSUME TypeInv, NEW e \in 1..Len(exch), NEW s \in Reported, ExchangeProgress(e, s)
    PROVE  /\ exch' \in Seq(ExOrder)
           /\ Len(exch') = Len(exch)
           /\ \A f \in 1..Len(exch) : exch'[f].job = exch[f].job
           /\ \A f \in 1..Len(exch) : f # e => exch'[f] = exch[f]
           /\ exch'[e].status = s
           /\ UNCHANGED <<phase, jobRow, queue, orders, position, pc, sess, recon, venueOpen,
                          killSwitch, advised, toggles, crashes>>
  <1> DEFINE x == [exch[e] EXCEPT !.status = s]
  <1>1. exch \in Seq(ExOrder) /\ exch[e] \in ExOrder
    BY TypeFacts DEF TypeInv, TypeOK
  <1>2. x \in ExOrder /\ x.job = exch[e].job /\ x.status = s
    BY <1>1, StateFacts DEF ExOrder
  <1>3. exch' = [exch EXCEPT ![e] = x]
    BY <1>1 DEF ExchangeProgress
  <1> HIDE DEF x
  <1>4. /\ exch' \in Seq(ExOrder)
        /\ Len(exch') = Len(exch)
        /\ exch'[e] = x
        /\ \A f \in 1..Len(exch) : f # e => exch'[f] = exch[f]
    BY <1>1, <1>2, <1>3
  <1>5. UNCHANGED <<phase, jobRow, queue, orders, position, pc, sess, recon, venueOpen,
                    killSwitch, advised, toggles, crashes>>
    BY DEF ExchangeProgress, Sessions, Operator
  <1> QED BY <1>2, <1>4, <1>5

\* The exchange moves on, and the operator's actions.
LEMMA EnvironmentType ==
    ASSUME TypeInv,
           \/ \E e \in 1..Len(exch), s \in Reported : ExchangeProgress(e, s)
           \/ SetVenue \/ ActivateKillSwitch \/ DeactivateKillSwitch
    PROVE  TypeInv'
  <1>1. CASE \E e \in 1..Len(exch), s \in Reported : ExchangeProgress(e, s)
    <2>1. PICK e \in 1..Len(exch), s \in Reported : ExchangeProgress(e, s)
      BY <1>1
    <2> QED BY <2>1, ProgressFacts DEF TypeInv, TypeOK, BusyHasJob, ExtInRange
  <1>2. CASE SetVenue \/ ActivateKillSwitch \/ DeactivateKillSwitch
    <2> USE <1>2 DEF SetVenue, ActivateKillSwitch, DeactivateKillSwitch, Sessions
    <2>1. UNCHANGED <<phase, jobRow, queue, orders, position, exch, pc, sess, recon,
                      advised, crashes>>
      OBVIOUS
    <2>2. toggles' \in Nat
      BY DEF TypeInv, TypeOK
    <2>3. venueOpen' \in BOOLEAN /\ killSwitch' \in BOOLEAN
      BY Zenon DEF TypeInv, TypeOK
    <2> HIDE <1>2 DEF SetVenue, ActivateKillSwitch, DeactivateKillSwitch, Sessions
    <2> QED BY <2>1, <2>2, <2>3 DEF TypeInv, TypeOK, BusyHasJob, ExtInRange
  <1> QED BY <1>1, <1>2

LEMMA NextTypeInv == TypeInv /\ [Next]_vars => TypeInv'
  <1> SUFFICES ASSUME TypeInv, [Next]_vars PROVE TypeInv'
    OBVIOUS
  <1>1. CASE \E j \in Jobs : Submit(j)
    BY <1>1, SubmitType
  <1>2. CASE \E p \in Procs : Take(p) \/ Request(p) \/ Settle(p) \/ Crash(p)
    BY <1>2, TakeType, RequestType, SettleType
  <1>3. CASE \E c \in Reconcilers : ReconcileRead(c) \/ ReconcileCommit(c)
    BY <1>3, ReconcileReadType, ReconcileCommitType
  <1>4. CASE \/ \E e \in 1..Len(exch), s \in Reported : ExchangeProgress(e, s)
             \/ SetVenue \/ ActivateKillSwitch \/ DeactivateKillSwitch
    BY <1>4, EnvironmentType
  <1>5. CASE UNCHANGED vars
    BY <1>5 DEF vars, TypeInv, TypeOK, BusyHasJob, ExtInRange
  <1> QED BY <1>1, <1>2, <1>3, <1>4, <1>5 DEF Next

\* The variables of the engine keep their types, whatever the numbers of jobs,
\* processes and retries; with them, every busy process works on a job whose
\* row is committed (a payload popped before its commit is dropped) and every
\* external order id stored or in hand names an order of the exchange.
THEOREM TypeCorrect == Spec => [](TypeOK /\ BusyHasJob /\ ExtInRange)
  <1>1. Spec => []TypeInv
    BY InitTypeInv, NextTypeInv, PTL DEF Spec
  <1> QED BY <1>1, PTL DEF TypeInv

-----------------------------------------------------------------------------
(* Outcomes.  The outcome reported for a job is the exchange's, and every  *)
(* external order id in the database names one order of the right job.     *)
(* Unlike custody (ExecutionEngineCustody) this also holds for the jobs    *)
(* go-live runs execute, where two sessions work on one job: it rests on   *)
(* where ids and statuses come from and not on who holds the payload.      *)

Closed == {"FILLED", "CANCELED"}

\* e is an order of job j at the exchange.
OrderOf(j, e) == e \in 1..Len(exch) /\ exch[e].job = j

\* The exchange has an order of job j with status s.
Backed(j, s) == \E e \in 1..Len(exch) : exch[e].job = j /\ exch[e].status = s

-----------------------------------------------------------------------------
(* The inductive invariant *)

\* The external id a session has in hand, or a row stores, is one of its job.
IdsOwned ==
    /\ \A p \in Procs, j \in Jobs, e \in Nat \ {0} :
          sess[p].job = j /\ sess[p].ex = e => OrderOf(j, e)
    /\ \A p \in Procs, j \in Jobs, e \in Nat \ {0} :
          orders[j][p].ext = e => OrderOf(j, e)

\* An id is in one place: one session or one row.
IdsUnique ==
    /\ \A p, q \in Procs : sess[p].ex # 0 /\ sess[p].ex = sess[q].ex => p = q
    /\ \A p, q \in Procs, j \in Jobs : sess[p].ex # 0 => orders[j][q].ext # sess[p].ex
    /\ \A p, q \in Procs, j, k \in Jobs :
          orders[j][p].ext # 0 /\ orders[j][p].ext = orders[k][q].ext => j = k /\ p = q

\* What a reply says of a closed order is still true when it is applied.
ReplyBacked ==
    \A p \in Procs, j \in Jobs, s \in Closed :
        pc[p] \in {"replied", "applied"} /\ sess[p].job = j /\ sess[p].status = s
           => Backed(j, s)

\* And so is what a reconciliation has fetched.
SeenBacked ==
    \A c \in Reconcilers, j \in Jobs, p \in Procs, s \in Closed :
        recon[c].seen[j][p] = s => Backed(j, s)

OutcomeBacked ==
    \A j \in Jobs, s \in Closed : jobRow[j].state = s => Backed(j, s)

IdInv == IdsOwned /\ IdsUnique
OutcomeInv == ReplyBacked /\ SeenBacked /\ OutcomeBacked

-----------------------------------------------------------------------------
(* The exchange only adds orders and never reopens one *)

ExchKept ==
    /\ Len(exch) \in Nat /\ Len(exch') \in Nat /\ Len(exch) <= Len(exch')
    /\ \A e \in 1..Len(exch) :
          /\ exch'[e].job = exch[e].job
          /\ exch[e].status \in Closed => exch'[e].status = exch[e].status

LEMMA KeptFacts ==
    ASSUME ExchKept
    PROVE  /\ \A j \in Jobs, e \in Nat \ {0} : OrderOf(j, e) => (OrderOf(j, e))'
           /\ \A j \in Jobs, s \in Closed : Backed(j, s) => (Backed(j, s))'
  BY DEF ExchKept, OrderOf, Backed

LEMMA SameExchKept == ASSUME TypeInv, exch' = exch PROVE ExchKept
  BY TypeFacts DEF ExchKept

LEMMA AcceptKept ==
    ASSUME TypeInv, NEW j \in Jobs, NEW s \in Reported, Accept(j, s)
    PROVE  /\ ExchKept
           /\ \A e \in Nat : e = Len(exch) + 1 => (OrderOf(j, e))'
           /\ (Backed(j, s))'
  <1>1. exch \in Seq(ExOrder) /\ s \in ExchangeStatuses
    BY StateFacts DEF TypeInv, TypeOK
  <1>2. PICK n \in Nat : n = Len(exch)
    BY TypeFacts
  <1>3. /\ Len(exch') = n + 1
        /\ exch'[n + 1] = [job |-> j, status |-> s]
        /\ \A e \in 1..n : exch'[e] = exch[e]
    BY <1>1, <1>2, AcceptType, Zenon
  <1>4. exch'[n + 1].job = j /\ exch'[n + 1].status = s
    BY <1>3
  <1>5. ExchKept
    BY <1>2, <1>3 DEF ExchKept
  <1>6. \A e \in Nat : e = Len(exch) + 1 => (OrderOf(j, e))'
    BY <1>2, <1>3, <1>4 DEF OrderOf
  <1>7. (Backed(j, s))'
    <2>1. n + 1 \in 1..Len(exch')
      BY <1>3
    <2> QED BY <1>4, <2>1 DEF Backed
  <1> QED BY <1>5, <1>6, <1>7

LEMMA ProgressKept ==
    ASSUME TypeInv, NEW e \in 1..Len(exch), NEW s \in Reported, ExchangeProgress(e, s)
    PROVE  ExchKept
  <1>1. exch[e].status \notin Closed
    BY DEF ExchangeProgress, IsLive, Closed
  <1> QED BY <1>1, ProgressFacts, TypeFacts DEF ExchKept

-----------------------------------------------------------------------------
(* Where ids can go *)

\* No id moves: a session keeps its id with its job or forgets it, a row keeps
\* its id or is new and has none.
IdsStay ==
    /\ \A q \in Procs : sess'[q].ex = 0 \/ (sess'[q].ex = sess[q].ex
                                            /\ sess'[q].job = sess[q].job)
    /\ \A j \in Jobs, q \in Procs : orders'[j][q].ext = 0
                                    \/ orders'[j][q].ext = orders[j][q].ext

LEMMA StayIds ==
    ASSUME IdInv, ExchKept, IdsStay
    PROVE  IdInv'
  <1>1. IdsOwned'
    BY KeptFacts DEF IdInv, IdsOwned, IdsStay
  <1>2. IdsUnique'
    BY DEF IdInv, IdsUnique, IdsStay
  <1> QED BY <1>1, <1>2 DEF IdInv

\* A reply gives the session of p an id nobody has.
LEMMA AcceptIds ==
    ASSUME TypeInv, IdInv, NEW p \in Procs, NEW s \in Reported, NEW t \in Session,
           sess[p].job \in Jobs, Accept(sess[p].job, s), orders' = orders,
           sess' = [sess EXCEPT ![p] = t], t.job = sess[p].job, t.ex = Len(exch) + 1
    PROVE  IdInv'
  <1>1. PICK n \in Nat : n = Len(exch)
    BY TypeFacts
  <1>2. PICK k \in Jobs : k = sess[p].job
    OBVIOUS
  <1>3. ExchKept /\ (OrderOf(k, n + 1))'
    BY <1>1, <1>2, AcceptKept
  <1>4. /\ sess'[p].ex = n + 1 /\ sess'[p].job = k
        /\ \A q \in Procs \ {p} : sess'[q] = sess[q]
    BY <1>1, <1>2 DEF TypeInv, TypeOK
  <1>5. /\ \A q \in Procs : sess[q].ex \in 0..n
        /\ \A j \in Jobs, q \in Procs : orders[j][q].ext \in 0..n
    BY <1>1 DEF TypeInv, ExtInRange
  <1>6. IdsOwned'
    BY <1>3, <1>4, KeptFacts DEF IdInv, IdsOwned
  <1>7. IdsUnique'
    BY <1>1, <1>4, <1>5 DEF IdInv, IdsUnique
  <1> QED BY <1>6, <1>7 DEF IdInv

\* A commit moves the id of a session to the order row of its job.
LEMMA WriteIds ==
    ASSUME TypeInv, IdInv, NEW p \in Procs, NEW k \in Jobs, NEW c \in Procs, exch' = exch,
           k = sess[p].job, sess'[p].ex = 0,
           \A q \in Procs \ {p} : sess'[q] = sess[q],
           orders'[k][c].ext \in {sess[p].ex, orders[k][c].ext},
           \A j \in Jobs, q \in Procs : j # k \/ q # c => orders'[j][q] = orders[j][q]
    PROVE  IdInv'
  <1>1. ExchKept
    BY SameExchKept
  <1>2. IdsOwned'
    BY <1>1, KeptFacts DEF IdInv, IdsOwned
  <1>3. PICK x : x = sess[p].ex
    OBVIOUS
  <1>4. \A j \in Jobs, q \in Procs :
           \/ orders'[j][q].ext = orders[j][q].ext
           \/ j = k /\ q = c /\ orders'[j][q].ext = x
    BY <1>3
  <1>5. IdsUnique
    BY DEF IdInv
  <1>6. \A q, r \in Procs : sess'[q].ex # 0 /\ sess'[q].ex = sess'[r].ex => q = r
    BY <1>5 DEF IdsUnique
  <1>7. \A q, r \in Procs, j \in Jobs : sess'[q].ex # 0 => orders'[j][r].ext # sess'[q].ex
    BY <1>3, <1>4, <1>5 DEF IdsUnique
  <1>8. \A q, r \in Procs, i, j \in Jobs :
           orders'[i][q].ext # 0 /\ orders'[i][q].ext = orders'[j][r].ext => i = j /\ q = r
    <2> SUFFICES ASSUME NEW q \in Procs, NEW r \in Procs, NEW i \in Jobs, NEW j \in Jobs,
                        orders'[i][q].ext # 0, orders'[i][q].ext = orders'[j][r].ext
                 PROVE  i = j /\ q = r
      OBVIOUS
    <2>1. CASE orders'[i][q].ext = orders[i][q].ext /\ orders'[j][r].ext = orders[j][r].ext
      <3>1. orders[i][q].ext # 0 /\ orders[i][q].ext = orders[j][r].ext
        BY <2>1
      <3>2. \A a, b \in Procs, f, g \in Jobs :
               orders[f][a].ext # 0 /\ orders[f][a].ext = orders[g][b].ext => f = g /\ a = b
        BY <1>5 DEF IdsUnique
      <3> QED BY <3>1, <3>2
    <2>2. CASE i = k /\ q = c /\ orders'[i][q].ext = x
      BY <1>3, <1>4, <1>5, <2>2 DEF IdsUnique
    <2>3. CASE j = k /\ r = c /\ orders'[j][r].ext = x
      BY <1>3, <1>4, <1>5, <2>3 DEF IdsUnique
    <2> QED BY <1>4, <2>1, <2>2, <2>3
  <1>9. IdsUnique'
    BY <1>6, <1>7, <1>8 DEF IdsUnique
  <1> QED BY <1>2, <1>9 DEF IdInv

-----------------------------------------------------------------------------
(* Where outcomes come from *)

\* No reply arrives: who has one keeps its job and status or is done with it.
RepliesStay ==
    \A q \in Procs : pc'[q] \in {"replied", "applied"} =>
        /\ pc[q] \in {"replied", "applied"}
        /\ sess'[q].job = sess[q].job /\ sess'[q].status = sess[q].status

\* No job is closed as FILLED or CANCELED.
JobsStay ==
    \A j \in Jobs : jobRow'[j].state \in Closed => jobRow'[j].state = jobRow[j].state

LEMMA StayReply == ASSUME ReplyBacked, ExchKept, RepliesStay PROVE ReplyBacked'
  BY KeptFacts DEF ReplyBacked, RepliesStay

LEMMA StaySeen == ASSUME SeenBacked, ExchKept, recon' = recon PROVE SeenBacked'
  BY KeptFacts DEF SeenBacked

LEMMA StayOutcome == ASSUME OutcomeBacked, ExchKept, JobsStay PROVE OutcomeBacked'
  BY KeptFacts DEF OutcomeBacked, JobsStay

\* A step that moves no id and brings no outcome.
Quiet == ExchKept /\ IdsStay /\ RepliesStay /\ JobsStay /\ recon' = recon

LEMMA QuietInv == ASSUME IdInv, OutcomeInv, Quiet PROVE IdInv' /\ OutcomeInv'
  <1>1. IdInv'
    BY StayIds DEF Quiet
  <1>2. ReplyBacked' /\ SeenBacked' /\ OutcomeBacked'
    BY StayReply, StaySeen, StayOutcome DEF Quiet, OutcomeInv
  <1> QED BY <1>1, <1>2 DEF OutcomeInv

\* A session that goes on, or ends, without a new reply.
LEMMA QuietSession ==
    ASSUME TypeInv, NEW p \in Procs, NEW t \in Session, NEW step \in Steps,
           sess' = [sess EXCEPT ![p] = t], pc' = [pc EXCEPT ![p] = step],
           t.ex = 0 \/ (t.ex = sess[p].ex /\ t.job = sess[p].job),
           step \in {"replied", "applied"} => /\ pc[p] \in {"replied", "applied"}
                                              /\ t.job = sess[p].job
                                              /\ t.status = sess[p].status,
           ExchKept, UNCHANGED <<jobRow, orders, recon>>
    PROVE  Quiet
  <1>1. sess \in [Procs -> Session] /\ pc \in [Procs -> Steps]
    BY DEF TypeInv, TypeOK
  <1>2. /\ sess'[p] = t /\ pc'[p] = step
        /\ \A q \in Procs \ {p} : sess'[q] = sess[q] /\ pc'[q] = pc[q]
    BY <1>1
  <1>3. IdsStay
    BY <1>2 DEF IdsStay
  <1>4. RepliesStay
    BY <1>2 DEF RepliesStay
  <1>5. JobsStay
    BY DEF JobsStay
  <1> QED BY <1>3, <1>4, <1>5 DEF Quiet

\* Nothing that matters here changes.
LEMMA QuietElsewhere ==
    ASSUME ExchKept, UNCHANGED <<jobRow, orders, pc, sess, recon>>
    PROVE  Quiet
  BY DEF Quiet, IdsStay, RepliesStay, JobsStay

LEMMA SubmitQuiet ==
    ASSUME TypeInv, NEW j \in Jobs, Submit(j)
    PROVE  Quiet
  <1>1. UNCHANGED <<exch, orders, pc, sess, recon>>
    BY DEF Submit, InsertJob, RejectAudit, RejectJob, PushPayload, CommitEnqueue,
           AbortSubmit, Sessions
  <1>2. ExchKept
    BY <1>1, SameExchKept
  <1>3. \/ jobRow' = jobRow
        \/ jobRow' = [jobRow EXCEPT ![j] = [state |-> "CREATED", retry |-> 0]]
        \/ jobRow' = [jobRow EXCEPT ![j] = [state |-> "FAILED", retry |-> 0]]
    BY DEF Submit, InsertJob, RejectAudit, RejectJob, PushPayload, CommitEnqueue,
           AbortSubmit
  <1>4. \A k \in Jobs : \/ jobRow'[k] = jobRow[k]
                       \/ jobRow'[k] = [state |-> "CREATED", retry |-> 0]
                       \/ jobRow'[k] = [state |-> "FAILED", retry |-> 0]
    <2>1. jobRow \in [Jobs -> JobRow]
      BY DEF TypeInv, TypeOK
    <2> QED BY <1>3, <2>1
  <1>5. \A k \in Jobs : \/ jobRow'[k].state = jobRow[k].state
                       \/ jobRow'[k].state \in {"CREATED", "FAILED"}
    BY <1>4
  <1>6. JobsStay
    BY <1>5 DEF JobsStay, Closed
  <1> QED BY <1>1, <1>2, <1>6 DEF Quiet, IdsStay, RepliesStay

LEMMA TakeQuiet ==
    ASSUME TypeInv, NEW p \in Procs, Take(p)
    PROVE  Quiet
  <1>1. UNCHANGED <<exch, jobRow, orders, recon>>
    BY DEF Take, Consume, ConsumeIgnored, ConsumeDeferred, ConsumeRefused, DirectExecute
  <1>2. ExchKept
    BY <1>1, SameExchKept
  <1>3. CASE Consume(p) \/ \E j \in Jobs : DirectExecute(p, j)
    <2>1. PICK k \in Jobs : BeginJob(p, k)
      BY <1>3, QueueTail DEF Consume, DirectExecute, TypeInv, TypeOK, Payload
    <2>2. /\ sess' \in [Procs -> Session] /\ pc' = [pc EXCEPT ![p] = "sending"]
          /\ \A q \in Procs \ {p} : sess'[q] = sess[q]
          /\ sess'[p].ex = 0
      BY <2>1, BeginJobType
    <2>3. pc'[p] = "sending" /\ \A q \in Procs \ {p} : pc'[q] = pc[q]
      BY <2>2 DEF TypeInv, TypeOK
    <2>4. IdsStay
      BY <1>1, <2>2 DEF IdsStay
    <2>5. RepliesStay
      BY <2>2, <2>3 DEF RepliesStay
    <2> QED BY <1>1, <1>2, <2>4, <2>5 DEF Quiet, JobsStay
  <1>4. CASE ConsumeIgnored(p) \/ ConsumeDeferred(p) \/ ConsumeRefused(p)
    <2>1. UNCHANGED <<pc, sess>>
      BY <1>4 DEF ConsumeIgnored, ConsumeDeferred, ConsumeRefused, Sessions
    <2> QED BY <1>1, <1>2, <2>1, QuietElsewhere
  <1> QED BY <1>3, <1>4 DEF Take

LEMMA EndQuiet ==
    ASSUME TypeInv, NEW p \in Procs, EndSession(p), UNCHANGED <<exch, jobRow, orders, recon>>
    PROVE  Quiet
  <1>1. /\ Idle(p) \in Session /\ Idle(p).ex = 0 /\ "idle" \in Steps
        /\ sess' = [sess EXCEPT ![p] = Idle(p)] /\ pc' = [pc EXCEPT ![p] = "idle"]
    BY IdleType DEF EndSession, Idle, Steps
  <1> QED BY <1>1, SameExchKept, QuietSession

LEMMA FailingQuiet ==
    ASSUME TypeInv, NEW p \in Procs, NEW s \in Session, ToFailing(p, s),
           s.job = sess[p].job, s.ex = sess[p].ex, UNCHANGED <<exch, jobRow, orders, recon>>
    PROVE  Quiet
  <1>1. "failing" \in Steps
    BY DEF Steps
  <1> QED BY <1>1, FailingSession, SameExchKept, QuietSession

\* The request to the exchange: only an accepted one brings an id and a status.
LEMMA RequestOutcome ==
    ASSUME TypeInv, IdInv, OutcomeInv, NEW p \in Procs, Request(p)
    PROVE  IdInv' /\ OutcomeInv'
  <1>0. sess[p] \in Session /\ sess \in [Procs -> Session] /\ pc \in [Procs -> Steps]
    BY DEF TypeInv, TypeOK
  <1>1. pc[p] = "sending" /\ sess[p].job \in Jobs
    BY DEF Request, BalanceCheckFails, RequestLost, ExchangeRejects,
           ExchangeAccepts, ReplyLost, TypeInv, BusyHasJob
  <1>2. CASE BalanceCheckFails(p) \/ ExchangeRejects(p)
    <2>1. ToFailing(p, sess[p]) /\ UNCHANGED <<exch, jobRow, orders, recon>>
      BY <1>2 DEF BalanceCheckFails, ExchangeRejects
    <2> QED BY <1>0, <2>1, FailingQuiet, QuietInv
  <1>3. ASSUME NoReply(p), ExchKept, UNCHANGED <<jobRow, orders, recon>>
        PROVE  IdInv' /\ OutcomeInv'
    <2>1. PICK t \in Session, step \in {"sending", "failing"} :
             /\ sess' = [sess EXCEPT ![p] = t] /\ pc' = [pc EXCEPT ![p] = step]
             /\ t.job = sess[p].job /\ t.ex = sess[p].ex
      BY <1>1, <1>3, NoReplyType
    <2>2. step \in Steps /\ step \notin {"replied", "applied"}
      BY DEF Steps
    <2>3. Quiet
      BY <1>3, <2>1, <2>2, QuietSession
    <2> QED BY <2>3, QuietInv
  <1>4. CASE RequestLost(p)
    <2>1. NoReply(p) /\ UNCHANGED <<exch, jobRow, orders, recon>>
      BY <1>4 DEF RequestLost
    <2> QED BY <1>3, <2>1, SameExchKept
  <1>5. ASSUME NEW s \in Reported, ReplyLost(p, s) PROVE IdInv' /\ OutcomeInv'
    <2>1. NoReply(p) /\ Accept(sess[p].job, s) /\ UNCHANGED <<jobRow, orders, recon>>
      BY <1>5 DEF ReplyLost
    <2>2. ExchKept
      BY <1>1, <2>1, AcceptKept
    <2> QED BY <1>3, <2>1, <2>2
  <1>6. ASSUME NEW s \in Reported, ExchangeAccepts(p, s) PROVE IdInv' /\ OutcomeInv'
    <2>1. PICK n \in Nat : n = Len(exch) + 1
      BY TypeFacts
    <2> DEFINE t == [sess[p] EXCEPT !.attempt = 0, !.status = s, !.ex = n]
    <2>2. sess' = [sess EXCEPT ![p] = t]
      BY <1>6, <2>1, Zenon DEF ExchangeAccepts
    <2>3. t \in Session /\ t.job = sess[p].job /\ t.ex = n /\ t.status = s
      BY <1>0, StateFacts DEF Session
    <2> HIDE DEF t
    <2>4. /\ Accept(sess[p].job, s) /\ pc' = [pc EXCEPT ![p] = "replied"]
          /\ UNCHANGED <<jobRow, orders, recon>>
      BY <1>6 DEF ExchangeAccepts
    <2>5. PICK k \in Jobs : k = sess[p].job
      BY <1>1
    <2>6. IdInv'
      BY <1>1, <2>1, <2>2, <2>3, <2>4, AcceptIds
    <2>7. ExchKept /\ (Backed(k, s))'
      BY <2>4, <2>5, AcceptKept
    <2>8. /\ sess'[p].job = k /\ sess'[p].status = s
          /\ \A q \in Procs \ {p} : sess'[q] = sess[q] /\ pc'[q] = pc[q]
      BY <1>0, <2>2, <2>3, <2>4, <2>5
    <2>9. ReplyBacked'
      BY <2>7, <2>8, KeptFacts DEF OutcomeInv, ReplyBacked
    <2>10. SeenBacked' /\ OutcomeBacked'
      BY <2>4, <2>7, StaySeen, StayOutcome DEF OutcomeInv, JobsStay
    <2> QED BY <2>6, <2>9, <2>10 DEF OutcomeInv
  <1> QED BY <1>2, <1>4, <1>5, <1>6 DEF Request

LEMMA LatencyQuiet ==
    ASSUME TypeInv, NEW p \in Procs, LatencyAlert(p)
    PROVE  Quiet
  <1> DEFINE j == sess[p].job
             c == sess[p].col
             o == [state |-> "CREATED", ext |-> 0]
  <1>1. /\ pc[p] = "replied" /\ sess' = [sess EXCEPT ![p] = Refreshed(p)] /\ pc' = pc
        /\ orders' = orders \/ orders' = [orders EXCEPT ![j][c] = o]
        /\ UNCHANGED <<jobRow, exch, recon>>
    BY DEF LatencyAlert
  <1>2. j \in Jobs /\ c \in Procs
    <2>1. sess[p] \in Session
      BY TypeFacts
    <2> QED BY <1>1, <2>1 DEF TypeInv, BusyHasJob, Session
  <1>3. /\ Refreshed(p) \in Session /\ Refreshed(p).job = sess[p].job
        /\ Refreshed(p).ex = sess[p].ex /\ Refreshed(p).status = sess[p].status
    BY <1>1, RefreshedType
  <1>4. \A q \in Procs : /\ sess'[q].ex = sess[q].ex /\ sess'[q].job = sess[q].job
                         /\ sess'[q].status = sess[q].status
    BY <1>1, <1>3 DEF TypeInv, TypeOK
  <1>5. o \in OrderRow /\ o.ext = 0 /\ o.ext \in 0..Len(exch)
    BY TypeFacts, StateFacts DEF OrderRow
  <1> HIDE DEF o
  <1>6. \A k \in Jobs, q \in Procs : orders'[k][q] = o \/ orders'[k][q] = orders[k][q]
    <2>1. CASE orders' = orders
      BY <2>1
    <2>2. CASE orders' = [orders EXCEPT ![j][c] = o]
      <3>1. PICK k \in Jobs, q \in Procs : k = j /\ q = c
        BY <1>2
      <3> HIDE DEF j, c
      <3>2. orders' = [orders EXCEPT ![k][q] = o]
        BY <2>2, <3>1
      <3> QED BY <1>5, <3>2, OrderWriteType
    <2> QED BY <1>1, <2>1, <2>2
  <1>7. IdsStay
    BY <1>4, <1>5, <1>6 DEF IdsStay
  <1>8. RepliesStay
    BY <1>1, <1>4 DEF RepliesStay
  <1> QED BY <1>1, <1>7, <1>8, SameExchKept DEF Quiet, JobsStay

LEMMA ApplyQuiet ==
    ASSUME TypeInv, NEW p \in Procs, ApplyResult(p)
    PROVE  Quiet
  <1>1. pc[p] = "replied" /\ UNCHANGED <<exch, jobRow, orders, recon>>
    BY DEF ApplyResult
  <1>2. sess[p] \in Session /\ sess \in [Procs -> Session] /\ sess[p].job \in Jobs
    BY <1>1 DEF TypeInv, TypeOK, BusyHasJob
  <1>3. CASE CanApply(sess[p].ostate, sess[p].status)
    <2> DEFINE n == IF sess[p].status = "FILLED" THEN position[UserOf[sess[p].job]] ELSE 0
               t == [sess[p] EXCEPT !.pos = n]
    <2>1. n \in Nat
      BY <1>2, ConstantsAssumption DEF TypeInv, TypeOK
    <2>2. sess' = [sess EXCEPT ![p] = t] /\ pc' = [pc EXCEPT ![p] = "applied"]
      BY <1>2, <1>3 DEF ApplyResult
    <2> HIDE DEF n
    <2>3. /\ t \in Session /\ t.job = sess[p].job /\ t.ex = sess[p].ex
          /\ t.status = sess[p].status
      BY <1>2, <2>1 DEF Session
    <2> HIDE DEF t
    <2>4. "applied" \in Steps
      BY DEF Steps
    <2> QED BY <1>1, <2>2, <2>3, <2>4, SameExchKept, QuietSession
  <1>4. CASE ~CanApply(sess[p].ostate, sess[p].status)
    <2>1. ToFailing(p, sess[p])
      BY <1>4 DEF ApplyResult
    <2> QED BY <1>1, <1>2, <2>1, FailingQuiet
  <1> QED BY <1>3, <1>4

\* The except block closes jobs as FAILED only.
LEMMA FailureOutcome ==
    ASSUME TypeInv, IdInv, OutcomeInv, NEW p \in Procs, HandleFailure(p)
    PROVE  IdInv' /\ OutcomeInv'
  <1>0. PICK o \in OrderRow, r \in JobRow, t \in Session : FailureWrites(p, o, r, t)
    BY HandleFailureRows
  <1>1. /\ orders' = [orders EXCEPT ![sess[p].job][sess[p].col] = o]
        /\ o.ext \in {sess[p].ex, orders[sess[p].job][sess[p].col].ext}
        /\ jobRow' = [jobRow EXCEPT ![sess[p].job] = r]
        /\ r.state \in {jobRow[sess[p].job].state, "FAILED"}
        /\ sess' = [sess EXCEPT ![p] = t]
        /\ t.job = sess[p].job /\ t.ex = 0
    BY <1>0 DEF FailureWrites, Written
  <1>2. /\ pc[p] = "failing" /\ pc' = [pc EXCEPT ![p] = "failed"]
        /\ UNCHANGED <<exch, recon>>
    BY DEF HandleFailure
  <1>3. /\ sess[p] \in Session /\ sess \in [Procs -> Session] /\ pc \in [Procs -> Steps]
        /\ jobRow \in [Jobs -> JobRow] /\ sess[p].job \in Jobs
        /\ jobRow[sess[p].job].state # Absent
    BY <1>2 DEF TypeInv, TypeOK, BusyHasJob
  <1>4. sess[p].col \in Procs
    BY <1>3 DEF Session
  <1>6. /\ orders'[sess[p].job][sess[p].col] = o
        /\ \A k \in Jobs, q \in Procs : k # sess[p].job \/ q # sess[p].col =>
              orders'[k][q] = orders[k][q]
    <2>1. PICK i \in Jobs, c \in Procs : i = sess[p].job /\ c = sess[p].col
      BY <1>3, <1>4
    <2>2. orders' = [orders EXCEPT ![i][c] = o]
      BY <1>1, <2>1
    <2>3. orders \in [Jobs -> [Procs -> OrderRow]]
      BY DEF TypeInv, TypeOK
    <2>4. /\ orders'[i][c] = o
          /\ \A k \in Jobs, q \in Procs : k # i \/ q # c => orders'[k][q] = orders[k][q]
      BY <2>2, <2>3
    <2> QED BY <2>1, <2>4
  <1>7. /\ sess'[p].ex = 0 /\ pc'[p] = "failed"
        /\ \A q \in Procs \ {p} : sess'[q] = sess[q] /\ pc'[q] = pc[q]
    BY <1>1, <1>2, <1>3
  <1>8. IdInv'
    BY <1>1, <1>2, <1>3, <1>4, <1>6, <1>7, WriteIds
  <1>9. RepliesStay
    BY <1>7 DEF RepliesStay
  <1>10. JobsStay
    <2>1. \A k \in Jobs : jobRow'[k].state \in {jobRow[k].state, "FAILED"}
      BY <1>1, <1>3
    <2> QED BY <2>1 DEF JobsStay, Closed
  <1>11. ReplyBacked' /\ SeenBacked' /\ OutcomeBacked'
    BY <1>2, <1>9, <1>10, SameExchKept, StayReply, StaySeen, StayOutcome DEF OutcomeInv
  <1> QED BY <1>8, <1>11 DEF OutcomeInv

LEMMA FinalClosed ==
    ASSUME NEW s \in ExchangeStatuses, FinalState(s) \in Closed
    PROVE  s = FinalState(s)
  BY DEF FinalState, ExchangeStatuses, Closed

\* The commit of a result: the id goes to the order row, the status to the job.
LEMMA ResultOutcome ==
    ASSUME TypeInv, IdInv, OutcomeInv, NEW p \in Procs, CommitResult(p)
    PROVE  IdInv' /\ OutcomeInv'
  <1>0. PICK o \in OrderRow, r \in JobRow, t \in Session : CommitWrites(p, o, r, t)
    BY CommitResultRows
  <1>1. /\ orders' = [orders EXCEPT ![sess[p].job][sess[p].col] = o]
        /\ o.ext = sess[p].ex
        /\ jobRow' = [jobRow EXCEPT ![sess[p].job] = r]
        /\ r.state \in {jobRow[sess[p].job].state, FinalState(sess[p].status)}
        /\ sess' = [sess EXCEPT ![p] = t]
        /\ t.ex = 0
    BY <1>0 DEF CommitWrites, Written
  <1>2. /\ pc[p] = "applied" /\ pc' = [pc EXCEPT ![p] = "committed"]
        /\ UNCHANGED <<exch, recon>>
    BY DEF CommitResult
  <1>3. /\ sess[p] \in Session /\ sess \in [Procs -> Session] /\ pc \in [Procs -> Steps]
        /\ jobRow \in [Jobs -> JobRow] /\ sess[p].job \in Jobs
    BY <1>2 DEF TypeInv, TypeOK, BusyHasJob
  <1>4. PICK i \in Jobs, c \in Procs, s \in ExchangeStatuses :
           i = sess[p].job /\ c = sess[p].col /\ s = sess[p].status
    BY <1>3 DEF Session
  <1>6. /\ orders'[i][c] = o
        /\ \A k \in Jobs, q \in Procs : k # i \/ q # c => orders'[k][q] = orders[k][q]
    <2>1. orders' = [orders EXCEPT ![i][c] = o]
      BY <1>1, <1>4
    <2>2. orders \in [Jobs -> [Procs -> OrderRow]]
      BY DEF TypeInv, TypeOK
    <2> QED BY <2>1, <2>2
  <1>7. /\ sess'[p].ex = 0 /\ pc'[p] = "committed"
        /\ \A q \in Procs \ {p} : sess'[q] = sess[q] /\ pc'[q] = pc[q]
    BY <1>1, <1>2, <1>3
  <1>8. IdInv'
    BY <1>1, <1>2, <1>4, <1>6, <1>7, WriteIds
  <1>9. RepliesStay
    BY <1>7 DEF RepliesStay
  <1>10. ReplyBacked' /\ SeenBacked' /\ ExchKept
    BY <1>2, <1>9, SameExchKept, StayReply, StaySeen DEF OutcomeInv
  <1>11. /\ jobRow'[i].state \in {jobRow[i].state, FinalState(s)}
         /\ \A k \in Jobs \ {i} : jobRow'[k] = jobRow[k]
    BY <1>1, <1>3, <1>4
  <1>12. FinalState(s) \in Closed => Backed(i, FinalState(s))
    <2>1. SUFFICES ASSUME FinalState(s) \in Closed PROVE Backed(i, FinalState(s))
      OBVIOUS
    <2>2. s = FinalState(s) /\ s \in Closed
      BY <2>1, FinalClosed
    <2>3. Backed(i, s)
      BY <1>2, <1>4, <2>2 DEF OutcomeInv, ReplyBacked
    <2> QED BY <2>2, <2>3
  <1>13. OutcomeBacked'
    <2> SUFFICES ASSUME NEW k \in Jobs, NEW x \in Closed, jobRow'[k].state = x
                 PROVE  (Backed(k, x))'
      BY DEF OutcomeBacked
    <2>1. Backed(k, x)
      BY <1>11, <1>12 DEF OutcomeInv, OutcomeBacked
    <2> QED BY <1>10, <2>1, KeptFacts
  <1> QED BY <1>8, <1>10, <1>13 DEF OutcomeInv

LEMMA SettleOutcome ==
    ASSUME TypeInv, IdInv, OutcomeInv, NEW p \in Procs, Settle(p) \/ Crash(p)
    PROVE  IdInv' /\ OutcomeInv'
  <1>1. CASE LatencyAlert(p)
    BY <1>1, LatencyQuiet, QuietInv
  <1>2. CASE ApplyResult(p)
    BY <1>2, ApplyQuiet, QuietInv
  <1>3. CASE CommitResult(p)
    BY <1>3, ResultOutcome
  <1>4. CASE CommitResultConflict(p) \/ AfterCommit(p) \/ Requeue(p) \/ CloseFailed(p)
             \/ Crash(p)
    <2>1. EndSession(p) /\ UNCHANGED <<exch, jobRow, orders, recon>>
      BY <1>4 DEF CommitResultConflict, AfterCommit, Requeue, CloseFailed, Crash
    <2> QED BY <2>1, EndQuiet, QuietInv
  <1>5. CASE AfterCommitRaises(p)
    <2>1. /\ pc[p] = "committed" /\ ToFailing(p, Refreshed(p))
          /\ UNCHANGED <<exch, jobRow, orders, recon>>
      BY <1>5 DEF AfterCommitRaises
    <2>2. /\ Refreshed(p) \in Session /\ Refreshed(p).job = sess[p].job
          /\ Refreshed(p).ex = sess[p].ex
      BY <2>1, RefreshedType
    <2> QED BY <2>1, <2>2, FailingQuiet, QuietInv
  <1>6. CASE HandleFailure(p)
    BY <1>6, FailureOutcome
  <1> QED BY <1>1, <1>2, <1>3, <1>4, <1>5, <1>6 DEF Settle

\* Reconciliation: the status fetched is the status of an order of the job,
\* because the id in the row is one of the job's.
LEMMA ReadOutcome ==
    ASSUME TypeInv, IdInv, OutcomeInv, NEW c \in Reconcilers, ReconcileRead(c)
    PROVE  IdInv' /\ OutcomeInv'
  <1>1. UNCHANGED <<jobRow, orders, exch, pc, sess>>
    BY DEF ReconcileRead, Sessions
  <1>2. ExchKept /\ IdsStay /\ RepliesStay /\ JobsStay
    BY <1>1, SameExchKept DEF IdsStay, RepliesStay, JobsStay
  <1>3. IdInv' /\ ReplyBacked' /\ OutcomeBacked'
    BY <1>2, StayIds, StayReply, StayOutcome DEF OutcomeInv
  <1>4. PICK S \in SUBSET Mismatched :
         recon' = [recon EXCEPT ![c] =
                     [running |-> TRUE,
                      seen    |-> [j \in Jobs |-> [p \in Procs |->
                                     IF <<j, p>> \in S
                                     THEN exch[orders[j][p].ext].status
                                     ELSE Absent]],
                      jstate  |-> [j \in Jobs |-> jobRow[j].state]]]
    BY DEF ReconcileRead
  <1> DEFINE x == [j \in Jobs |-> [p \in Procs |->
                     IF <<j, p>> \in S THEN exch[orders[j][p].ext].status ELSE Absent]]
             z == [running |-> TRUE, seen |-> x, jstate |-> [j \in Jobs |-> jobRow[j].state]]
  <1>5. ASSUME NEW j \in Jobs, NEW p \in Procs, NEW s \in Closed, x[j][p] = s
        PROVE  Backed(j, s)
    <2>1. <<j, p>> \in S /\ exch[orders[j][p].ext].status = s
      BY <1>5 DEF Closed, Absent
    <2>2. orders[j][p].ext \in Nat \ {0}
      BY <2>1, TypeFacts DEF Mismatched
    <2>3. OrderOf(j, orders[j][p].ext)
      BY <2>2 DEF IdInv, IdsOwned
    <2> QED BY <2>1, <2>3 DEF OrderOf, Backed
  <1>6. z.seen = x /\ recon' = [recon EXCEPT ![c] = z]
    BY <1>4
  <1> HIDE DEF x, z
  <1>7. \A d \in Reconcilers : recon'[d].seen = x \/ recon'[d] = recon[d]
    BY <1>6 DEF TypeInv, TypeOK
  <1>8. SeenBacked'
    <2> SUFFICES ASSUME NEW d \in Reconcilers, NEW j \in Jobs, NEW p \in Procs,
                        NEW s \in Closed, recon'[d].seen[j][p] = s
                 PROVE  (Backed(j, s))'
      BY DEF SeenBacked
    <2>1. Backed(j, s)
      BY <1>5, <1>7 DEF OutcomeInv, SeenBacked
    <2> QED BY <1>2, <2>1, KeptFacts
  <1> QED BY <1>3, <1>8 DEF OutcomeInv

LEMMA CommitOutcome ==
    ASSUME TypeInv, IdInv, OutcomeInv, NEW c \in Reconcilers, ReconcileCommit(c)
    PROVE  IdInv' /\ OutcomeInv'
  <1>1. recon' = [recon EXCEPT ![c] = NotRunning] /\ UNCHANGED <<exch, pc, sess>>
    BY DEF ReconcileCommit, Sessions
  <1>2. ExchKept /\ RepliesStay
    BY <1>1, SameExchKept DEF RepliesStay
  <1>3. IdsStay
    BY <1>1, ReconcileCommitRows DEF IdsStay
  <1>4. IdInv' /\ ReplyBacked'
    BY <1>2, <1>3, StayIds, StayReply DEF OutcomeInv
  <1>5. SeenBacked'
    <2>1. \A j \in Jobs, p \in Procs : NotRunning.seen[j][p] \notin Closed
      BY DEF NotRunning, Closed, Absent
    <2>2. \A d \in Reconcilers : recon'[d] = NotRunning \/ recon'[d] = recon[d]
      BY <1>1 DEF TypeInv, TypeOK
    <2> QED BY <1>2, <2>1, <2>2, KeptFacts DEF OutcomeInv, SeenBacked
  <1>6. OutcomeBacked'
    <2> SUFFICES ASSUME NEW j \in Jobs, NEW s \in Closed, jobRow'[j].state = s
                 PROVE  (Backed(j, s))'
      BY DEF OutcomeBacked
    <2>1. CASE jobRow'[j].state = jobRow[j].state
      BY <1>2, <2>1, KeptFacts DEF OutcomeInv, OutcomeBacked
    <2>2. CASE \E p \in Procs : recon[c].seen[j][p] = s
      BY <1>2, <2>2, KeptFacts DEF OutcomeInv, SeenBacked
    <2> QED BY <2>1, <2>2, ReconcileCommitRows
  <1> QED BY <1>4, <1>5, <1>6 DEF OutcomeInv

-----------------------------------------------------------------------------

LEMMA InitOutcome == Init => IdInv /\ OutcomeInv
  <1> SUFFICES ASSUME Init PROVE IdInv /\ OutcomeInv
    OBVIOUS
  <1>1. /\ \A p \in Procs : sess[p].ex = 0 /\ pc[p] = "idle"
        /\ \A j \in Jobs, p \in Procs : orders[j][p].ext = 0
    BY DEF Init, Idle, NoOrder
  <1>2. \A j \in Jobs : jobRow[j].state \notin Closed
    BY DEF Init, NoJob, Closed, Absent
  <1>3. \A c \in Reconcilers, j \in Jobs, p \in Procs : recon[c].seen[j][p] \notin Closed
    BY DEF Init, NotRunning, Closed, Absent
  <1>4. IdInv
    BY <1>1 DEF IdInv, IdsOwned, IdsUnique
  <1> QED BY <1>1, <1>2, <1>3, <1>4 DEF OutcomeInv, ReplyBacked, SeenBacked, OutcomeBacked

LEMMA NextOutcome ==
    TypeInv /\ IdInv /\ OutcomeInv /\ [Next]_vars => IdInv' /\ OutcomeInv'
  <1> SUFFICES ASSUME TypeInv, IdInv, OutcomeInv, [Next]_vars
               PROVE  IdInv' /\ OutcomeInv'
    OBVIOUS
  <1>1. CASE \E j \in Jobs : Submit(j)
    BY <1>1, SubmitQuiet, QuietInv
  <1>2. CASE \E p \in Procs : Take(p) \/ Request(p) \/ Settle(p) \/ Crash(p)
    BY <1>2, TakeQuiet, QuietInv, RequestOutcome, SettleOutcome
  <1>3. CASE \E c \in Reconcilers : ReconcileRead(c) \/ ReconcileCommit(c)
    BY <1>3, ReadOutcome, CommitOutcome
  <1>4. CASE \E e \in 1..Len(exch), s \in Reported : ExchangeProgress(e, s)
    <2>1. PICK e \in 1..Len(exch), s \in Reported : ExchangeProgress(e, s)
      BY <1>4
    <2>2. ExchKept /\ UNCHANGED <<jobRow, orders, pc, sess, recon>>
      BY <2>1, ProgressKept, ProgressFacts
    <2> QED BY <2>2, QuietElsewhere, QuietInv
  <1>5. CASE SetVenue \/ ActivateKillSwitch \/ DeactivateKillSwitch \/ UNCHANGED vars
    <2>1. UNCHANGED <<exch, jobRow, orders, pc, sess, recon>>
      BY <1>5 DEF SetVenue, ActivateKillSwitch, DeactivateKillSwitch, vars, Sessions
    <2> QED BY <2>1, SameExchKept, QuietElsewhere, QuietInv
  <1> QED BY <1>1, <1>2, <1>3, <1>4, <1>5 DEF Next

LEMMA OutcomeInvariant == Spec => [](TypeInv /\ IdInv /\ OutcomeInv)
  BY InitTypeInv, NextTypeInv, InitOutcome, NextOutcome, PTL DEF Spec

\* A job is FILLED or CANCELED in the database only if the exchange filled or
\* canceled an order of that job, for any number of workers, go-live runs and
\* reconciliations whose replies and reads are as late as they like.
THEOREM Outcome == Spec => []OutcomeTruthful
  <1>1. OutcomeInv => OutcomeTruthful
    BY DEF OutcomeInv, OutcomeBacked, Backed, Closed, OutcomeTruthful
  <1> QED BY <1>1, OutcomeInvariant, PTL

\* Every external order id stored in an order row is an exchange order of the
\* row's job and of no other row, also where two sessions execute one job and
\* each commits into the row the other created.
THEOREM Traceable == Spec => []OrderRowsTraceable
  <1>1. TypeInv /\ IdInv => OrderRowsTraceable
    <2> SUFFICES ASSUME TypeInv, IdInv PROVE OrderRowsTraceable
      OBVIOUS
    <2>1. \A j \in Jobs, p \in Procs : orders[j][p].ext # 0 =>
             orders[j][p].ext \in 1..Len(exch) /\ exch[orders[j][p].ext].job = j
      BY TypeFacts DEF IdInv, IdsOwned, OrderOf
    <2> QED BY <2>1, TypeFacts DEF IdInv, IdsUnique, OrderRowsTraceable
  <1> QED BY <1>1, OutcomeInvariant, PTL

-----------------------------------------------------------------------------
(* What a position contains *)

\* A reply about order e is in hand and not committed.
InHand(e) == \E p \in Procs : pc[p] \in {"replied", "applied"} /\ sess[p].ex = e

\* The filled orders of u that no session is still going to book.
Settled(u) == {e \in FilledOrders(u) : ~InHand(e)}

Booked(u) == UNION {Units(e) : e \in Settled(u)}

\* What a reply says of a fill is true, and stays true until it is booked.
RepliesTrue ==
    \A p \in Procs : pc[p] \in {"replied", "applied"} =>
        /\ sess[p].ex # 0
        /\ sess[p].status = "FILLED" => exch[sess[p].ex].status = "FILLED"

\* The row, and every copy of it a session is about to add to, holds at most
\* what was filled by orders that are settled.
RowsBooked == \A u \in Users : position[u] <= Cardinality(Booked(u))

CopiesBooked ==
    \A p \in Procs, u \in Users :
        pc[p] = "applied" /\ sess[p].status = "FILLED" /\ UserOf[sess[p].job] = u
           => sess[p].pos <= Cardinality(Booked(u))

BookInv == RepliesTrue /\ RowsBooked /\ CopiesBooked

LEMMA UnitsFinite ==
    ASSUME TypeInv, NEW e \in 1..Len(exch)
    PROVE  IsFiniteSet(Units(e)) /\ Cardinality(Units(e)) = SizeOf[exch[e].job]
  <1>1. PICK n \in Nat \ {0} : n = SizeOf[exch[e].job]
    <2>1. exch[e].job \in Jobs
      BY TypeFacts DEF ExOrder
    <2> QED BY <2>1, ConstantsAssumption
  <1>2. IsFiniteSet(1..n) /\ Cardinality(1..n) = n
    <2>1. 1 \in Int /\ n \in Int
      BY <1>1
    <2>2. /\ IsFiniteSet(1..n)
          /\ Cardinality(1..n) = IF 1 > n THEN 0 ELSE n - 1 + 1
      BY <2>1, FS_Interval
    <2> QED BY <1>1, <2>2
  <1>3. IsFiniteSet({e}) /\ Cardinality({e}) = 1
    BY FS_Singleton
  <1>4. /\ IsFiniteSet({e} \X (1..n))
        /\ Cardinality({e} \X (1..n)) = Cardinality({e}) * Cardinality(1..n)
    BY <1>2, <1>3, FS_Product
  <1>5. Cardinality({e} \X (1..n)) = n
    BY <1>1, <1>2, <1>3, <1>4
  <1> QED BY <1>1, <1>4, <1>5 DEF Units

LEMMA UnionFinite ==
    ASSUME TypeInv, NEW S, S \subseteq 1..Len(exch)
    PROVE  IsFiniteSet(UNION {Units(e) : e \in S})
  <1> DEFINE T == {Units(e) : e \in S}
             f == [e \in S |-> Units(e)]
  <1>1. IsFiniteSet(1..Len(exch))
    <2>1. Len(exch) \in Int
      BY TypeFacts
    <2> QED BY <2>1, FS_Interval
  <1>2. IsFiniteSet(S)
    BY <1>1, FS_Subset
  <1>3. f \in Surjection(S, T)
    BY DEF Surjection
  <1>4. IsFiniteSet(T)
    <2> HIDE DEF f, T
    <2> QED BY <1>2, <1>3, FS_Surjection
  <1>5. \A X \in T : IsFiniteSet(X)
    BY UnitsFinite
  <1> HIDE DEF T
  <1>6. IsFiniteSet(UNION T)
    BY <1>4, <1>5, FS_UNION
  <1> QED BY <1>6 DEF T

\* Everything the exchange filled for u is finite, and the booked part of it.
LEMMA FilledFinite ==
    TypeInv => \A u \in Users :
        /\ IsFiniteSet(Booked(u)) /\ Cardinality(Booked(u)) \in Nat
        /\ FilledSize(u) \in Nat /\ Cardinality(Booked(u)) <= FilledSize(u)
  <1> SUFFICES ASSUME TypeInv, NEW u \in Users
               PROVE  /\ IsFiniteSet(Booked(u)) /\ Cardinality(Booked(u)) \in Nat
                      /\ FilledSize(u) \in Nat /\ Cardinality(Booked(u)) <= FilledSize(u)
    OBVIOUS
  <1> DEFINE All == UNION {Units(e) : e \in FilledOrders(u)}
  <1>1. FilledOrders(u) \subseteq 1..Len(exch)
    BY DEF FilledOrders
  <1>2. IsFiniteSet(All)
    BY <1>1, UnionFinite
  <1>3. Booked(u) \subseteq All
    BY DEF Booked, Settled
  <1>4. FilledSize(u) = Cardinality(All)
    BY DEF FilledSize
  <1> HIDE DEF All
  <1>5. /\ IsFiniteSet(Booked(u)) /\ Cardinality(Booked(u)) <= Cardinality(All)
    BY <1>2, <1>3, FS_Subset
  <1> QED BY <1>2, <1>4, <1>5, FS_CardinalityType

AllBookedFinite == \A u \in Users : IsFiniteSet(Booked(u)) /\ Cardinality(Booked(u)) \in Nat

LEMMA BookedFinite == TypeInv => AllBookedFinite
  BY FilledFinite DEF AllBookedFinite

\* No order comes back into a hand.
HandsKept == \A e \in 1..Len(exch) : InHand(e)' => InHand(e)

LEMMA SettledStays ==
    ASSUME TypeInv, ExchKept, HandsKept, NEW u \in Users
    PROVE  Booked(u) \subseteq Booked(u)'
  <1> SUFFICES ASSUME NEW e \in Settled(u)
               PROVE  e \in Settled(u)' /\ Units(e) = Units(e)'
    BY Zenon DEF Booked
  <1>1. /\ e \in 1..Len(exch) /\ UserOf[exch[e].job] = u /\ exch[e].status = "FILLED"
        /\ ~InHand(e)
    BY DEF Settled, FilledOrders
  <1>2. /\ e \in 1..Len(exch') /\ exch'[e].job = exch[e].job /\ exch'[e].status = "FILLED"
    BY <1>1 DEF ExchKept, Closed
  <1>3. ~InHand(e)'
    BY <1>1 DEF HandsKept
  <1>4. e \in Settled(u)'
    BY <1>1, <1>2, <1>3 DEF Settled, FilledOrders
  <1>5. Units(e) = Units(e)'
    BY <1>2 DEF Units
  <1> QED BY <1>4, <1>5

LEMMA BookedGrows ==
    ASSUME TypeInv, TypeInv', ExchKept, HandsKept, NEW u \in Users
    PROVE  /\ Cardinality(Booked(u)) \in Nat /\ Cardinality(Booked(u)') \in Nat
           /\ Cardinality(Booked(u)) <= Cardinality(Booked(u)')
  <1>1. /\ IsFiniteSet(Booked(u)) /\ Cardinality(Booked(u)) \in Nat
    BY FilledFinite
  <1>2. /\ IsFiniteSet(Booked(u)') /\ Cardinality(Booked(u)') \in Nat
    <2>1. TypeInv' => AllBookedFinite'
      BY BookedFinite, PTL
    <2> QED BY <2>1 DEF AllBookedFinite
  <1>3. Booked(u) \subseteq Booked(u)'
    BY SettledStays
  <1> QED BY <1>1, <1>2, <1>3, FS_Subset

-----------------------------------------------------------------------------
(* How a step changes what is booked *)

\* A step that brings no reply and books nothing: a session keeps its reply,
\* and the copy of the position it goes with is the old one or read just now.
RepliesKept ==
    \A q \in Procs : pc'[q] \in {"replied", "applied"} =>
        /\ pc[q] \in {"replied", "applied"}
        /\ sess'[q].ex = sess[q].ex /\ sess'[q].job = sess[q].job
        /\ sess'[q].status = sess[q].status
        /\ pc'[q] = "applied" /\ sess[q].status = "FILLED" =>
              \/ pc[q] = "applied" /\ sess'[q].pos = sess[q].pos
              \/ sess'[q].pos = position[UserOf[sess[q].job]]

LEMMA KeptBook ==
    ASSUME TypeInv, TypeInv', BookInv, ExchKept, RepliesKept, position' = position
    PROVE  BookInv'
  <1>1. HandsKept
    BY DEF HandsKept, InHand, RepliesKept
  <1>2. \A u \in Users : /\ Cardinality(Booked(u)) \in Nat /\ Cardinality(Booked(u)') \in Nat
                         /\ Cardinality(Booked(u)) <= Cardinality(Booked(u)')
    BY <1>1, BookedGrows
  <1>3. /\ \A u \in Users : position[u] \in Nat
        /\ \A q \in Procs : sess[q].pos \in Nat /\ sess'[q].pos \in Nat
    BY DEF TypeInv, TypeOK, Session
  <1>4. RepliesTrue'
    <2> SUFFICES ASSUME NEW q \in Procs, pc'[q] \in {"replied", "applied"}
                 PROVE  /\ sess'[q].ex # 0
                        /\ sess'[q].status = "FILLED" => exch'[sess'[q].ex].status = "FILLED"
      BY DEF RepliesTrue
    <2>1. /\ sess'[q].ex = sess[q].ex /\ sess'[q].status = sess[q].status
          /\ sess[q].ex # 0
          /\ sess[q].status = "FILLED" => exch[sess[q].ex].status = "FILLED"
      BY DEF RepliesKept, BookInv, RepliesTrue
    <2>2. sess[q].ex \in 1..Len(exch)
      BY <2>1 DEF TypeInv, ExtInRange, ExchKept
    <2> QED BY <2>1, <2>2 DEF ExchKept, Closed
  <1>5. RowsBooked'
    <2> SUFFICES ASSUME NEW u \in Users PROVE position'[u] <= Cardinality(Booked(u)')
      BY DEF RowsBooked
    <2>1. position'[u] <= Cardinality(Booked(u))
      BY DEF BookInv, RowsBooked
    <2> QED BY <1>2, <1>3, <2>1
  <1>6. CopiesBooked'
    <2> SUFFICES ASSUME NEW q \in Procs, NEW u \in Users, pc'[q] = "applied",
                        sess'[q].status = "FILLED", UserOf[sess'[q].job] = u
                 PROVE  sess'[q].pos <= Cardinality(Booked(u)')
      BY DEF CopiesBooked
    <2>1. /\ sess[q].status = "FILLED" /\ UserOf[sess[q].job] = u
          /\ \/ pc[q] = "applied" /\ sess'[q].pos = sess[q].pos
             \/ sess'[q].pos = position[u]
      BY DEF RepliesKept
    <2>2. sess'[q].pos <= Cardinality(Booked(u))
      BY <2>1 DEF BookInv, RowsBooked, CopiesBooked
    <2> QED BY <1>2, <1>3, <2>2
  <1> QED BY <1>4, <1>5, <1>6 DEF BookInv

\* A session that goes on or ends without a new reply.
LEMMA SessionBook ==
    ASSUME TypeInv, TypeInv', BookInv, NEW p \in Procs, NEW t \in Session, NEW step \in Steps,
           sess' = [sess EXCEPT ![p] = t], pc' = [pc EXCEPT ![p] = step],
           step \notin {"replied", "applied"}, ExchKept, position' = position
    PROVE  BookInv'
  <1>1. /\ sess'[p] = t /\ pc'[p] = step
        /\ \A q \in Procs \ {p} : sess'[q] = sess[q] /\ pc'[q] = pc[q]
    BY DEF TypeInv, TypeOK
  <1>2. RepliesKept
    BY <1>1 DEF RepliesKept
  <1> QED BY <1>2, KeptBook

LEMMA ElsewhereBook ==
    ASSUME TypeInv, TypeInv', BookInv, ExchKept, UNCHANGED <<position, pc, sess>>
    PROVE  BookInv'
  <1>1. RepliesKept
    BY DEF RepliesKept
  <1> QED BY <1>1, KeptBook

LEMMA SubmitBook ==
    ASSUME TypeInv, TypeInv', BookInv, NEW j \in Jobs, Submit(j)
    PROVE  BookInv'
  <1>1. UNCHANGED <<exch, position, pc, sess>>
    BY DEF Submit, InsertJob, RejectAudit, RejectJob, PushPayload, CommitEnqueue,
           AbortSubmit, Sessions
  <1> QED BY <1>1, SameExchKept, ElsewhereBook

LEMMA TakeBook ==
    ASSUME TypeInv, TypeInv', BookInv, NEW p \in Procs, Take(p)
    PROVE  BookInv'
  <1>1. UNCHANGED <<exch, position>>
    BY DEF Take, Consume, ConsumeIgnored, ConsumeDeferred, ConsumeRefused, DirectExecute
  <1>2. ExchKept
    BY <1>1, SameExchKept
  <1>3. CASE Consume(p) \/ \E j \in Jobs : DirectExecute(p, j)
    <2>1. PICK k \in Jobs : BeginJob(p, k)
      BY <1>3, QueueTail DEF Consume, DirectExecute, TypeInv, TypeOK, Payload
    <2>2. /\ sess' \in [Procs -> Session] /\ pc' = [pc EXCEPT ![p] = "sending"]
          /\ \A q \in Procs \ {p} : sess'[q] = sess[q]
      BY <2>1, BeginJobType
    <2>3. pc'[p] = "sending" /\ \A q \in Procs \ {p} : pc'[q] = pc[q]
      BY <2>2 DEF TypeInv, TypeOK
    <2>4. RepliesKept
      BY <2>2, <2>3 DEF RepliesKept
    <2> QED BY <1>1, <1>2, <2>4, KeptBook
  <1>4. CASE ConsumeIgnored(p) \/ ConsumeDeferred(p) \/ ConsumeRefused(p)
    <2>1. UNCHANGED <<pc, sess>>
      BY <1>4 DEF ConsumeIgnored, ConsumeDeferred, ConsumeRefused, Sessions
    <2> QED BY <1>1, <1>2, <2>1, ElsewhereBook
  <1> QED BY <1>3, <1>4 DEF Take

LEMMA FailingBook ==
    ASSUME TypeInv, TypeInv', BookInv, NEW p \in Procs, NEW s \in Session, ToFailing(p, s),
           UNCHANGED <<exch, position>>
    PROVE  BookInv'
  <1>1. "failing" \in Steps
    BY DEF Steps
  <1> QED BY <1>1, FailingSession, SameExchKept, SessionBook

\* An accepted request brings a reply about an order nobody has booked.
LEMMA AcceptBook ==
    ASSUME TypeInv, TypeInv', BookInv, NEW p \in Procs, NEW s \in Reported,
           ExchangeAccepts(p, s)
    PROVE  BookInv'
  <1>0. /\ sess[p] \in Session /\ sess \in [Procs -> Session] /\ pc \in [Procs -> Steps]
        /\ exch \in Seq(ExOrder) /\ s \in ExchangeStatuses
    BY StateFacts DEF TypeInv, TypeOK
  <1>1. PICK k \in Jobs : k = sess[p].job
    BY DEF ExchangeAccepts, TypeInv, BusyHasJob
  <1>2. PICK n \in Nat : n = Len(exch)
    BY TypeFacts
  <1>3. Accept(k, s) /\ UNCHANGED position
    BY <1>1 DEF ExchangeAccepts
  <1>4. exch'[n + 1] = [job |-> k, status |-> s]
    BY <1>0, <1>2, <1>3, AcceptType, Zenon
  <1>5. ExchKept
    BY <1>3, AcceptKept
  <1>6. /\ sess' = [sess EXCEPT ![p] = [@ EXCEPT !.attempt = 0, !.status = s, !.ex = n + 1]]
        /\ pc' = [pc EXCEPT ![p] = "replied"]
    BY <1>2 DEF ExchangeAccepts
  <1>7. /\ sess'[p].ex = n + 1 /\ sess'[p].status = s /\ pc'[p] = "replied"
        /\ \A q \in Procs \ {p} : sess'[q] = sess[q] /\ pc'[q] = pc[q]
    BY <1>0, <1>6 DEF Session
  <1>8. HandsKept
    <2>1. \A e \in 1..n : e # n + 1
      OBVIOUS
    <2> QED BY <1>2, <1>7, <2>1 DEF HandsKept, InHand
  <1>9. \A u \in Users : /\ Cardinality(Booked(u)) \in Nat /\ Cardinality(Booked(u)') \in Nat
                         /\ Cardinality(Booked(u)) <= Cardinality(Booked(u)')
    BY <1>5, <1>8, BookedGrows
  <1>10. RepliesTrue'
    <2> SUFFICES ASSUME NEW q \in Procs, pc'[q] \in {"replied", "applied"}
                 PROVE  /\ sess'[q].ex # 0
                        /\ sess'[q].status = "FILLED" => exch'[sess'[q].ex].status = "FILLED"
      BY DEF RepliesTrue
    <2>1. CASE q = p
      BY <1>4, <1>7, <2>1
    <2>2. CASE q # p
      <3>1. /\ sess'[q] = sess[q] /\ sess[q].ex # 0
            /\ sess[q].status = "FILLED" => exch[sess[q].ex].status = "FILLED"
        BY <1>7, <2>2 DEF BookInv, RepliesTrue
      <3>2. sess[q].ex \in 1..Len(exch)
        BY <3>1 DEF TypeInv, ExtInRange, ExchKept
      <3> QED BY <1>5, <3>1, <3>2 DEF ExchKept, Closed
    <2> QED BY <2>1, <2>2
  <1>11. RowsBooked'
    <2> SUFFICES ASSUME NEW u \in Users PROVE position'[u] <= Cardinality(Booked(u)')
      BY DEF RowsBooked
    <2>1. position'[u] <= Cardinality(Booked(u)) /\ position'[u] \in Nat
      BY <1>3 DEF BookInv, RowsBooked, TypeInv, TypeOK
    <2> QED BY <1>9, <2>1
  <1>12. CopiesBooked'
    <2> SUFFICES ASSUME NEW q \in Procs, NEW u \in Users, pc'[q] = "applied",
                        sess'[q].status = "FILLED", UserOf[sess'[q].job] = u
                 PROVE  sess'[q].pos <= Cardinality(Booked(u)')
      BY DEF CopiesBooked
    <2>1. sess'[q] = sess[q] /\ pc[q] = "applied"
      BY <1>7
    <2>2. sess'[q].pos <= Cardinality(Booked(u)) /\ sess'[q].pos \in Nat
      BY <2>1 DEF BookInv, CopiesBooked, TypeInv, TypeOK, Session
    <2> QED BY <1>9, <2>2
  <1> QED BY <1>10, <1>11, <1>12 DEF BookInv

LEMMA RequestBook ==
    ASSUME TypeInv, TypeInv', BookInv, NEW p \in Procs, Request(p)
    PROVE  BookInv'
  <1>0. sess[p] \in Session
    BY TypeFacts
  <1>1. pc[p] = "sending" /\ sess[p].job \in Jobs
    BY DEF Request, BalanceCheckFails, RequestLost, ExchangeRejects,
           ExchangeAccepts, ReplyLost, TypeInv, BusyHasJob
  <1>2. CASE BalanceCheckFails(p) \/ ExchangeRejects(p)
    <2>1. ToFailing(p, sess[p]) /\ UNCHANGED <<exch, position>>
      BY <1>2 DEF BalanceCheckFails, ExchangeRejects
    <2> QED BY <1>0, <2>1, FailingBook
  <1>3. ASSUME NoReply(p), ExchKept, position' = position PROVE BookInv'
    <2>1. PICK t \in Session, step \in {"sending", "failing"} :
             sess' = [sess EXCEPT ![p] = t] /\ pc' = [pc EXCEPT ![p] = step]
      BY <1>1, <1>3, NoReplyType
    <2>2. step \in Steps /\ step \notin {"replied", "applied"}
      BY DEF Steps
    <2> QED BY <1>3, <2>1, <2>2, SessionBook
  <1>4. CASE RequestLost(p)
    <2>1. NoReply(p) /\ UNCHANGED <<exch, position>>
      BY <1>4 DEF RequestLost
    <2> QED BY <1>3, <2>1, SameExchKept
  <1>5. ASSUME NEW s \in Reported, ReplyLost(p, s) PROVE BookInv'
    <2>1. NoReply(p) /\ Accept(sess[p].job, s) /\ position' = position
      BY <1>5 DEF ReplyLost
    <2>2. ExchKept
      BY <1>1, <2>1, AcceptKept
    <2> QED BY <1>3, <2>1, <2>2
  <1> QED BY <1>2, <1>4, <1>5, AcceptBook DEF Request

LEMMA LatencyBook ==
    ASSUME TypeInv, TypeInv', BookInv, NEW p \in Procs, LatencyAlert(p)
    PROVE  BookInv'
  <1>1. /\ pc[p] = "replied" /\ sess' = [sess EXCEPT ![p] = Refreshed(p)] /\ pc' = pc
        /\ UNCHANGED <<exch, position>>
    BY DEF LatencyAlert
  <1>2. /\ Refreshed(p).job = sess[p].job /\ Refreshed(p).ex = sess[p].ex
        /\ Refreshed(p).status = sess[p].status
    BY <1>1, RefreshedType
  <1>3. /\ sess'[p].ex = sess[p].ex /\ sess'[p].job = sess[p].job
        /\ sess'[p].status = sess[p].status
        /\ \A q \in Procs \ {p} : sess'[q] = sess[q]
    BY <1>1, <1>2 DEF TypeInv, TypeOK
  <1>4. RepliesKept
    BY <1>1, <1>3 DEF RepliesKept
  <1> QED BY <1>1, <1>4, SameExchKept, KeptBook

LEMMA ApplyBook ==
    ASSUME TypeInv, TypeInv', BookInv, NEW p \in Procs, ApplyResult(p)
    PROVE  BookInv'
  <1>1. pc[p] = "replied" /\ UNCHANGED <<exch, position>>
    BY DEF ApplyResult
  <1>2. sess[p] \in Session /\ sess \in [Procs -> Session] /\ pc \in [Procs -> Steps]
    BY DEF TypeInv, TypeOK
  <1>3. CASE CanApply(sess[p].ostate, sess[p].status)
    <2>1. /\ pc' = [pc EXCEPT ![p] = "applied"]
          /\ sess' = [sess EXCEPT ![p].pos = IF sess[p].status = "FILLED"
                                             THEN position[UserOf[sess[p].job]] ELSE 0]
      BY <1>3 DEF ApplyResult
    <2>2. /\ sess'[p].ex = sess[p].ex /\ sess'[p].job = sess[p].job
          /\ sess'[p].status = sess[p].status
          /\ sess[p].status = "FILLED" => sess'[p].pos = position[UserOf[sess[p].job]]
          /\ \A q \in Procs \ {p} : sess'[q] = sess[q] /\ pc'[q] = pc[q]
      BY <1>2, <2>1 DEF Session
    <2>3. RepliesKept
      BY <1>1, <2>2 DEF RepliesKept
    <2> QED BY <1>1, <2>3, SameExchKept, KeptBook
  <1>4. CASE ~CanApply(sess[p].ostate, sess[p].status)
    <2>1. ToFailing(p, sess[p])
      BY <1>4 DEF ApplyResult
    <2> QED BY <1>1, <1>2, <2>1, FailingBook
  <1> QED BY <1>3, <1>4

\* What a commit of a fill does to the booked orders: the order in hand joins
\* them, and was not among them.
LEMMA FillJoins ==
    ASSUME TypeInv, TypeInv', IdInv, BookInv, NEW p \in Procs, NEW u \in Users,
           exch' = exch, pc[p] = "applied", pc'[p] = "committed",
           \A q \in Procs \ {p} : sess'[q] = sess[q] /\ pc'[q] = pc[q],
           sess[p].status = "FILLED", UserOf[sess[p].job] = u
    PROVE  Cardinality(Booked(u)) + SizeOf[sess[p].job] <= Cardinality(Booked(u)')
  <1>1. PICK e \in Nat \ {0} : e = sess[p].ex
    BY DEF BookInv, RepliesTrue, TypeInv, TypeOK, Session
  <1>2. PICK k \in Jobs : k = sess[p].job
    BY DEF TypeInv, BusyHasJob
  <1>3. /\ e \in 1..Len(exch) /\ exch[e].job = k /\ exch[e].status = "FILLED"
    <2>1. OrderOf(k, e)
      BY <1>1, <1>2 DEF IdInv, IdsOwned
    <2> QED BY <1>1, <2>1 DEF OrderOf, BookInv, RepliesTrue
  <1>4. InHand(e)
    BY <1>1 DEF InHand
  <1>5. ~InHand(e)'
    BY <1>1 DEF InHand, IdInv, IdsUnique
  <1>6. Units(e)' = Units(e)
    BY DEF Units
  <1>7. e \in Settled(u)'
    BY <1>2, <1>3, <1>5 DEF Settled, FilledOrders
  <1>8. Units(e) \subseteq Booked(u)'
    BY <1>6, <1>7, Zenon DEF Booked
  <1>9. ExchKept /\ HandsKept
    <2>1. \A f : InHand(f)' => InHand(f)
      BY DEF InHand
    <2> QED BY <2>1, SameExchKept DEF HandsKept
  <1>10. Booked(u) \cup Units(e) \subseteq Booked(u)'
    BY <1>8, <1>9, SettledStays
  <1>11. Booked(u) \cap Units(e) = {}
    <2> SUFFICES ASSUME NEW f \in Settled(u), NEW x \in Units(f), x \in Units(e) PROVE FALSE
      BY Zenon DEF Booked
    <2>1. f # e
      BY <1>4 DEF Settled
    <2> QED BY <2>1 DEF Units
  <1>12. /\ IsFiniteSet(Booked(u)) /\ Cardinality(Booked(u)) \in Nat
         /\ IsFiniteSet(Units(e)) /\ Cardinality(Units(e)) = SizeOf[k]
    BY <1>2, <1>3, FilledFinite, UnitsFinite
  <1>13. Cardinality(Booked(u) \cup Units(e))
            = Cardinality(Booked(u)) + Cardinality(Units(e)) - Cardinality(Booked(u) \cap Units(e))
    BY <1>12, FS_Union
  <1>14. Cardinality(Booked(u) \cap Units(e)) = 0
    BY <1>11, FS_EmptySet
  <1>15. IsFiniteSet(Booked(u)') /\ Cardinality(Booked(u)') \in Nat
    <2>1. TypeInv' => AllBookedFinite'
      BY BookedFinite, PTL
    <2> QED BY <2>1 DEF AllBookedFinite
  <1>16. Cardinality(Booked(u) \cup Units(e)) <= Cardinality(Booked(u)')
    BY <1>10, <1>15, FS_Subset
  <1>17. SizeOf[k] \in Nat
    BY <1>2, ConstantsAssumption
  <1> QED BY <1>2, <1>12, <1>13, <1>14, <1>15, <1>16, <1>17

LEMMA ResultBook ==
    ASSUME TypeInv, TypeInv', IdInv, BookInv, NEW p \in Procs, CommitResult(p)
    PROVE  BookInv'
  <1>0. /\ sess[p] \in Session /\ sess \in [Procs -> Session] /\ pc \in [Procs -> Steps]
        /\ position \in [Users -> Nat] /\ position' \in [Users -> Nat]
        /\ sess' \in [Procs -> Session]
    BY DEF TypeInv, TypeOK
  <1>1. PICK k \in Jobs, v \in Users : k = sess[p].job /\ v = UserOf[k]
    <2>1. sess[p].job \in Jobs
      BY DEF CommitResult, TypeInv, BusyHasJob
    <2> QED BY <2>1, ConstantsAssumption
  <1>2. /\ pc[p] = "applied" /\ pc' = [pc EXCEPT ![p] = "committed"] /\ exch' = exch
        /\ position' = IF FinalState(sess[p].status) = "FILLED"
                       THEN [position EXCEPT ![v] = sess[p].pos + SizeOf[k]]
                       ELSE position
    BY <1>1 DEF CommitResult
  <1>3. /\ pc'[p] = "committed"
        /\ \A q \in Procs \ {p} : sess'[q] = sess[q] /\ pc'[q] = pc[q]
    <2>1. sess' = [sess EXCEPT ![p] = [sess[p] EXCEPT !.jstate = "CREATED", !.ex = 0,
                                                    !.status = "NEW", !.pos = 0]]
      BY <1>0 DEF CommitResult
    <2> QED BY <1>0, <1>2, <2>1
  <1>4. ExchKept /\ HandsKept
    <2>1. \A f : InHand(f)' => InHand(f)
      BY <1>3 DEF InHand
    <2> QED BY <1>2, <2>1, SameExchKept DEF HandsKept
  <1>5. \A u \in Users : /\ Cardinality(Booked(u)) \in Nat /\ Cardinality(Booked(u)') \in Nat
                         /\ Cardinality(Booked(u)) <= Cardinality(Booked(u)')
    BY <1>4, BookedGrows
  <1>6. RepliesTrue'
    BY <1>2, <1>3 DEF BookInv, RepliesTrue
  <1>7. \A u \in Users : position[u] <= Cardinality(Booked(u)')
    <2> SUFFICES ASSUME NEW u \in Users PROVE position[u] <= Cardinality(Booked(u)')
      OBVIOUS
    <2>1. position[u] <= Cardinality(Booked(u)) /\ position[u] \in Nat
      BY <1>0 DEF BookInv, RowsBooked
    <2> QED BY <1>5, <2>1
  <1>8. RowsBooked'
    <2>1. CASE FinalState(sess[p].status) = "FILLED"
      <3>1. sess[p].status = "FILLED"
        <4>1. sess[p].status \in ExchangeStatuses
          BY <1>0 DEF Session
        <4> QED BY <2>1, <4>1, FinalClosed DEF Closed
      <3>2. Cardinality(Booked(v)) + SizeOf[k] <= Cardinality(Booked(v)')
        BY <1>1, <1>2, <1>3, <3>1, FillJoins
      <3>3. sess[p].pos <= Cardinality(Booked(v)) /\ sess[p].pos \in Nat
        BY <1>0, <1>1, <1>2, <3>1 DEF BookInv, CopiesBooked, Session
      <3>4. /\ position'[v] = sess[p].pos + SizeOf[k]
            /\ \A u \in Users \ {v} : position'[u] = position[u]
        BY <1>0, <1>2, <2>1
      <3>5. SizeOf[k] \in Nat
        BY ConstantsAssumption
      <3>6. position'[v] <= Cardinality(Booked(v)')
        BY <1>5, <3>2, <3>3, <3>4, <3>5
      <3> QED BY <1>7, <3>4, <3>6 DEF RowsBooked
    <2>2. CASE FinalState(sess[p].status) # "FILLED"
      BY <1>2, <1>7, <2>2 DEF RowsBooked
    <2> QED BY <2>1, <2>2
  <1>9. CopiesBooked'
    <2> SUFFICES ASSUME NEW q \in Procs, NEW u \in Users, pc'[q] = "applied",
                        sess'[q].status = "FILLED", UserOf[sess'[q].job] = u
                 PROVE  sess'[q].pos <= Cardinality(Booked(u)')
      BY DEF CopiesBooked
    <2>1. sess'[q] = sess[q] /\ pc[q] = "applied"
      BY <1>3
    <2>2. sess'[q].pos <= Cardinality(Booked(u)) /\ sess'[q].pos \in Nat
      BY <1>0, <2>1 DEF BookInv, CopiesBooked, Session
    <2> QED BY <1>5, <2>2
  <1> QED BY <1>6, <1>8, <1>9 DEF BookInv

LEMMA SettleBook ==
    ASSUME TypeInv, TypeInv', IdInv, BookInv, NEW p \in Procs, Settle(p) \/ Crash(p)
    PROVE  BookInv'
  <1>1. CASE CommitResultConflict(p) \/ AfterCommit(p) \/ Requeue(p) \/ CloseFailed(p)
             \/ Crash(p)
    <2>1. /\ sess' = [sess EXCEPT ![p] = Idle(p)] /\ pc' = [pc EXCEPT ![p] = "idle"]
          /\ UNCHANGED <<exch, position>>
      BY <1>1 DEF CommitResultConflict, AfterCommit, Requeue, CloseFailed, Crash, EndSession
    <2>2. Idle(p) \in Session /\ "idle" \in Steps
      BY IdleType DEF Steps
    <2> QED BY <2>1, <2>2, SameExchKept, SessionBook
  <1>2. CASE AfterCommitRaises(p)
    <2>1. pc[p] = "committed" /\ ToFailing(p, Refreshed(p)) /\ UNCHANGED <<exch, position>>
      BY <1>2 DEF AfterCommitRaises
    <2>2. Refreshed(p) \in Session
      BY <2>1, RefreshedType
    <2> QED BY <2>1, <2>2, FailingBook
  <1>3. CASE HandleFailure(p)
    <2>1. PICK o \in OrderRow, r \in JobRow, t \in Session : FailureWrites(p, o, r, t)
      BY <1>3, HandleFailureRows
    <2>2. /\ sess' = [sess EXCEPT ![p] = t] /\ pc' = [pc EXCEPT ![p] = "failed"]
          /\ UNCHANGED <<exch, position>>
      BY <1>3, <2>1 DEF FailureWrites, HandleFailure
    <2>3. "failed" \in Steps
      BY DEF Steps
    <2> QED BY <2>2, <2>3, SameExchKept, SessionBook
  <1> QED BY <1>1, <1>2, <1>3, LatencyBook, ApplyBook, ResultBook DEF Settle

LEMMA InitBook == Init => BookInv
  <1> SUFFICES ASSUME Init PROVE BookInv
    OBVIOUS
  <1>1. /\ \A p \in Procs : pc[p] = "idle"
        /\ \A u \in Users : position[u] = 0
    BY DEF Init
  <1>2. \A u \in Users : 0 <= Cardinality(Booked(u))
    BY InitTypeInv, FilledFinite
  <1> QED BY <1>1, <1>2 DEF BookInv, RepliesTrue, RowsBooked, CopiesBooked

LEMMA NextBook ==
    TypeInv /\ TypeInv' /\ IdInv /\ BookInv /\ [Next]_vars => BookInv'
  <1> SUFFICES ASSUME TypeInv, TypeInv', IdInv, BookInv, [Next]_vars
               PROVE  BookInv'
    OBVIOUS
  <1>1. CASE \E j \in Jobs : Submit(j)
    BY <1>1, SubmitBook
  <1>2. CASE \E p \in Procs : Take(p) \/ Request(p) \/ Settle(p) \/ Crash(p)
    BY <1>2, TakeBook, RequestBook, SettleBook
  <1>3. CASE \E c \in Reconcilers : ReconcileRead(c) \/ ReconcileCommit(c)
    <2>1. UNCHANGED <<exch, position, pc, sess>>
      BY <1>3 DEF ReconcileRead, ReconcileCommit, Sessions
    <2> QED BY <2>1, SameExchKept, ElsewhereBook
  <1>4. CASE \E e \in 1..Len(exch), s \in Reported : ExchangeProgress(e, s)
    <2>1. PICK e \in 1..Len(exch), s \in Reported : ExchangeProgress(e, s)
      BY <1>4
    <2>2. ExchKept /\ UNCHANGED <<position, pc, sess>>
      BY <2>1, ProgressKept, ProgressFacts
    <2> QED BY <2>2, ElsewhereBook
  <1>5. CASE SetVenue \/ ActivateKillSwitch \/ DeactivateKillSwitch \/ UNCHANGED vars
    <2>1. UNCHANGED <<exch, position, pc, sess>>
      BY <1>5 DEF SetVenue, ActivateKillSwitch, DeactivateKillSwitch, vars, Sessions
    <2> QED BY <2>1, SameExchKept, ElsewhereBook
  <1> QED BY <1>1, <1>2, <1>3, <1>4, <1>5 DEF Next

\* The position of a user is never larger than what the exchange filled for
\* the user, whatever the sizes and however many sessions add to one row from
\* stale copies of it: a commit adds the size of one filled order that no
\* other session or row has, so a copy can lag behind the fills but a fill is
\* never added twice.
THEOREM Positions == Spec => []PositionBacked
  <1>1. TypeInv /\ BookInv => PositionBacked
    <2> SUFFICES ASSUME TypeInv, BookInv, NEW u \in Users PROVE position[u] <= FilledSize(u)
      BY DEF PositionBacked
    <2>1. /\ Cardinality(Booked(u)) \in Nat /\ FilledSize(u) \in Nat
          /\ Cardinality(Booked(u)) <= FilledSize(u)
      BY FilledFinite
    <2>2. position[u] <= Cardinality(Booked(u)) /\ position[u] \in Nat
      BY DEF BookInv, RowsBooked, TypeInv, TypeOK
    <2> QED BY <2>1, <2>2
  <1>2. Spec => [](TypeInv /\ IdInv)
    BY OutcomeInvariant, PTL
  <1>3. Spec => []BookInv
    BY <1>2, InitBook, NextBook, PTL DEF Spec
  <1> QED BY <1>1, <1>2, <1>3, PTL

=============================================================================
