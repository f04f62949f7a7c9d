----------------------- MODULE ExecutionEngineCustody -----------------------
(***************************************************************************)
(* Who may work on a job: a payload submitted through the API is held by   *)
(* one consumer at most, so the retry counter and the order row of the job *)
(* have a single writer among the workers, whatever reconciliation does.   *)
(* What that buys: no increment of the retry counter of an API job is      *)
(* lost, so the except block stops at max_retry, and such a job never gets *)
(* a second order row although nothing in the schema forbids one.  And a   *)
(* failed attempt is counted before the payload is back in the queue,      *)
(* which bounds what the job sends to the exchange, and a row that is not  *)
(* placed yet is known as such to its one holder, so no session walks an   *)
(* order out of a closed state.  Executions per idempotency key, at the    *)
(* middle, rest on the unique index instead and hold for every job.        *)
(***************************************************************************)
EXTENDS ExecutionEngineProofs

-----------------------------------------------------------------------------
(* The inductive invariant *)

Queued(j) == \E m \in 1..Len(queue) : queue[m].job = j

\* No payload of the job exists before enqueue_execution pushes one.
NotYetPushed ==
    \A j \in Jobs \ Direct : phase[j] \in {"fresh", "flushed", "rejecting"} =>
        ~Queued(j) /\ \A p \in Procs : ~Holds(p, j)

\* The row of a job is invisible until the commit of enqueue_execution or of a
\* rejection, and without a row there is no order to reconcile.
RowPending ==
    /\ \A j \in Jobs : phase[j] \in {"fresh", "flushed", "pushed"} =>
          jobRow[j].state = Absent
    /\ \A j \in Jobs, p \in Procs :
          jobRow[j].state = Absent => orders[j][p].state = Absent
    /\ \A j \in Jobs, p \in Procs, c \in Reconcilers :
          recon[c].seen[j][p] # Absent => orders[j][p].state # Absent

CustodyInv == SingleCustody /\ NotYetPushed /\ RowPending

\* The holder's copy of the retry counter is exact and the budget not spent.
HolderInBudget ==
    \A j \in Jobs \ Direct, p \in Procs :
        Holds(p, j) /\ pc[p] # "failed" =>
            /\ jobRow[j].retry < MaxRetry
            /\ sess[p].jretry = jobRow[j].retry

\* A terminal state the holder has read is still terminal in the row.
HolderSeesTerminal ==
    \A j \in Jobs \ Direct, p \in Procs :
        Holds(p, j) /\ sess[p].jstate \in TERMINAL_STATES =>
            jobRow[j].state \in TERMINAL_STATES

\* The holder works on the only order row the job has.
HolderOwnsRow ==
    \A j \in Jobs \ Direct, p, q \in Procs :
        Holds(p, j) /\ orders[j][q].state # Absent => q = sess[p].col

BudgetInv == RetryBudget /\ HolderInBudget /\ HolderSeesTerminal

RowInv == OneOrderRow /\ HolderOwnsRow

-----------------------------------------------------------------------------
(* How a step changes what is queued and who holds what *)

\* p goes on with the job it has.
Continues(p) ==
    /\ pc[p] # "idle"
    /\ \E t \in Session, step \in Steps \ {"idle"} :
          /\ sess' = [sess EXCEPT ![p] = t] /\ pc' = [pc EXCEPT ![p] = step]
          /\ t.job = sess[p].job /\ t.col = sess[p].col

\* Every payload in the queue was there before.
QueueShrinks ==
    \E f \in [1..Len(queue') -> 1..Len(queue)] :
        /\ \A m \in 1..Len(queue') : queue'[m] = queue[f[m]]
        /\ \A m, n \in 1..Len(queue') : f[m] = f[n] => m = n

LEMMA ContinuesHolds ==
    ASSUME TypeInv, NEW p \in Procs, Continues(p), NEW q \in Procs, NEW j \in Jobs
    PROVE  (Holds(q, j))' <=> Holds(q, j)
  <1>1. sess \in [Procs -> Session] /\ pc \in [Procs -> Steps]
    BY DEF TypeInv, TypeOK
  <1> QED BY <1>1 DEF Continues, Holds

LEMMA EndSessionHolds ==
    ASSUME TypeInv, NEW p \in Procs, EndSession(p), NEW q \in Procs, NEW j \in Jobs
    PROVE  (Holds(q, j))' <=> Holds(q, j) /\ q # p
  <1>1. sess \in [Procs -> Session] /\ pc \in [Procs -> Steps]
    BY DEF TypeInv, TypeOK
  <1> QED BY <1>1 DEF EndSession, Holds

LEMMA SameQueueShrinks == ASSUME TypeInv, queue' = queue PROVE QueueShrinks
  <1>1. [m \in 1..Len(queue') |-> m] \in [1..Len(queue') -> 1..Len(queue)]
    OBVIOUS
  <1> QED BY <1>1 DEF QueueShrinks

LEMMA TailFacts ==
    ASSUME TypeInv, queue # <<>>, queue' = Tail(queue)
    PROVE  /\ Len(queue) \in Nat /\ Len(queue') = Len(queue) - 1 /\ 1 \in 1..Len(queue)
           /\ Head(queue) = queue[1] /\ queue[1] \in Payload
           /\ \A m \in 1..Len(queue') : m + 1 \in 1..Len(queue) /\ queue'[m] = queue[m + 1]
  <1>1. queue \in Seq(Payload)
    BY DEF TypeInv, TypeOK
  <1> QED BY <1>1

LEMMA TailShrinks ==
    ASSUME TypeInv, queue # <<>>, queue' = Tail(queue) PROVE QueueShrinks
  <1>1. /\ Len(queue) \in Nat
        /\ \A m \in 1..Len(queue') : m + 1 \in 1..Len(queue) /\ queue'[m] = queue[m + 1]
    BY TailFacts
  <1> DEFINE f == [m \in 1..Len(queue') |-> m + 1]
  <1>2. f \in [1..Len(queue') -> 1..Len(queue)]
    BY <1>1
  <1>3. /\ \A m \in 1..Len(queue') : queue'[m] = queue[f[m]]
        /\ \A m, n \in 1..Len(queue') : f[m] = f[n] => m = n
    BY <1>1
  <1> HIDE DEF f
  <1> QED BY <1>2, <1>3 DEF QueueShrinks

LEMMA RotationInjective ==
    ASSUME NEW k \in Nat, NEW m \in 1..k, NEW n \in 1..k,
           (IF m = k THEN 1 ELSE m + 1) = (IF n = k THEN 1 ELSE n + 1)
    PROVE  m = n
  OBVIOUS

LEMMA RotateShrinks ==
    ASSUME TypeInv, queue # <<>>, queue' = Append(Tail(queue), Head(queue))
    PROVE  QueueShrinks
  <1> DEFINE r(m) == IF m = Len(queue) THEN 1 ELSE m + 1
             f == [m \in 1..Len(queue') |-> r(m)]
  <1>0. queue \in Seq(Payload)
    BY DEF TypeInv, TypeOK
  <1>1. /\ Len(queue) \in Nat \ {0} /\ Len(queue') = Len(queue)
        /\ \A m \in 1..Len(queue') : r(m) \in 1..Len(queue) /\ queue'[m] = queue[r(m)]
    BY <1>0
  <1>2. f \in [1..Len(queue') -> 1..Len(queue)]
    BY <1>1
  <1>3. \A m \in 1..Len(queue') : queue'[m] = queue[f[m]]
    BY <1>1
  <1>4. \A m, n \in 1..Len(queue') : f[m] = f[n] => m = n
    BY <1>1, RotationInjective
  <1> HIDE DEF f
  <1> QED BY <1>2, <1>3, <1>4 DEF QueueShrinks

LEMMA AppendFacts ==
    ASSUME TypeInv, NEW x \in Payload, queue' = Append(queue, x)
    PROVE  /\ Len(queue) \in Nat /\ Len(queue') = Len(queue) + 1
           /\ queue'[Len(queue) + 1] = x
           /\ \A m \in 1..Len(queue) : queue'[m] = queue[m]
  <1>1. queue \in Seq(Payload)
    BY DEF TypeInv, TypeOK
  <1> QED BY <1>1

\* Nothing new is queued or held.
LEMMA ShrinkCustody ==
    ASSUME TypeInv, SingleCustody, NotYetPushed, QueueShrinks,
           \A q \in Procs, j \in Jobs : (Holds(q, j))' => Holds(q, j),
           \A j \in Jobs : phase'[j] \in {"fresh", "flushed", "rejecting"} =>
                              phase[j] \in {"fresh", "flushed", "rejecting"}
    PROVE  SingleCustody' /\ NotYetPushed'
  <1>1. PICK f \in [1..Len(queue') -> 1..Len(queue)] :
          /\ \A m \in 1..Len(queue') : queue'[m] = queue[f[m]]
          /\ \A m, n \in 1..Len(queue') : f[m] = f[n] => m = n
    BY DEF QueueShrinks
  <1>2. \A m \in 1..Len(queue') : f[m] \in 1..Len(queue) /\ queue'[m].job = queue[f[m]].job
    BY <1>1
  <1>3. ASSUME NEW j \in Jobs \ Direct
        PROVE  /\ \A m, n \in 1..Len(queue') :
                     queue'[m].job = j /\ queue'[n].job = j => m = n
               /\ \A m \in 1..Len(queue'), p \in Procs :
                     ~(queue'[m].job = j /\ (Holds(p, j))')
               /\ \A p, q \in Procs : (Holds(p, j))' /\ (Holds(q, j))' => p = q
    <2>1. /\ \A m, n \in 1..Len(queue) : queue[m].job = j /\ queue[n].job = j => m = n
          /\ \A m \in 1..Len(queue), p \in Procs : ~(queue[m].job = j /\ Holds(p, j))
          /\ \A p, q \in Procs : Holds(p, j) /\ Holds(q, j) => p = q
      BY <1>3 DEF SingleCustody
    <2>2. \A m, n \in 1..Len(queue') : queue'[m].job = j /\ queue'[n].job = j => m = n
      BY <1>1, <1>2, <2>1
    <2>3. \A m \in 1..Len(queue'), p \in Procs : ~(queue'[m].job = j /\ (Holds(p, j))')
      BY <1>2, <1>3, <2>1
    <2>4. \A p, q \in Procs : (Holds(p, j))' /\ (Holds(q, j))' => p = q
      BY <1>3, <2>1
    <2> QED BY <2>2, <2>3, <2>4
  <1>4. SingleCustody'
    BY <1>3 DEF SingleCustody
  <1>5. ASSUME NEW j \in Jobs \ Direct, phase'[j] \in {"fresh", "flushed", "rejecting"}
        PROVE  (~Queued(j))' /\ \A p \in Procs : ~(Holds(p, j))'
    BY <1>2, <1>5 DEF NotYetPushed, Queued
  <1>6. NotYetPushed'
    BY <1>5 DEF NotYetPushed
  <1> QED BY <1>4, <1>6

-----------------------------------------------------------------------------
(* The steps of a busy process *)

\* p goes on with what it has read of its rows.
Keeps(p) ==
    /\ pc[p] \notin {"idle", "failed"}
    /\ \E t \in Session, step \in Steps \ {"idle", "failed"} :
          /\ sess' = [sess EXCEPT ![p] = t] /\ pc' = [pc EXCEPT ![p] = step]
          /\ t.job = sess[p].job /\ t.col = sess[p].col
          /\ t.jstate = sess[p].jstate /\ t.jretry = sess[p].jretry

\* p goes on and has read its rows again.
Rereads(p) ==
    /\ pc[p] \notin {"idle", "failed"}
    /\ \E t \in Session, step \in Steps \ {"idle", "failed"} :
          /\ sess' = [sess EXCEPT ![p] = t] /\ pc' = [pc EXCEPT ![p] = step]
          /\ t.job = sess[p].job /\ t.col = sess[p].col
          /\ t.jstate = jobRow[sess[p].job].state /\ t.jretry = jobRow[sess[p].job].retry

LEMMA KeepsContinues ==
    ASSUME NEW p \in Procs, Keeps(p) \/ Rereads(p) PROVE Continues(p)
  BY DEF Keeps, Rereads, Continues

LEMMA FailingKeeps ==
    ASSUME TypeInv, NEW p \in Procs, ToFailing(p, sess[p]), pc[p] \notin {"idle", "failed"}
    PROVE  Keeps(p)
  <1>1. sess[p] \in Session /\ "failing" \in Steps \ {"idle", "failed"}
    BY DEF TypeInv, TypeOK, Steps
  <1> QED BY <1>1, FailingSession DEF Keeps

LEMMA RequestKeeps ==
    ASSUME TypeInv, NEW p \in Procs, Request(p)
    PROVE  Keeps(p) /\ UNCHANGED <<phase, jobRow, queue, orders, recon>>
  <1>0. pc[p] = "sending" /\ sess[p] \in Session /\ Len(exch) \in Nat
    BY TypeFacts DEF Request, BalanceCheckFails, RequestLost, ExchangeRejects,
                     ExchangeAccepts, ReplyLost
  <1>1. UNCHANGED <<phase, jobRow, queue, orders, recon>>
    BY DEF Request, BalanceCheckFails, RequestLost, ExchangeRejects, ExchangeAccepts,
           ReplyLost
  <1>2. CASE BalanceCheckFails(p) \/ ExchangeRejects(p)
    <2>1. ToFailing(p, sess[p])
      BY <1>2 DEF BalanceCheckFails, ExchangeRejects
    <2> QED BY <1>0, <1>1, <2>1, FailingKeeps
  <1>3. CASE RequestLost(p) \/ \E s \in Reported : ReplyLost(p, s)
    <2>1. NoReply(p)
      BY <1>3 DEF RequestLost, ReplyLost
    <2>2. {"sending", "failing"} \subseteq Steps \ {"idle", "failed"}
      BY DEF Steps
    <2>3. Keeps(p)
      BY <1>0, <2>1, <2>2, NoReplyType DEF Keeps
    <2> QED BY <1>1, <2>3
  <1>4. CASE \E s \in Reported : ExchangeAccepts(p, s)
    <2>1. PICK s \in Reported : ExchangeAccepts(p, s)
      BY <1>4
    <2>2. PICK n \in Nat : n = Len(exch) + 1
      BY <1>0
    <2> DEFINE t == [sess[p] EXCEPT !.attempt = 0, !.status = s, !.ex = n]
    <2>3. sess' = [sess EXCEPT ![p] = t] /\ pc' = [pc EXCEPT ![p] = "replied"]
      BY <2>1, <2>2, Zenon DEF ExchangeAccepts
    <2>4. /\ t \in Session /\ t.job = sess[p].job /\ t.col = sess[p].col
          /\ t.jstate = sess[p].jstate /\ t.jretry = sess[p].jretry
      BY <1>0, StateFacts DEF Session
    <2> HIDE DEF t
    <2>5. "replied" \in Steps \ {"idle", "failed"}
      BY DEF Steps
    <2> QED BY <1>0, <1>1, <2>3, <2>4, <2>5 DEF Keeps
  <1> QED BY <1>2, <1>3, <1>4 DEF Request

LEMMA ApplyResultKeeps ==
    ASSUME TypeInv, NEW p \in Procs, ApplyResult(p)
    PROVE  Keeps(p) /\ UNCHANGED <<phase, jobRow, queue, orders, recon>>
  <1>1. pc[p] = "replied" /\ UNCHANGED <<phase, jobRow, queue, orders, recon>>
    BY DEF ApplyResult
  <1>2. sess[p] \in Session /\ sess \in [Procs -> Session] /\ sess[p].job \in Jobs
    BY <1>1 DEF TypeInv, TypeOK, BusyHasJob
  <1>3. CASE CanApply(sess[p].ostate, sess[p].status)
    <2> DEFINE n == IF sess[p].status = "FILLED" THEN position[UserOf[sess[p].job]] ELSE 0
               t == [sess[p] EXCEPT !.pos = n]
    <2>1. n \in Nat
      BY <1>2, ConstantsAssumption DEF TypeInv, TypeOK
    <2>2. sess' = [sess EXCEPT ![p] = t] /\ pc' = [pc EXCEPT ![p] = "applied"]
      BY <1>2, <1>3 DEF ApplyResult
    <2> HIDE DEF n
    <2>3. /\ t \in Session /\ t.job = sess[p].job /\ t.col = sess[p].col
          /\ t.jstate = sess[p].jstate /\ t.jretry = sess[p].jretry
      BY <1>2, <2>1 DEF Session
    <2> HIDE DEF t
    <2>4. "applied" \in Steps \ {"idle", "failed"}
      BY DEF Steps
    <2> QED BY <1>1, <2>2, <2>3, <2>4 DEF Keeps
  <1>4. CASE ~CanApply(sess[p].ostate, sess[p].status)
    <2>1. ToFailing(p, sess[p])
      BY <1>4 DEF ApplyResult
    <2> QED BY <1>1, <2>1, FailingKeeps
  <1> QED BY <1>3, <1>4

LEMMA RereadSteps ==
    ASSUME TypeInv, NEW p \in Procs, LatencyAlert(p) \/ AfterCommitRaises(p)
    PROVE  Rereads(p) /\ UNCHANGED <<phase, jobRow, queue, recon>>
  <1>1. pc[p] \in {"replied", "committed"} /\ UNCHANGED <<phase, jobRow, queue, recon>>
    BY DEF LatencyAlert, AfterCommitRaises
  <1>2. /\ Refreshed(p) \in Session
        /\ Refreshed(p).job = sess[p].job /\ Refreshed(p).col = sess[p].col
        /\ Refreshed(p).jstate = jobRow[sess[p].job].state
        /\ Refreshed(p).jretry = jobRow[sess[p].job].retry
    BY <1>1, RefreshedType
  <1>3. {"replied", "failing"} \subseteq Steps \ {"idle", "failed"}
    BY DEF Steps
  <1>4. CASE LatencyAlert(p)
    <2>1. /\ sess' = [sess EXCEPT ![p] = Refreshed(p)]
          /\ pc[p] = "replied" /\ pc' = [pc EXCEPT ![p] = "replied"]
      BY <1>4 DEF LatencyAlert, TypeInv, TypeOK
    <2> QED BY <1>1, <1>2, <1>3, <2>1 DEF Rereads
  <1>5. CASE AfterCommitRaises(p)
    <2>1. ToFailing(p, Refreshed(p))
      BY <1>5 DEF AfterCommitRaises
    <2>2. PICK t \in Session :
             /\ sess' = [sess EXCEPT ![p] = t] /\ pc' = [pc EXCEPT ![p] = "failing"]
             /\ t.job = Refreshed(p).job /\ t.col = Refreshed(p).col
             /\ t.jstate = Refreshed(p).jstate /\ t.jretry = Refreshed(p).jretry
      BY <1>2, <2>1, FailingSession
    <2> QED BY <1>1, <1>2, <1>3, <2>2 DEF Rereads
  <1> QED BY <1>4, <1>5

LEMMA CommitContinues ==
    ASSUME TypeInv, NEW p \in Procs, CommitResult(p) \/ HandleFailure(p)
    PROVE  Continues(p) /\ UNCHANGED <<phase, queue, recon>>
  <1>1. /\ pc[p] # "idle" /\ UNCHANGED <<phase, queue, recon>>
        /\ pc' = [pc EXCEPT ![p] = "committed"] \/ pc' = [pc EXCEPT ![p] = "failed"]
    BY DEF CommitResult, HandleFailure
  <1>2. \E t \in Session : /\ sess' = [sess EXCEPT ![p] = t]
                           /\ t.job = sess[p].job /\ t.col = sess[p].col
    BY CommitResultRows, HandleFailureRows DEF CommitWrites, FailureWrites
  <1>3. {"committed", "failed"} \subseteq Steps \ {"idle"}
    BY DEF Steps
  <1> QED BY <1>1, <1>2, <1>3 DEF Continues

-----------------------------------------------------------------------------
(* Single custody *)

\* The payload of j is pushed: nothing of it was queued or held.
LEMMA AppendCustody ==
    ASSUME TypeInv, SingleCustody, NotYetPushed, NEW k \in Jobs, NEW x \in Payload,
           x.job = k, queue' = Append(queue, x),
           k \notin Direct => ~Queued(k) /\ \A q \in Procs : ~(Holds(q, k))',
           \A q \in Procs, j \in Jobs : (Holds(q, j))' => Holds(q, j),
           \A j \in Jobs \ Direct : phase'[j] \in {"fresh", "flushed", "rejecting"} =>
                              phase[j] \in {"fresh", "flushed", "rejecting"} /\ j # k
    PROVE  SingleCustody' /\ NotYetPushed'
  <1>1. /\ Len(queue) \in Nat /\ Len(queue') = Len(queue) + 1
        /\ queue'[Len(queue) + 1] = x
        /\ \A m \in 1..Len(queue) : queue'[m] = queue[m]
    BY AppendFacts
  <1>2. \A m \in 1..Len(queue') : \/ m \in 1..Len(queue) /\ queue'[m] = queue[m]
                                  \/ m = Len(queue) + 1 /\ queue'[m].job = k
    BY <1>1
  <1>3. ASSUME NEW j \in Jobs \ Direct
        PROVE  /\ \A m, n \in 1..Len(queue') :
                     queue'[m].job = j /\ queue'[n].job = j => m = n
               /\ \A m \in 1..Len(queue'), p \in Procs :
                     ~(queue'[m].job = j /\ (Holds(p, j))')
               /\ \A p, q \in Procs : (Holds(p, j))' /\ (Holds(q, j))' => p = q
    <2>1. /\ \A m, n \in 1..Len(queue) : queue[m].job = j /\ queue[n].job = j => m = n
          /\ \A m \in 1..Len(queue), p \in Procs : ~(queue[m].job = j /\ Holds(p, j))
          /\ \A p, q \in Procs : Holds(p, j) /\ Holds(q, j) => p = q
      BY <1>3 DEF SingleCustody
    <2>2. j = k => \A m \in 1..Len(queue) : queue[m].job # j
      BY <1>3 DEF Queued
    <2>3. \A m, n \in 1..Len(queue') : queue'[m].job = j /\ queue'[n].job = j => m = n
      BY <1>2, <2>1, <2>2
    <2>4. \A m \in 1..Len(queue'), p \in Procs : ~(queue'[m].job = j /\ (Holds(p, j))')
      BY <1>2, <1>3, <2>1
    <2>5. \A p, q \in Procs : (Holds(p, j))' /\ (Holds(q, j))' => p = q
      BY <1>3, <2>1
    <2> QED BY <2>3, <2>4, <2>5
  <1>4. SingleCustody'
    BY <1>3 DEF SingleCustody
  <1>5. ASSUME NEW j \in Jobs \ Direct, phase'[j] \in {"fresh", "flushed", "rejecting"}
        PROVE  (~Queued(j))' /\ \A p \in Procs : ~(Holds(p, j))'
    BY <1>2, <1>5 DEF NotYetPushed, Queued
  <1>6. NotYetPushed'
    BY <1>5 DEF NotYetPushed
  <1> QED BY <1>4, <1>6

\* A process that begins a job holds that job and no other changes.
LEMMA BeginJobHolds ==
    ASSUME TypeInv, NEW p \in Procs, NEW k \in Jobs, BeginJob(p, k), pc[p] = "idle",
           NEW q \in Procs, NEW j \in Jobs
    PROVE  (Holds(q, j))' <=> Holds(q, j) \/ (q = p /\ j = k)
  <1>1. pc \in [Procs -> Steps]
    BY DEF TypeInv, TypeOK
  <1> QED BY <1>1, BeginJobType DEF Holds

LEMMA TakeCustody ==
    ASSUME TypeInv, SingleCustody, NotYetPushed, NEW p \in Procs, Take(p)
    PROVE  SingleCustody' /\ NotYetPushed'
  <1>1. CASE Consume(p)
    <2> DEFINE k == Head(queue).job
    <2>1. /\ pc[p] = "idle" /\ queue # <<>> /\ BeginJob(p, k) /\ queue' = Tail(queue)
          /\ phase' = phase
      BY <1>1 DEF Consume
    <2>2. /\ Len(queue) \in Nat /\ Len(queue') = Len(queue) - 1 /\ 1 \in 1..Len(queue)
          /\ k = queue[1].job /\ queue[1] \in Payload
          /\ \A m \in 1..Len(queue') : m + 1 \in 1..Len(queue) /\ queue'[m] = queue[m + 1]
      BY <2>1, TailFacts
    <2>3. k \in Jobs
      BY <2>2 DEF Payload
    <2> HIDE DEF k
    <2>4. \A q \in Procs, j \in Jobs : (Holds(q, j))' <=> Holds(q, j) \/ (q = p /\ j = k)
      BY <2>1, <2>3, BeginJobHolds
    <2>5. ASSUME NEW j \in Jobs \ Direct
          PROVE  /\ \A m, n \in 1..Len(queue') :
                       queue'[m].job = j /\ queue'[n].job = j => m = n
                 /\ \A m \in 1..Len(queue'), q \in Procs :
                       ~(queue'[m].job = j /\ (Holds(q, j))')
                 /\ \A q, r \in Procs : (Holds(q, j))' /\ (Holds(r, j))' => q = r
      <3>1. /\ \A m, n \in 1..Len(queue) : queue[m].job = j /\ queue[n].job = j => m = n
            /\ \A m \in 1..Len(queue), q \in Procs : ~(queue[m].job = j /\ Holds(q, j))
            /\ \A q, r \in Procs : Holds(q, j) /\ Holds(r, j) => q = r
        BY <2>5 DEF SingleCustody
      <3>2. \A m, n \in 1..Len(queue') : queue'[m].job = j /\ queue'[n].job = j => m = n
        <4> SUFFICES ASSUME NEW m \in 1..Len(queue'), NEW n \in 1..Len(queue'),
                            queue'[m].job = j, queue'[n].job = j
                     PROVE  m = n
          OBVIOUS
        <4>1. /\ m + 1 \in 1..Len(queue) /\ queue[m + 1].job = j
              /\ n + 1 \in 1..Len(queue) /\ queue[n + 1].job = j
          BY <2>2
        <4>2. m + 1 = n + 1
          BY <3>1, <4>1
        <4> QED BY <4>2, <2>2
      <3>3. \A m \in 1..Len(queue') : queue'[m].job = j => j # k
        BY <2>2, <3>1
      <3>4. \A m \in 1..Len(queue'), q \in Procs : ~(queue'[m].job = j /\ (Holds(q, j))')
        BY <2>2, <2>4, <2>5, <3>1, <3>3
      <3>5. j = k => \A q \in Procs : ~Holds(q, j)
        BY <2>2, <3>1
      <3>6. \A q, r \in Procs : (Holds(q, j))' /\ (Holds(r, j))' => q = r
        BY <2>4, <2>5, <3>1, <3>5
      <3> QED BY <3>2, <3>4, <3>6
    <2>6. SingleCustody'
      BY <2>5 DEF SingleCustody
    <2>7. ASSUME NEW j \in Jobs \ Direct, phase'[j] \in {"fresh", "flushed", "rejecting"}
          PROVE  (~Queued(j))' /\ \A q \in Procs : ~(Holds(q, j))'
      <3>1. ~Queued(j) /\ \A q \in Procs : ~Holds(q, j)
        BY <2>1, <2>7 DEF NotYetPushed
      <3>2. j # k
        BY <2>2, <3>1 DEF Queued
      <3>3. (~Queued(j))'
        BY <2>2, <3>1 DEF Queued
      <3> QED BY <2>4, <2>7, <3>1, <3>2, <3>3
    <2>8. NotYetPushed'
      BY <2>7 DEF NotYetPushed
    <2> QED BY <2>6, <2>8
  <1>2. CASE ConsumeIgnored(p) \/ ConsumeDeferred(p) \/ ConsumeRefused(p)
    <2>1. /\ queue # <<>> /\ UNCHANGED <<phase, pc, sess>>
          /\ queue' = Tail(queue) \/ queue' = Append(Tail(queue), Head(queue))
      BY <1>2 DEF ConsumeIgnored, ConsumeDeferred, ConsumeRefused, Sessions
    <2>2. QueueShrinks
      BY <2>1, TailShrinks, RotateShrinks
    <2>3. \A q \in Procs, j \in Jobs : (Holds(q, j))' => Holds(q, j)
      BY <2>1 DEF Holds
    <2> QED BY <2>1, <2>2, <2>3, ShrinkCustody
  <1>3. CASE \E k \in Jobs : DirectExecute(p, k)
    <2>1. PICK k \in Jobs : DirectExecute(p, k)
      BY <1>3
    <2>2. /\ pc[p] = "idle" /\ k \in Direct /\ BeginJob(p, k) /\ queue' = queue
          /\ phase' = [phase EXCEPT ![k] = "taken"] /\ phase \in [Jobs -> Phases]
      BY <2>1 DEF DirectExecute, TypeInv, TypeOK
    <2>3. \A q \in Procs, j \in Jobs \ Direct : (Holds(q, j))' <=> Holds(q, j)
      BY <2>2, BeginJobHolds
    <2>4. \A j \in Jobs \ Direct : phase'[j] = phase[j]
      BY <2>2
    <2>5. SingleCustody'
      BY <2>2, <2>3 DEF SingleCustody
    <2>6. NotYetPushed'
      BY <2>2, <2>3, <2>4 DEF NotYetPushed, Queued
    <2> QED BY <2>5, <2>6
  <1> QED BY <1>1, <1>2, <1>3 DEF Take

LEMMA SubmitCustody ==
    ASSUME TypeInv, SingleCustody, NotYetPushed, NEW k \in Jobs, Submit(k)
    PROVE  SingleCustody' /\ NotYetPushed'
  <1>1. phase \in [Jobs -> Phases] /\ UNCHANGED <<pc, sess>>
    BY DEF Submit, InsertJob, RejectAudit, RejectJob, PushPayload, CommitEnqueue,
           AbortSubmit, Sessions, TypeInv, TypeOK
  <1>2. \A q \in Procs, j \in Jobs : (Holds(q, j))' <=> Holds(q, j)
    BY <1>1 DEF Holds
  <1>3. CASE PushPayload(k)
    <2> DEFINE x == [job |-> k, retried |-> FALSE]
    <2>1. /\ phase[k] = "flushed" /\ phase' = [phase EXCEPT ![k] = "pushed"]
          /\ queue' = Append(queue, x)
      BY <1>3 DEF PushPayload
    <2>2. x \in Payload /\ x.job = k
      BY DEF Payload
    <2> HIDE DEF x
    <2>3. k \notin Direct => ~Queued(k) /\ \A q \in Procs : ~Holds(q, k)
      BY <2>1 DEF NotYetPushed
    <2>4. \A j \in Jobs : phase'[j] \in {"fresh", "flushed", "rejecting"} =>
                              phase[j] \in {"fresh", "flushed", "rejecting"} /\ j # k
      BY <1>1, <2>1
    <2> QED BY <1>2, <2>1, <2>2, <2>3, <2>4, AppendCustody
  <1>4. CASE ~PushPayload(k)
    <2>1. queue' = queue
      BY <1>4 DEF Submit, InsertJob, RejectAudit, RejectJob, CommitEnqueue, AbortSubmit
    <2>2. \A j \in Jobs : phase'[j] \in {"fresh", "flushed", "rejecting"} =>
                              phase[j] \in {"fresh", "flushed", "rejecting"}
      BY <1>1, <1>4 DEF Submit, InsertJob, RejectAudit, RejectJob, CommitEnqueue,
                        AbortSubmit
    <2>3. QueueShrinks
      BY <2>1, SameQueueShrinks
    <2> QED BY <1>2, <2>2, <2>3, ShrinkCustody
  <1> QED BY <1>3, <1>4

LEMMA BusyCustody ==
    ASSUME TypeInv, SingleCustody, NotYetPushed, NEW p \in Procs,
           Request(p) \/ Settle(p) \/ Crash(p)
    PROVE  SingleCustody' /\ NotYetPushed'
  <1>1. CASE Continues(p) /\ UNCHANGED <<phase, queue>>
    <2>1. QueueShrinks
      BY <1>1, SameQueueShrinks
    <2>2. \A q \in Procs, j \in Jobs : (Holds(q, j))' => Holds(q, j)
      BY <1>1, ContinuesHolds
    <2> QED BY <1>1, <2>1, <2>2, ShrinkCustody
  <1>2. CASE EndSession(p) /\ UNCHANGED <<phase, queue>>
    <2>1. QueueShrinks
      BY <1>2, SameQueueShrinks
    <2>2. \A q \in Procs, j \in Jobs : (Holds(q, j))' => Holds(q, j)
      BY <1>2, EndSessionHolds
    <2> QED BY <1>2, <2>1, <2>2, ShrinkCustody
  <1>3. CASE Requeue(p)
    <2>0. PICK k \in Jobs : k = sess[p].job /\ Holds(p, k)
      BY <1>3 DEF Requeue, TypeInv, BusyHasJob, Holds
    <2> DEFINE x == [job |-> k, retried |-> TRUE]
    <2>1. /\ pc[p] # "idle" /\ EndSession(p) /\ queue' = Append(queue, x) /\ phase' = phase
      BY <1>3, <2>0 DEF Requeue
    <2>2. k \in Jobs /\ Holds(p, k)
      BY <2>0
    <2>3. x \in Payload /\ x.job = k
      BY <2>2 DEF Payload
    <2> HIDE DEF x
    <2>4. \A q \in Procs, j \in Jobs : (Holds(q, j))' <=> Holds(q, j) /\ q # p
      BY <2>1, EndSessionHolds
    <2>5. k \notin Direct => ~Queued(k) /\ \A q \in Procs : ~(Holds(q, k))'
      <3> SUFFICES ASSUME k \notin Direct
                   PROVE  ~Queued(k) /\ \A q \in Procs : ~(Holds(q, k))'
        OBVIOUS
      <3>1. ~Queued(k)
        BY <2>2 DEF SingleCustody, Queued
      <3>2. \A q \in Procs : Holds(q, k) => q = p
        BY <2>2 DEF SingleCustody
      <3> QED BY <2>2, <2>4, <3>1, <3>2
    <2>6. \A j \in Jobs \ Direct : phase'[j] \in {"fresh", "flushed", "rejecting"} =>
                              phase[j] \in {"fresh", "flushed", "rejecting"} /\ j # k
      BY <2>1, <2>2 DEF NotYetPushed
    <2> QED BY <2>1, <2>2, <2>3, <2>4, <2>5, <2>6, AppendCustody
  <1>4. \/ Continues(p) /\ UNCHANGED <<phase, queue>>
        \/ EndSession(p) /\ UNCHANGED <<phase, queue>>
        \/ Requeue(p)
    <2>1. CASE Request(p) \/ ApplyResult(p)
      BY <2>1, RequestKeeps, ApplyResultKeeps, KeepsContinues
    <2>2. CASE LatencyAlert(p) \/ AfterCommitRaises(p)
      BY <2>2, RereadSteps, KeepsContinues
    <2>3. CASE CommitResult(p) \/ HandleFailure(p)
      BY <2>3, CommitContinues
    <2>4. CASE CommitResultConflict(p) \/ AfterCommit(p) \/ CloseFailed(p) \/ Crash(p)
      BY <2>4 DEF CommitResultConflict, AfterCommit, CloseFailed, Crash
    <2> QED BY <2>1, <2>2, <2>3, <2>4 DEF Settle
  <1> QED BY <1>1, <1>2, <1>3, <1>4

LEMMA NextCustody ==
    ASSUME TypeInv, SingleCustody, NotYetPushed, [Next]_vars
    PROVE  SingleCustody' /\ NotYetPushed'
  <1>1. CASE \E j \in Jobs : Submit(j)
    BY <1>1, SubmitCustody
  <1>2. CASE \E p \in Procs : Take(p) \/ Request(p) \/ Settle(p) \/ Crash(p)
    BY <1>2, TakeCustody, BusyCustody
  <1>3. CASE UNCHANGED <<phase, queue, pc, sess>>
    BY <1>3 DEF SingleCustody, NotYetPushed, Holds, Queued
  <1>4. CASE \/ \E c \in Reconcilers : ReconcileRead(c) \/ ReconcileCommit(c)
             \/ \E e \in 1..Len(exch), s \in Reported : ExchangeProgress(e, s)
             \/ SetVenue \/ ActivateKillSwitch \/ DeactivateKillSwitch
             \/ UNCHANGED vars
    <2>1. UNCHANGED <<phase, queue, pc, sess>>
      BY <1>4 DEF ReconcileRead, ReconcileCommit, ExchangeProgress, SetVenue,
                  ActivateKillSwitch, DeactivateKillSwitch, Sessions, vars
    <2> QED BY <1>3, <2>1
  <1> QED BY <1>1, <1>2, <1>4 DEF Next

\* A payload submitted through the API is never held by two consumers, never
\* queued twice and never queued while it is held, for every number of jobs
\* and processes: lpop hands it to one worker, and the except block puts it
\* back in the step in which the worker lets go of it.
THEOREM Custody == Spec => []SingleCustody
  <1>1. Init => SingleCustody /\ NotYetPushed
    BY DEF Init, SingleCustody, NotYetPushed, Holds, Queued
  <1>2. TypeInv /\ SingleCustody /\ NotYetPushed /\ [Next]_vars
           => (SingleCustody /\ NotYetPushed)'
    BY NextCustody
  <1> QED BY <1>1, <1>2, InitTypeInv, NextTypeInv, PTL DEF Spec

-----------------------------------------------------------------------------
(* Rows appear in order: job, order, reconciliation *)

LEMMA SameRowPending ==
    ASSUME RowPending, UNCHANGED <<jobRow, orders, recon>>,
           \A j \in Jobs : phase'[j] \in {"fresh", "flushed", "pushed"} =>
                              phase[j] \in {"fresh", "flushed", "pushed"}
    PROVE  RowPending'
  BY DEF RowPending

LEMMA SubmitRowPending ==
    ASSUME TypeInv, RowPending, NEW k \in Jobs, Submit(k)
    PROVE  RowPending'
  <1> USE DEF Submit, InsertJob, RejectAudit, RejectJob, PushPayload, CommitEnqueue,
              AbortSubmit
  <1>1. phase \in [Jobs -> Phases] /\ jobRow \in [Jobs -> JobRow]
    BY DEF TypeInv, TypeOK
  <1>2. UNCHANGED <<orders, recon>>
    OBVIOUS
  <1>3. CASE jobRow' = jobRow
    <2>1. \A j \in Jobs : phase'[j] \in {"fresh", "flushed", "pushed"} =>
                             phase[j] \in {"fresh", "flushed", "pushed"}
      BY <1>1
    <2> QED BY <1>2, <1>3, <2>1, SameRowPending
  <1>4. CASE jobRow' # jobRow
    <2>1. /\ jobRow'[k].state # Absent
          /\ \A j \in Jobs \ {k} : jobRow'[j] = jobRow[j] /\ phase'[j] = phase[j]
          /\ phase'[k] \notin {"fresh", "flushed", "pushed"}
      BY <1>1, <1>4 DEF Absent
    <2> HIDE DEF Submit, InsertJob, RejectAudit, RejectJob, PushPayload, CommitEnqueue,
              AbortSubmit
    <2> QED BY <1>2, <2>1 DEF RowPending
  <1> QED BY <1>3, <1>4

LEMMA ReconcileRowPending ==
    ASSUME TypeInv, RowPending, NEW c \in Reconcilers,
           ReconcileRead(c) \/ ReconcileCommit(c)
    PROVE  RowPending'
  <1>0. recon \in [Reconcilers -> Reconciliation]
    BY DEF TypeInv, TypeOK
  <1>1. CASE ReconcileRead(c)
    <2>1. UNCHANGED <<phase, jobRow, orders>>
      BY <1>1 DEF ReconcileRead
    <2>2. PICK S \in SUBSET Mismatched :
         recon' = [recon EXCEPT ![c] =
                     [running |-> TRUE,
                      seen    |-> [j \in Jobs |-> [p \in Procs |->
                                     IF <<j, p>> \in S
                                     THEN exch[orders[j][p].ext].status
                                     ELSE Absent]],
                      jstate  |-> [j \in Jobs |-> jobRow[j].state]]]
      BY <1>1 DEF ReconcileRead
    <2>3. \A j \in Jobs, p \in Procs : recon'[c].seen[j][p] # Absent => <<j, p>> \in S
      BY <1>0, <2>2
    <2>4. \A j \in Jobs, p \in Procs : <<j, p>> \in S => orders[j][p].state # Absent
      BY <2>2 DEF Mismatched, OPEN_STATES, Absent
    <2>5. \A d \in Reconcilers : d # c => recon'[d] = recon[d]
      BY <1>0, <2>2
    <2>6. \A j \in Jobs, p \in Procs, d \in Reconcilers :
             recon'[d].seen[j][p] # Absent => orders[j][p].state # Absent
      <3> SUFFICES ASSUME NEW j \in Jobs, NEW p \in Procs, NEW d \in Reconcilers,
                          recon'[d].seen[j][p] # Absent
                   PROVE  orders[j][p].state # Absent
        OBVIOUS
      <3>1. CASE d = c
        BY <3>1, <2>3, <2>4
      <3>2. CASE d # c
        BY <3>2, <2>5 DEF RowPending
      <3> QED BY <3>1, <3>2
    <2> QED BY <2>1, <2>6 DEF RowPending
  <1>2. CASE ReconcileCommit(c)
    <2>1. /\ phase' = phase /\ recon' = [recon EXCEPT ![c] = NotRunning]
      BY <1>2 DEF ReconcileCommit
    <2>2. \A d \in Reconcilers, j \in Jobs, p \in Procs :
             recon'[d].seen[j][p] # Absent => recon[d].seen[j][p] # Absent
      BY <1>0, <2>1 DEF NotRunning
    <2>3. \A j \in Jobs, p \in Procs : orders'[j][p].state = Absent <=> orders[j][p].state = Absent
      BY <1>2, ReconcileCommitRows DEF RowPending
    <2>4. \A j \in Jobs : jobRow'[j].state = Absent <=> jobRow[j].state = Absent
      <3> SUFFICES ASSUME NEW j \in Jobs
                   PROVE  jobRow'[j].state = Absent <=> jobRow[j].state = Absent
        OBVIOUS
      <3>1. CASE jobRow'[j].state = jobRow[j].state
        BY <3>1
      <3>2. CASE \E p \in Procs : /\ recon[c].seen[j][p] \in {"FILLED", "CANCELED"}
                                  /\ jobRow'[j].state = recon[c].seen[j][p]
        BY <3>2 DEF RowPending, Absent
      <3> QED BY <1>2, <3>1, <3>2, ReconcileCommitRows
    <2> QED BY <2>1, <2>2, <2>3, <2>4 DEF RowPending
  <1> QED BY <1>1, <1>2

-----------------------------------------------------------------------------
(* The rows a busy process writes *)

\* p holds k; what it commits changes the row of k and its order row only.
WritesOwn(p, k) ==
    /\ k = sess[p].job /\ sess[p].col \in Procs /\ Holds(p, k)
    /\ jobRow'[k].state # Absent
    /\ \A j \in Jobs \ {k} : jobRow'[j] = jobRow[j]
    /\ \A j \in Jobs, q \in Procs :
          j # k \/ q # sess[p].col => orders'[j][q] = orders[j][q]
    /\ orders[k][sess[p].col].state # Absent => orders'[k][sess[p].col].state # Absent

LEMMA OwnRowPending ==
    ASSUME TypeInv, RowPending, NEW p \in Procs, NEW k \in Jobs, WritesOwn(p, k),
           UNCHANGED <<phase, recon>>
    PROVE  RowPending'
  <1>1. jobRow[k].state # Absent
    BY DEF WritesOwn, Holds, TypeInv, BusyHasJob
  <1>2. \A j \in Jobs, q \in Procs :
           /\ orders[j][q].state # Absent => orders'[j][q].state # Absent
           /\ j # k => orders'[j][q] = orders[j][q]
    BY DEF WritesOwn
  <1>3. \A j \in Jobs : j # k => jobRow'[j] = jobRow[j]
    BY DEF WritesOwn
  <1>4. jobRow'[k].state # Absent
    BY DEF WritesOwn
  <1> QED BY <1>1, <1>2, <1>3, <1>4 DEF RowPending

LEMMA CommitWritesOwn ==
    ASSUME TypeInv, NEW p \in Procs, CommitResult(p)
    PROVE  \E k \in Jobs :
              /\ WritesOwn(p, k)
              /\ jobRow'[k].retry = jobRow[k].retry
              /\ pc[p] = "applied" /\ pc'[p] = "committed"
              /\ \A q \in Procs \ {p} : pc'[q] = pc[q] /\ sess'[q] = sess[q]
              /\ sess'[p].job = k /\ sess'[p].col = sess[p].col
              /\ sess'[p].jretry = sess[p].jretry /\ sess'[p].jstate = "CREATED"
              /\ UNCHANGED <<phase, recon>>
  <1>1. /\ pc[p] = "applied" /\ pc' = [pc EXCEPT ![p] = "committed"]
        /\ UNCHANGED <<phase, recon>>
    BY DEF CommitResult
  <1>2. PICK k \in Jobs : k = sess[p].job /\ Holds(p, k) /\ jobRow[k].state # Absent
    BY <1>1 DEF TypeInv, BusyHasJob, Holds
  <1>3. /\ sess \in [Procs -> Session] /\ pc \in [Procs -> Steps] /\ sess[p].col \in Procs
        /\ sess[p].status \in ExchangeStatuses
    BY DEF TypeInv, TypeOK, Session
  <1>c. PICK c \in Procs : c = sess[p].col
    BY <1>3
  <1>4. PICK o \in OrderRow, r \in JobRow, t \in Session : CommitWrites(p, o, r, t)
    BY CommitResultRows
  <1>5. /\ orders' = [orders EXCEPT ![k][c] = o]
        /\ o.ext = sess[p].ex /\ o.state = FinalState(sess[p].status)
        /\ jobRow' = [jobRow EXCEPT ![k] = r]
        /\ r.state = Written(jobRow[k].state, sess[p].jstate, FinalState(sess[p].status))
        /\ r.retry = jobRow[k].retry
    BY <1>2, <1>c, <1>4 DEF CommitWrites
  <1>6. /\ sess' = [sess EXCEPT ![p] = t] /\ t.job = k /\ t.col = sess[p].col
        /\ t.jstate = "CREATED" /\ t.jretry = sess[p].jretry
    BY <1>2, <1>4 DEF CommitWrites
  <1>7. o.state # Absent /\ r.state # Absent
    BY <1>2, <1>3, <1>5, FinalStateType, StateFacts DEF Written
  <1>9. /\ orders'[k][c] = o
        /\ \A j \in Jobs, q \in Procs : j # k \/ q # c => orders'[j][q] = orders[j][q]
    <2>1. orders' = [orders EXCEPT ![k][c] = o]
      BY <1>5
    <2>2. orders \in [Jobs -> [Procs -> OrderRow]]
      BY DEF TypeInv, TypeOK
    <2> QED BY <2>1, <2>2
  <1>10. jobRow'[k] = r /\ \A j \in Jobs \ {k} : jobRow'[j] = jobRow[j]
    BY <1>5, <1>7, JobWriteType
  <1>11. WritesOwn(p, k)
    BY <1>2, <1>c, <1>3, <1>7, <1>9, <1>10 DEF WritesOwn
  <1>12. /\ pc'[p] = "committed" /\ sess'[p] = t
         /\ \A q \in Procs \ {p} : pc'[q] = pc[q] /\ sess'[q] = sess[q]
    BY <1>1, <1>3, <1>6
  <1> QED BY <1>1, <1>5, <1>6, <1>10, <1>11, <1>12

LEMMA FailureWritesOwn ==
    ASSUME TypeInv, NEW p \in Procs, HandleFailure(p)
    PROVE  \E k \in Jobs :
              /\ WritesOwn(p, k)
              /\ jobRow'[k].retry = sess[p].jretry + 1
              /\ jobRow'[k].state = IF sess[p].jretry + 1 >= MaxRetry
                                    THEN Written(jobRow[k].state, sess[p].jstate, "FAILED")
                                    ELSE jobRow[k].state
              /\ pc[p] = "failing" /\ pc'[p] = "failed"
              /\ \A q \in Procs \ {p} : pc'[q] = pc[q] /\ sess'[q] = sess[q]
              /\ sess'[p].job = k /\ sess'[p].col = sess[p].col
              /\ sess'[p].jstate = sess[p].jstate
              /\ UNCHANGED <<phase, recon>>
  <1>1. /\ pc[p] = "failing" /\ pc' = [pc EXCEPT ![p] = "failed"]
        /\ UNCHANGED <<phase, recon>>
    BY DEF HandleFailure
  <1>2. PICK k \in Jobs : k = sess[p].job /\ Holds(p, k) /\ jobRow[k].state # Absent
    BY <1>1 DEF TypeInv, BusyHasJob, Holds
  <1>3. /\ sess \in [Procs -> Session] /\ pc \in [Procs -> Steps] /\ sess[p].col \in Procs
    BY DEF TypeInv, TypeOK, Session
  <1>c. PICK c \in Procs : c = sess[p].col
    BY <1>3
  <1>4. PICK o \in OrderRow, r \in JobRow, t \in Session : FailureWrites(p, o, r, t)
    BY HandleFailureRows
  <1>5. /\ orders' = [orders EXCEPT ![k][c] = o] /\ o.state # Absent
        /\ o.ext = IF sess[p].ex # 0 THEN sess[p].ex ELSE orders[k][sess[p].col].ext
        /\ jobRow' = [jobRow EXCEPT ![k] = r]
        /\ r.retry = sess[p].jretry + 1
        /\ r.state = IF sess[p].jretry + 1 >= MaxRetry
                     THEN Written(jobRow[k].state, sess[p].jstate, "FAILED")
                     ELSE jobRow[k].state
    BY <1>2, <1>c, <1>4 DEF FailureWrites, Absent
  <1>6. /\ sess' = [sess EXCEPT ![p] = t] /\ t.job = k /\ t.col = sess[p].col
        /\ t.jstate = sess[p].jstate
    BY <1>2, <1>4 DEF FailureWrites
  <1>7. r.state # Absent
    BY <1>2, <1>5 DEF Written, Absent
  <1>9. /\ orders'[k][c] = o
        /\ \A j \in Jobs, q \in Procs : j # k \/ q # c => orders'[j][q] = orders[j][q]
    <2>1. orders' = [orders EXCEPT ![k][c] = o]
      BY <1>5
    <2>2. orders \in [Jobs -> [Procs -> OrderRow]]
      BY DEF TypeInv, TypeOK
    <2> QED BY <2>1, <2>2
  <1>10. jobRow'[k] = r /\ \A j \in Jobs \ {k} : jobRow'[j] = jobRow[j]
    BY <1>5, <1>7, JobWriteType
  <1>11. WritesOwn(p, k)
    BY <1>2, <1>c, <1>3, <1>5, <1>7, <1>9, <1>10 DEF WritesOwn
  <1>12. /\ pc'[p] = "failed" /\ sess'[p] = t
         /\ \A q \in Procs \ {p} : pc'[q] = pc[q] /\ sess'[q] = sess[q]
    BY <1>1, <1>3, <1>6
  <1> QED BY <1>1, <1>5, <1>6, <1>10, <1>11, <1>12

LEMMA LatencyWritesOwn ==
    ASSUME TypeInv, NEW p \in Procs, LatencyAlert(p)
    PROVE  \E k \in Jobs : WritesOwn(p, k)
  <1>1. pc[p] = "replied" /\ jobRow' = jobRow
    BY DEF LatencyAlert
  <1>2. PICK k \in Jobs : k = sess[p].job /\ Holds(p, k) /\ jobRow[k].state # Absent
    BY <1>1 DEF TypeInv, BusyHasJob, Holds
  <1>3. PICK c \in Procs : c = sess[p].col
    BY DEF TypeInv, TypeOK, Session
  <1> DEFINE o == [state |-> "CREATED", ext |-> 0]
  <1>4. o \in OrderRow /\ o.ext \in 0..Len(exch) /\ o.state # Absent
    BY StateFacts, TypeFacts DEF OrderRow, Absent
  <1>5. orders' = orders \/ orders' = [orders EXCEPT ![k][c] = o]
    BY <1>2, <1>3 DEF LatencyAlert
  <1> HIDE DEF o
  <1>6. /\ \A j \in Jobs, q \in Procs : j # k \/ q # c => orders'[j][q] = orders[j][q]
        /\ orders[k][c].state # Absent => orders'[k][c].state # Absent
    BY <1>4, <1>5, OrderWriteType
  <1> QED BY <1>1, <1>2, <1>3, <1>6 DEF WritesOwn

-----------------------------------------------------------------------------
(* The budget and the order row *)

\* Nobody takes a job, and a holder has what it had or has read its rows again.
HoldersInformed ==
    \A j \in Jobs \ Direct, q \in Procs : (Holds(q, j))' =>
        /\ Holds(q, j)
        /\ sess'[q].col = sess[q].col
        /\ pc[q] = "failed" => pc'[q] = "failed"
        /\ \/ sess'[q].jstate = sess[q].jstate /\ sess'[q].jretry = sess[q].jretry
           \/ sess'[q].jstate = jobRow[j].state /\ sess'[q].jretry = jobRow[j].retry

LEMMA InformedBudget ==
    ASSUME TypeInv, BudgetInv, HoldersInformed, jobRow' = jobRow
    PROVE  BudgetInv'
  <1>1. RetryBudget'
    BY DEF BudgetInv, RetryBudget
  <1>2. HolderInBudget'
    <2> SUFFICES ASSUME NEW j \in Jobs \ Direct, NEW q \in Procs,
                        (Holds(q, j))', pc'[q] # "failed"
                 PROVE  jobRow'[j].retry < MaxRetry /\ sess'[q].jretry = jobRow'[j].retry
      BY DEF HolderInBudget
    <2> QED BY DEF HoldersInformed, BudgetInv, HolderInBudget
  <1>3. HolderSeesTerminal'
    <2> SUFFICES ASSUME NEW j \in Jobs \ Direct, NEW q \in Procs,
                        (Holds(q, j))', sess'[q].jstate \in TERMINAL_STATES
                 PROVE  jobRow'[j].state \in TERMINAL_STATES
      BY DEF HolderSeesTerminal, TERMINAL_STATES
    <2> QED BY DEF HoldersInformed, BudgetInv, HolderSeesTerminal
  <1> QED BY <1>1, <1>2, <1>3 DEF BudgetInv

LEMMA InformedRow ==
    ASSUME RowInv, HoldersInformed,
           \A j \in Jobs, q \in Procs : orders'[j][q].state # Absent => orders[j][q].state # Absent
    PROVE  RowInv'
  <1>1. OneOrderRow'
    BY DEF RowInv, OneOrderRow
  <1>2. HolderOwnsRow'
    <2> SUFFICES ASSUME NEW j \in Jobs \ Direct, NEW p \in Procs, NEW q \in Procs,
                        (Holds(p, j))', orders'[j][q].state # Absent
                 PROVE  q = sess'[p].col
      BY DEF HolderOwnsRow
    <2> QED BY DEF HoldersInformed, RowInv, HolderOwnsRow
  <1> QED BY <1>1, <1>2 DEF RowInv

\* Keeps, Rereads and the end of a session leave the holders informed.
LEMMA BusyInformed ==
    ASSUME TypeInv, NEW p \in Procs, Keeps(p) \/ Rereads(p) \/ EndSession(p)
    PROVE  HoldersInformed
  <1>0. sess \in [Procs -> Session] /\ pc \in [Procs -> Steps]
    BY DEF TypeInv, TypeOK
  <1> SUFFICES ASSUME NEW j \in Jobs \ Direct, NEW q \in Procs, (Holds(q, j))'
               PROVE  /\ Holds(q, j)
                      /\ sess'[q].col = sess[q].col
                      /\ pc[q] = "failed" => pc'[q] = "failed"
                      /\ \/ /\ sess'[q].jstate = sess[q].jstate
                            /\ sess'[q].jretry = sess[q].jretry
                         \/ /\ sess'[q].jstate = jobRow[j].state
                            /\ sess'[q].jretry = jobRow[j].retry
    BY DEF HoldersInformed
  <1>1. CASE q # p
    BY <1>0, <1>1 DEF Keeps, Rereads, EndSession, Holds
  <1>2. CASE q = p
    <2>1. Keeps(p) \/ Rereads(p)
      BY <1>0, <1>2 DEF EndSession, Holds
    <2>2. Holds(p, j) /\ sess[p].job = j
      BY <1>2, <2>1, KeepsContinues, ContinuesHolds DEF Holds
    <2> QED BY <1>0, <1>2, <2>1, <2>2 DEF Keeps, Rereads
  <1> QED BY <1>1, <1>2

\* What BeginJob reads.
LEMMA BeginJobReads ==
    ASSUME TypeInv, NEW p \in Procs, NEW k \in Jobs, BeginJob(p, k)
    PROVE  /\ sess'[p].col \in OrderColumns(p, k)
           /\ sess'[p].jstate = jobRow[k].state /\ sess'[p].jretry = jobRow[k].retry
           /\ Runnable(k)
  <1>1. PICK q \in OrderColumns(p, k) :
         sess' = [sess EXCEPT ![p] =
                    [Idle(p) EXCEPT
                        !.job = k, !.col = q,
                        !.jstate = jobRow[k].state, !.jretry = jobRow[k].retry,
                        !.ostate = IF orders[k][q].state = Absent
                                   THEN "CREATED" ELSE orders[k][q].state]]
    BY DEF BeginJob
  <1>2. sess \in [Procs -> Session] /\ Runnable(k)
    BY DEF TypeInv, TypeOK, BeginJob
  <1> QED BY <1>1, <1>2 DEF Idle

LEMMA BeginBudget ==
    ASSUME TypeInv, BudgetInv, RowInv, NEW p \in Procs, NEW k \in Jobs, BeginJob(p, k),
           pc[p] = "idle", UNCHANGED <<jobRow, orders>>
    PROVE  BudgetInv' /\ RowInv'
  <1>0. /\ sess \in [Procs -> Session] /\ pc \in [Procs -> Steps]
        /\ pc' = [pc EXCEPT ![p] = "sending"] /\ sess'[p].job = k
        /\ \A q \in Procs \ {p} : sess'[q] = sess[q]
    BY BeginJobType DEF TypeInv, TypeOK
  <1>1. \A q \in Procs, j \in Jobs : (Holds(q, j))' <=> Holds(q, j) \/ (q = p /\ j = k)
    BY BeginJobHolds
  <1>2. \A j \in Jobs : ~Holds(p, j)
    BY DEF Holds
  <1>3. RetryBudget'
    BY DEF BudgetInv, RetryBudget
  <1>4. HolderInBudget'
    <2> SUFFICES ASSUME NEW j \in Jobs \ Direct, NEW q \in Procs,
                        (Holds(q, j))', pc'[q] # "failed"
                 PROVE  jobRow'[j].retry < MaxRetry /\ sess'[q].jretry = jobRow'[j].retry
      BY DEF HolderInBudget
    <2>1. CASE q = p
      <3>1. /\ j = k /\ sess'[p].jretry = jobRow[k].retry
            /\ jobRow[k].state \notin TERMINAL_STATES
        BY <1>1, <1>2, <2>1, BeginJobReads DEF Runnable
      <3>2. jobRow[k].retry <= MaxRetry /\ jobRow[k].retry # MaxRetry
        BY <3>1 DEF BudgetInv, RetryBudget
      <3>3. jobRow[k].retry \in Nat /\ MaxRetry \in Nat
        BY TypeFacts, ConstantsAssumption
      <3> QED BY <2>1, <3>1, <3>2, <3>3
    <2>2. CASE q # p
      BY <1>0, <1>1, <2>2 DEF BudgetInv, HolderInBudget
    <2> QED BY <2>1, <2>2
  <1>5. HolderSeesTerminal'
    <2> SUFFICES ASSUME NEW j \in Jobs \ Direct, NEW q \in Procs,
                        (Holds(q, j))', sess'[q].jstate \in TERMINAL_STATES
                 PROVE  jobRow'[j].state \in TERMINAL_STATES
      BY DEF HolderSeesTerminal, TERMINAL_STATES
    <2>1. CASE q = p
      BY <1>1, <1>2, <2>1, BeginJobReads DEF Runnable
    <2>2. CASE q # p
      BY <1>0, <1>1, <2>2 DEF BudgetInv, HolderSeesTerminal
    <2> QED BY <2>1, <2>2
  <1>6. OneOrderRow'
    BY DEF RowInv, OneOrderRow
  <1>7. HolderOwnsRow'
    <2> SUFFICES ASSUME NEW j \in Jobs \ Direct, NEW q \in Procs, NEW c \in Procs,
                        (Holds(q, j))', orders[j][c].state # Absent
                 PROVE  c = sess'[q].col
      BY DEF HolderOwnsRow
    <2>1. CASE q = p
      <3>1. j = k /\ sess'[p].col \in OrderColumns(p, k)
        BY <1>1, <1>2, <2>1, BeginJobReads
      <3>2. sess'[p].col \in Procs /\ orders[k][sess'[p].col].state # Absent
        BY <3>1 DEF OrderColumns
      <3> QED BY <2>1, <3>1, <3>2 DEF RowInv, OneOrderRow
    <2>2. CASE q # p
      BY <1>0, <1>1, <2>2 DEF RowInv, HolderOwnsRow
    <2> QED BY <2>1, <2>2
  <1> QED BY <1>3, <1>4, <1>5, <1>6, <1>7 DEF BudgetInv, RowInv

\* A job has one holder, so the row p writes is not one another holder relies on.
LEMMA OwnRow ==
    ASSUME TypeInv, SingleCustody, RowInv, NEW p \in Procs, NEW k \in Jobs, WritesOwn(p, k),
           \A q \in Procs, j \in Jobs : (Holds(q, j))' <=> Holds(q, j),
           \A q \in Procs : sess'[q].col = sess[q].col
    PROVE  RowInv'
  <1>1. \A j \in Jobs \ {k}, q \in Procs : orders'[j][q] = orders[j][q]
    BY DEF WritesOwn
  <1>2. \A q \in Procs : q # sess[p].col => orders'[k][q] = orders[k][q]
    BY DEF WritesOwn
  <1>3. k \notin Direct => /\ \A q \in Procs : Holds(q, k) => q = p
                           /\ \A q \in Procs : orders'[k][q].state # Absent => q = sess[p].col
    BY <1>2 DEF SingleCustody, WritesOwn, RowInv, HolderOwnsRow
  <1>4. OneOrderRow'
    <2> SUFFICES ASSUME NEW j \in Jobs \ Direct, NEW q \in Procs, NEW r \in Procs,
                        orders'[j][q].state # Absent, orders'[j][r].state # Absent
                 PROVE  q = r
      BY DEF OneOrderRow
    <2>1. CASE j = k
      BY <1>3, <2>1
    <2>2. CASE j # k
      BY <1>1, <2>2 DEF RowInv, OneOrderRow
    <2> QED BY <2>1, <2>2
  <1>5. HolderOwnsRow'
    <2> SUFFICES ASSUME NEW j \in Jobs \ Direct, NEW q \in Procs, NEW c \in Procs,
                        (Holds(q, j))', orders'[j][c].state # Absent
                 PROVE  c = sess'[q].col
      BY DEF HolderOwnsRow
    <2>1. CASE j = k
      BY <1>3, <2>1
    <2>2. CASE j # k
      BY <1>1, <2>2 DEF RowInv, HolderOwnsRow
    <2> QED BY <2>1, <2>2
  <1> QED BY <1>4, <1>5 DEF RowInv

LEMMA CommitBudget ==
    ASSUME TypeInv, SingleCustody, RowPending, BudgetInv, RowInv, NEW p \in Procs,
           CommitResult(p)
    PROVE  RowPending' /\ BudgetInv' /\ RowInv'
  <1>1. PICK k \in Jobs :
              /\ WritesOwn(p, k)
              /\ jobRow'[k].retry = jobRow[k].retry
              /\ pc[p] = "applied" /\ pc'[p] = "committed"
              /\ \A q \in Procs \ {p} : pc'[q] = pc[q] /\ sess'[q] = sess[q]
              /\ sess'[p].job = k /\ sess'[p].col = sess[p].col
              /\ sess'[p].jretry = sess[p].jretry /\ sess'[p].jstate = "CREATED"
              /\ UNCHANGED <<phase, recon>>
    BY CommitWritesOwn
  <1>2. /\ k = sess[p].job /\ Holds(p, k) /\ \A j \in Jobs \ {k} : jobRow'[j] = jobRow[j]
    BY <1>1 DEF WritesOwn
  <1>3. \A q \in Procs, j \in Jobs : (Holds(q, j))' <=> Holds(q, j)
    BY CommitContinues, ContinuesHolds
  <1>4. k \notin Direct => /\ \A q \in Procs : Holds(q, k) => q = p
                           /\ jobRow[k].retry < MaxRetry /\ sess[p].jretry = jobRow[k].retry
    BY <1>1, <1>2 DEF SingleCustody, BudgetInv, HolderInBudget
  <1>5. RetryBudget'
    <2> SUFFICES ASSUME NEW j \in Jobs \ Direct
                 PROVE  /\ jobRow'[j].retry <= MaxRetry
                        /\ jobRow'[j].retry = MaxRetry => jobRow'[j].state \in TERMINAL_STATES
      BY DEF RetryBudget, TERMINAL_STATES
    <2>1. CASE j = k
      <3>1. jobRow[k].retry \in Nat /\ MaxRetry \in Nat
        BY TypeFacts, ConstantsAssumption
      <3> QED BY <1>1, <1>4, <2>1, <3>1
    <2>2. CASE j # k
      BY <1>2, <2>2 DEF BudgetInv, RetryBudget
    <2> QED BY <2>1, <2>2
  <1>6. HolderInBudget'
    <2> SUFFICES ASSUME NEW j \in Jobs \ Direct, NEW q \in Procs,
                        (Holds(q, j))', pc'[q] # "failed"
                 PROVE  jobRow'[j].retry < MaxRetry /\ sess'[q].jretry = jobRow'[j].retry
      BY DEF HolderInBudget
    <2>1. CASE j = k
      BY <1>1, <1>3, <1>4, <2>1
    <2>2. CASE j # k
      <3>1. q # p /\ Holds(q, j)
        BY <1>2, <1>3, <2>2 DEF Holds
      <3> QED BY <1>1, <1>2, <2>2, <3>1 DEF BudgetInv, HolderInBudget
    <2> QED BY <2>1, <2>2
  <1>7. HolderSeesTerminal'
    <2> SUFFICES ASSUME NEW j \in Jobs \ Direct, NEW q \in Procs,
                        (Holds(q, j))', sess'[q].jstate \in TERMINAL_STATES
                 PROVE  jobRow'[j].state \in TERMINAL_STATES
      BY DEF HolderSeesTerminal, TERMINAL_STATES
    <2>1. j # k
      BY <1>1, <1>3, <1>4 DEF TERMINAL_STATES
    <2>2. q # p /\ Holds(q, j)
      BY <1>2, <1>3, <2>1 DEF Holds
    <2> QED BY <1>1, <1>2, <2>1, <2>2 DEF BudgetInv, HolderSeesTerminal
  <1>8. RowInv'
    BY <1>1, <1>3, OwnRow
  <1>9. RowPending'
    BY <1>1, OwnRowPending
  <1> QED BY <1>5, <1>6, <1>7, <1>8, <1>9 DEF BudgetInv

LEMMA FailureBudget ==
    ASSUME TypeInv, SingleCustody, RowPending, BudgetInv, RowInv, NEW p \in Procs,
           HandleFailure(p)
    PROVE  RowPending' /\ BudgetInv' /\ RowInv'
  <1>1. PICK k \in Jobs :
              /\ WritesOwn(p, k)
              /\ jobRow'[k].retry = sess[p].jretry + 1
              /\ jobRow'[k].state = IF sess[p].jretry + 1 >= MaxRetry
                                    THEN Written(jobRow[k].state, sess[p].jstate, "FAILED")
                                    ELSE jobRow[k].state
              /\ pc[p] = "failing" /\ pc'[p] = "failed"
              /\ \A q \in Procs \ {p} : pc'[q] = pc[q] /\ sess'[q] = sess[q]
              /\ sess'[p].job = k /\ sess'[p].col = sess[p].col
              /\ sess'[p].jstate = sess[p].jstate
              /\ UNCHANGED <<phase, recon>>
    BY FailureWritesOwn
  <1>2. /\ k = sess[p].job /\ Holds(p, k) /\ \A j \in Jobs \ {k} : jobRow'[j] = jobRow[j]
    BY <1>1 DEF WritesOwn
  <1>3. \A q \in Procs, j \in Jobs : (Holds(q, j))' <=> Holds(q, j)
    BY CommitContinues, ContinuesHolds
  <1>4. k \notin Direct => /\ \A q \in Procs : Holds(q, k) => q = p
                           /\ jobRow[k].retry < MaxRetry /\ sess[p].jretry = jobRow[k].retry
                           /\ sess[p].jstate \in TERMINAL_STATES =>
                                 jobRow[k].state \in TERMINAL_STATES
    BY <1>1, <1>2 DEF SingleCustody, BudgetInv, HolderInBudget, HolderSeesTerminal
  <1>5. RetryBudget'
    <2> SUFFICES ASSUME NEW j \in Jobs \ Direct
                 PROVE  /\ jobRow'[j].retry <= MaxRetry
                        /\ jobRow'[j].retry = MaxRetry => jobRow'[j].state \in TERMINAL_STATES
      BY DEF RetryBudget, TERMINAL_STATES
    <2>1. CASE j = k
      <3>1. jobRow[k].retry \in Nat /\ MaxRetry \in Nat
        BY TypeFacts, ConstantsAssumption
      <3>2. jobRow'[k].retry <= MaxRetry
        BY <1>1, <1>4, <2>1, <3>1
      <3>3. ASSUME jobRow'[k].retry = MaxRetry PROVE jobRow'[k].state \in TERMINAL_STATES
        <4>1. jobRow'[k].state = Written(jobRow[k].state, sess[p].jstate, "FAILED")
          BY <1>1, <3>1, <3>3
        <4>2. "FAILED" \in TERMINAL_STATES
          BY DEF TERMINAL_STATES
        <4> QED BY <1>4, <2>1, <4>1, <4>2 DEF Written
      <3> QED BY <2>1, <3>2, <3>3
    <2>2. CASE j # k
      BY <1>2, <2>2 DEF BudgetInv, RetryBudget
    <2> QED BY <2>1, <2>2
  <1>6. HolderInBudget'
    <2> SUFFICES ASSUME NEW j \in Jobs \ Direct, NEW q \in Procs,
                        (Holds(q, j))', pc'[q] # "failed"
                 PROVE  jobRow'[j].retry < MaxRetry /\ sess'[q].jretry = jobRow'[j].retry
      BY DEF HolderInBudget
    <2>1. j # k
      BY <1>1, <1>3, <1>4
    <2>2. q # p /\ Holds(q, j)
      BY <1>2, <1>3, <2>1 DEF Holds
    <2> QED BY <1>1, <1>2, <2>1, <2>2 DEF BudgetInv, HolderInBudget
  <1>7. HolderSeesTerminal'
    <2> SUFFICES ASSUME NEW j \in Jobs \ Direct, NEW q \in Procs,
                        (Holds(q, j))', sess'[q].jstate \in TERMINAL_STATES
                 PROVE  jobRow'[j].state \in TERMINAL_STATES
      BY DEF HolderSeesTerminal, TERMINAL_STATES
    <2>1. CASE j = k
      <3>1. jobRow[k].state \in TERMINAL_STATES /\ "FAILED" \in TERMINAL_STATES
        BY <1>1, <1>3, <1>4, <2>1 DEF TERMINAL_STATES
      <3> QED BY <1>1, <2>1, <3>1 DEF Written
    <2>2. CASE j # k
      <3>1. q # p /\ Holds(q, j)
        BY <1>2, <1>3, <2>2 DEF Holds
      <3> QED BY <1>1, <1>2, <2>2, <3>1 DEF BudgetInv, HolderSeesTerminal
    <2> QED BY <2>1, <2>2
  <1>8. RowInv'
    BY <1>1, <1>3, OwnRow
  <1>9. RowPending'
    BY <1>1, OwnRowPending
  <1> QED BY <1>5, <1>6, <1>7, <1>8, <1>9 DEF BudgetInv

LEMMA LatencyBudget ==
    ASSUME TypeInv, SingleCustody, RowPending, BudgetInv, RowInv, NEW p \in Procs,
           LatencyAlert(p)
    PROVE  RowPending' /\ BudgetInv' /\ RowInv'
  <1>1. Rereads(p) /\ UNCHANGED <<phase, jobRow, recon>>
    BY RereadSteps
  <1>2. PICK k \in Jobs : WritesOwn(p, k)
    BY LatencyWritesOwn
  <1>3. \A q \in Procs, j \in Jobs : (Holds(q, j))' <=> Holds(q, j)
    BY <1>1, KeepsContinues, ContinuesHolds
  <1>4. \A q \in Procs : sess'[q].col = sess[q].col
    BY <1>1 DEF Rereads, TypeInv, TypeOK
  <1>5. BudgetInv'
    BY <1>1, BusyInformed, InformedBudget
  <1>6. RowInv'
    BY <1>2, <1>3, <1>4, OwnRow
  <1>7. RowPending'
    BY <1>1, <1>2, OwnRowPending
  <1> QED BY <1>5, <1>6, <1>7

\* submit_signal creates the row of a job nobody holds.
LEMMA SubmitBudget ==
    ASSUME TypeInv, NotYetPushed, RowPending, BudgetInv, RowInv, NEW k \in Jobs, Submit(k)
    PROVE  BudgetInv' /\ RowInv'
  <1> USE DEF Submit, InsertJob, RejectAudit, RejectJob, PushPayload, CommitEnqueue,
              AbortSubmit
  <1>1. UNCHANGED <<orders, pc, sess>>
    BY DEF Sessions
  <1>2. jobRow \in [Jobs -> JobRow]
    BY DEF TypeInv, TypeOK
  <1>3. CASE jobRow' = jobRow
    <2> HIDE DEF Submit, InsertJob, RejectAudit, RejectJob, PushPayload, CommitEnqueue,
                 AbortSubmit
    <2>1. HoldersInformed
      BY <1>1 DEF HoldersInformed, Holds
    <2> QED BY <1>1, <1>3, <2>1, InformedBudget, InformedRow
  <1>4. CASE jobRow' # jobRow
    <2>1. /\ jobRow'[k].retry = 0 /\ \A j \in Jobs \ {k} : jobRow'[j] = jobRow[j]
          /\ phase[k] \in {"flushed", "rejecting", "pushed"}
      BY <1>2, <1>4
    <2> HIDE DEF Submit, InsertJob, RejectAudit, RejectJob, PushPayload, CommitEnqueue,
                 AbortSubmit
    <2>2. k \notin Direct => \A q \in Procs : ~Holds(q, k)
      <3>1. CASE phase[k] = "rejecting"
        BY <3>1 DEF NotYetPushed
      <3>2. CASE phase[k] \in {"flushed", "pushed"}
        BY <3>2 DEF RowPending, TypeInv, BusyHasJob, Holds
      <3> QED BY <2>1, <3>1, <3>2
    <2>3. \A q \in Procs, j \in Jobs : (Holds(q, j))' <=> Holds(q, j)
      BY <1>1 DEF Holds
    <2>4. RetryBudget'
      <3> SUFFICES ASSUME NEW j \in Jobs \ Direct
                   PROVE  /\ jobRow'[j].retry <= MaxRetry
                          /\ jobRow'[j].retry = MaxRetry => jobRow'[j].state \in TERMINAL_STATES
        BY DEF RetryBudget, TERMINAL_STATES
      <3>1. CASE j = k
        BY <2>1, <3>1, ConstantsAssumption
      <3>2. CASE j # k
        BY <2>1, <3>2 DEF BudgetInv, RetryBudget
      <3> QED BY <3>1, <3>2
    <2>5. HolderInBudget'
      <3> SUFFICES ASSUME NEW j \in Jobs \ Direct, NEW q \in Procs,
                          (Holds(q, j))', pc'[q] # "failed"
                   PROVE  jobRow'[j].retry < MaxRetry /\ sess'[q].jretry = jobRow'[j].retry
        BY DEF HolderInBudget
      <3>1. j # k /\ Holds(q, j)
        BY <2>2, <2>3
      <3> QED BY <1>1, <2>1, <3>1 DEF BudgetInv, HolderInBudget
    <2>6. HolderSeesTerminal'
      <3> SUFFICES ASSUME NEW j \in Jobs \ Direct, NEW q \in Procs,
                          (Holds(q, j))', sess'[q].jstate \in TERMINAL_STATES
                   PROVE  jobRow'[j].state \in TERMINAL_STATES
        BY DEF HolderSeesTerminal, TERMINAL_STATES
      <3>1. j # k /\ Holds(q, j)
        BY <2>2, <2>3
      <3> QED BY <1>1, <2>1, <3>1 DEF BudgetInv, HolderSeesTerminal
    <2>7. RowInv'
      BY <1>1, <2>3 DEF RowInv, OneOrderRow, HolderOwnsRow
    <2> QED BY <2>4, <2>5, <2>6, <2>7 DEF BudgetInv
  <1> QED BY <1>3, <1>4

\* Reconciliation assigns terminal states only and creates no row.
LEMMA ReconcileBudget ==
    ASSUME TypeInv, RowPending, BudgetInv, RowInv, NEW c \in Reconcilers, ReconcileCommit(c)
    PROVE  BudgetInv' /\ RowInv'
  <1>1. UNCHANGED <<pc, sess>>
    BY DEF ReconcileCommit, Sessions
  <1>2. \A q \in Procs, j \in Jobs : (Holds(q, j))' <=> Holds(q, j)
    BY <1>1 DEF Holds
  <1>3. \A j \in Jobs : /\ jobRow'[j].retry = jobRow[j].retry
                        /\ \/ jobRow'[j].state = jobRow[j].state
                           \/ jobRow'[j].state \in TERMINAL_STATES
    BY ReconcileCommitRows DEF TERMINAL_STATES
  <1>4. \A j \in Jobs, q \in Procs : orders'[j][q].state # Absent => orders[j][q].state # Absent
    BY ReconcileCommitRows DEF RowPending
  <1>5. RetryBudget'
    BY <1>3 DEF BudgetInv, RetryBudget
  <1>6. HolderInBudget'
    BY <1>1, <1>2, <1>3 DEF BudgetInv, HolderInBudget
  <1>7. HolderSeesTerminal'
    BY <1>1, <1>2, <1>3 DEF BudgetInv, HolderSeesTerminal
  <1>8. HoldersInformed
    BY <1>1 DEF HoldersInformed, Holds
  <1>9. RowInv'
    BY <1>4, <1>8, InformedRow
  <1> QED BY <1>5, <1>6, <1>7, <1>9 DEF BudgetInv

EngineInv == CustodyInv /\ BudgetInv /\ RowInv

LEMMA InitEngineInv == Init => EngineInv
  <1> SUFFICES ASSUME Init PROVE EngineInv
    OBVIOUS
  <1>1. CustodyInv
    BY DEF Init, CustodyInv, SingleCustody, NotYetPushed, RowPending, Holds, Queued, NoJob,
           NoOrder, NotRunning
  <1>2. BudgetInv
    BY ConstantsAssumption
       DEF Init, BudgetInv, RetryBudget, HolderInBudget, HolderSeesTerminal, Holds, NoJob
  <1>3. RowInv
    BY DEF Init, RowInv, OneOrderRow, HolderOwnsRow, Holds, NoOrder
  <1> QED BY <1>1, <1>2, <1>3 DEF EngineInv

LEMMA NextEngineInv == TypeInv /\ EngineInv /\ [Next]_vars => EngineInv'
  <1> SUFFICES ASSUME TypeInv, EngineInv, [Next]_vars PROVE EngineInv'
    OBVIOUS
  <1>0. SingleCustody /\ NotYetPushed /\ RowPending /\ BudgetInv /\ RowInv
    BY DEF EngineInv, CustodyInv
  <1>1. SingleCustody' /\ NotYetPushed'
    BY <1>0, NextCustody
  <1>2. ASSUME HoldersInformed, UNCHANGED <<phase, jobRow, orders, recon>>
        PROVE  RowPending' /\ BudgetInv' /\ RowInv'
    BY <1>0, <1>2, InformedBudget, InformedRow, SameRowPending
  <1>3. RowPending' /\ BudgetInv' /\ RowInv'
    <2>1. CASE \E j \in Jobs : Submit(j)
      BY <1>0, <2>1, SubmitBudget, SubmitRowPending
    <2>2. ASSUME NEW p \in Procs, Take(p) PROVE RowPending' /\ BudgetInv' /\ RowInv'
      <3>1. UNCHANGED <<jobRow, orders, recon>>
        BY <2>2 DEF Take, Consume, ConsumeIgnored, ConsumeDeferred, ConsumeRefused,
                    DirectExecute
      <3>2. \A j \in Jobs : phase'[j] \in {"fresh", "flushed", "pushed"} =>
                               phase[j] \in {"fresh", "flushed", "pushed"}
        BY <2>2 DEF Take, Consume, ConsumeIgnored, ConsumeDeferred, ConsumeRefused,
                    DirectExecute, TypeInv, TypeOK
      <3>3. RowPending'
        BY <1>0, <3>1, <3>2, SameRowPending
      <3>4. CASE Consume(p) \/ \E k \in Jobs : DirectExecute(p, k)
        <4>1. PICK k \in Jobs : BeginJob(p, k) /\ pc[p] = "idle"
          BY <3>4, QueueTail DEF Consume, DirectExecute, TypeInv, TypeOK, Payload
        <4> QED BY <1>0, <3>1, <3>3, <4>1, BeginBudget
      <3>5. CASE ConsumeIgnored(p) \/ ConsumeDeferred(p) \/ ConsumeRefused(p)
        <4>1. UNCHANGED <<pc, sess>>
          BY <3>5 DEF ConsumeIgnored, ConsumeDeferred, ConsumeRefused, Sessions
        <4>2. HoldersInformed
          BY <4>1 DEF HoldersInformed, Holds
        <4> QED BY <1>0, <3>1, <3>3, <4>2, InformedBudget, InformedRow
      <3> QED BY <2>2, <3>4, <3>5 DEF Take
    <2>3. ASSUME NEW p \in Procs, Request(p) \/ Settle(p) \/ Crash(p)
          PROVE  RowPending' /\ BudgetInv' /\ RowInv'
      <3>1. CASE Request(p) \/ ApplyResult(p)
        BY <1>2, <3>1, RequestKeeps, ApplyResultKeeps, BusyInformed
      <3>2. CASE AfterCommitRaises(p)
        <4>1. Rereads(p) /\ UNCHANGED <<phase, jobRow, orders, recon>>
          BY <3>2, RereadSteps DEF AfterCommitRaises
        <4> QED BY <1>2, <4>1, BusyInformed
      <3>3. CASE LatencyAlert(p) \/ CommitResult(p) \/ HandleFailure(p)
        BY <1>0, <3>3, LatencyBudget, CommitBudget, FailureBudget
      <3>4. CASE CommitResultConflict(p) \/ AfterCommit(p) \/ Requeue(p) \/ CloseFailed(p)
                 \/ Crash(p)
        <4>1. EndSession(p) /\ UNCHANGED <<phase, jobRow, orders, recon>>
          BY <3>4 DEF CommitResultConflict, AfterCommit, Requeue, CloseFailed, Crash
        <4> QED BY <1>2, <4>1, BusyInformed
      <3> QED BY <2>3, <3>1, <3>2, <3>3, <3>4 DEF Settle
    <2>4. CASE \E c \in Reconcilers : ReconcileCommit(c)
      BY <1>0, <2>4, ReconcileBudget, ReconcileRowPending
    <2>5. CASE \E c \in Reconcilers : ReconcileRead(c)
      <3>1. UNCHANGED <<jobRow, orders, pc, sess>>
        BY <2>5 DEF ReconcileRead, Sessions
      <3>2. HoldersInformed
        BY <3>1 DEF HoldersInformed, Holds
      <3> QED BY <1>0, <2>5, <3>1, <3>2, InformedBudget, InformedRow, ReconcileRowPending
    <2>6. CASE \/ \E e \in 1..Len(exch), s \in Reported : ExchangeProgress(e, s)
               \/ SetVenue \/ ActivateKillSwitch \/ DeactivateKillSwitch
               \/ UNCHANGED vars
      <3>1. UNCHANGED <<phase, jobRow, orders, recon, pc, sess>>
        BY <2>6 DEF ExchangeProgress, SetVenue, ActivateKillSwitch, DeactivateKillSwitch,
                    Sessions, vars
      <3>2. HoldersInformed
        BY <3>1 DEF HoldersInformed, Holds
      <3> QED BY <1>2, <3>1, <3>2
    <2> QED BY <2>1, <2>2, <2>3, <2>4, <2>5, <2>6 DEF Next
  <1> QED BY <1>1, <1>3 DEF EngineInv, CustodyInv

LEMMA EngineInvariant == Spec => []EngineInv
  BY InitEngineInv, NextEngineInv, InitTypeInv, NextTypeInv, PTL DEF Spec

\* The retry counter of an API job never passes max_retry, and a job whose
\* budget is spent is terminal, although every attempt increments a value its
\* session read before the exchange was called: there is one holder, so the
\* value is never stale.
THEOREM Budget == Spec => []RetryBudget
  <1>1. EngineInv => RetryBudget
    BY DEF EngineInv, BudgetInv
  <1> QED BY <1>1, EngineInvariant, PTL

\* An API job never gets a second row in orders, although execution_job_id is
\* not unique and _create_or_get_order reads before it inserts.
THEOREM OrderRowUnique == Spec => []OneOrderRow
  <1>1. EngineInv => OneOrderRow
    BY DEF EngineInv, RowInv
  <1> QED BY <1>1, EngineInvariant, PTL

-----------------------------------------------------------------------------
(* One execution per key *)

\* The unique index on idempotency_key has an entry for j: its row is inserted
\* or committed.
KeyHeld(j) == phase[j] \in {"flushed", "pushed"} \/ jobRow[j].state # Absent

KeyOwned ==
    /\ \A j, k \in Jobs : KeyOf[j] = KeyOf[k] /\ KeyHeld(j) /\ KeyHeld(k) => j = k
    /\ \A j \in Jobs : phase[j] = "rejecting" => jobRow[j].state # Absent

\* Nothing is sent for a job whose row has not been committed.
SentVisible == \A e \in 1..Len(exch) : jobRow[exch[e].job].state # Absent

KeyInv == KeyOwned /\ SentVisible

LEMMA SubmitKey ==
    ASSUME TypeInv, KeyInv, NEW k \in Jobs, Submit(k)
    PROVE  KeyInv'
  <1>1. phase \in [Jobs -> Phases] /\ jobRow \in [Jobs -> JobRow]
    BY DEF TypeInv, TypeOK
  <1>2. /\ exch' = exch
        /\ \A j \in Jobs \ {k} : phase'[j] = phase[j] /\ jobRow'[j] = jobRow[j]
        /\ jobRow[k].state # Absent => jobRow'[k].state # Absent
    BY <1>1 DEF Submit, InsertJob, RejectAudit, RejectJob, PushPayload, CommitEnqueue,
                AbortSubmit, Absent
  <1>3. /\ (KeyHeld(k))' => KeyHeld(k) \/ ~KeyTaken(k)
        /\ phase'[k] = "rejecting" => jobRow'[k].state # Absent
    BY <1>1 DEF Submit, InsertJob, RejectAudit, RejectJob, PushPayload, CommitEnqueue,
                AbortSubmit, Absent, KeyHeld, KeyInv, KeyOwned
  <1>4. \A j \in Jobs \ {k} : (KeyHeld(j))' <=> KeyHeld(j)
    BY <1>2 DEF KeyHeld
  <1>5. ~KeyTaken(k) => \A j \in Jobs \ {k} : KeyOf[j] = KeyOf[k] => ~KeyHeld(j)
    BY DEF KeyTaken, KeyHeld
  <1>6. ASSUME NEW i \in Jobs, NEW j \in Jobs, KeyOf[i] = KeyOf[j], (KeyHeld(i))', (KeyHeld(j))'
        PROVE  i = j
    <2>1. CASE i # k /\ j # k
      BY <1>4, <1>6, <2>1 DEF KeyInv, KeyOwned
    <2>2. CASE i = k /\ j # k
      BY <1>3, <1>4, <1>5, <1>6, <2>2 DEF KeyInv, KeyOwned
    <2>3. CASE i # k /\ j = k
      BY <1>3, <1>4, <1>5, <1>6, <2>3 DEF KeyInv, KeyOwned
    <2> QED BY <2>1, <2>2, <2>3
  <1>7. KeyOwned'
    BY <1>2, <1>3, <1>6 DEF KeyInv, KeyOwned
  <1>8. SentVisible'
    <2>1. \A e \in 1..Len(exch) : exch[e].job \in Jobs
      BY TypeFacts DEF ExOrder
    <2> QED BY <1>2, <2>1 DEF KeyInv, SentVisible
  <1> QED BY <1>7, <1>8 DEF KeyInv

\* After submit_signal nobody makes a row appear or disappear.
RowsStay ==
    /\ \A j \in Jobs : jobRow'[j].state = Absent <=> jobRow[j].state = Absent
    /\ \A j \in Jobs : phase'[j] = phase[j] \/ phase'[j] = "taken"

\* What the exchange accepts in a step is an order of a job with a row.
AcceptsVisible ==
    \A e \in 1..Len(exch') :
        \/ e \in 1..Len(exch) /\ exch'[e].job = exch[e].job
        \/ exch'[e].job \in Jobs /\ jobRow[exch'[e].job].state # Absent

LEMMA StayKey ==
    ASSUME TypeInv, KeyInv, RowsStay, AcceptsVisible
    PROVE  KeyInv'
  <1>1. KeyOwned'
    BY DEF KeyInv, KeyOwned, KeyHeld, RowsStay
  <1>2. \A e \in 1..Len(exch) : exch[e].job \in Jobs
    BY TypeFacts DEF ExOrder
  <1>3. SentVisible'
    BY <1>2 DEF KeyInv, SentVisible, RowsStay, AcceptsVisible
  <1> QED BY <1>1, <1>3 DEF KeyInv

LEMMA SameAccepts == ASSUME exch' = exch PROVE AcceptsVisible
  BY DEF AcceptsVisible

LEMMA WritesOwnStay ==
    ASSUME TypeInv, NEW p \in Procs, NEW k \in Jobs, WritesOwn(p, k), phase' = phase
    PROVE  RowsStay
  BY DEF WritesOwn, RowsStay, Holds, TypeInv, BusyHasJob

LEMMA ReconcileStay ==
    ASSUME TypeInv, RowPending, NEW c \in Reconcilers, ReconcileCommit(c)
    PROVE  RowsStay
  <1>1. phase' = phase
    BY DEF ReconcileCommit
  <1>2. ASSUME NEW j \in Jobs
        PROVE  jobRow'[j].state = Absent <=> jobRow[j].state = Absent
    <2>1. CASE jobRow'[j].state = jobRow[j].state
      BY <2>1
    <2>2. CASE \E p \in Procs : /\ recon[c].seen[j][p] \in {"FILLED", "CANCELED"}
                                /\ jobRow'[j].state = recon[c].seen[j][p]
      BY <2>2 DEF RowPending, Absent
    <2> QED BY <2>1, <2>2, ReconcileCommitRows
  <1> QED BY <1>1, <1>2 DEF RowsStay

LEMMA RequestAccepts ==
    ASSUME TypeInv, NEW p \in Procs, Request(p)
    PROVE  AcceptsVisible
  <1>1. CASE exch' = exch
    BY <1>1, SameAccepts
  <1>2. CASE \E s \in Reported : Accept(sess[p].job, s)
    <2>1. PICK s \in ExchangeStatuses : Accept(sess[p].job, s)
      BY <1>2, StateFacts
    <2>2. pc[p] = "sending"
      BY DEF Request, BalanceCheckFails, RequestLost, ExchangeRejects, ExchangeAccepts,
             ReplyLost
    <2>3. PICK k \in Jobs : k = sess[p].job /\ jobRow[k].state # Absent
      BY <2>2 DEF TypeInv, BusyHasJob
    <2>4. PICK n \in Nat : n = Len(exch)
      BY TypeFacts
    <2>5. /\ Len(exch') = n + 1 /\ exch'[n + 1] = [job |-> k, status |-> s]
          /\ \A e \in 1..n : exch'[e] = exch[e]
      BY <2>1, <2>3, <2>4, AcceptType DEF TypeInv, TypeOK
    <2>6. exch'[n + 1].job = k
      BY <2>5
    <2>7. \A e \in 1..(n + 1) : e \in 1..n \/ e = n + 1
      OBVIOUS
    <2> QED BY <2>3, <2>4, <2>5, <2>6, <2>7 DEF AcceptsVisible
  <1> QED BY <1>1, <1>2 DEF Request, BalanceCheckFails, RequestLost, ExchangeRejects,
                            ExchangeAccepts, ReplyLost

LEMMA NextKey ==
    ASSUME TypeInv, RowPending, KeyInv, [Next]_vars
    PROVE  KeyInv'
  <1>1. CASE \E j \in Jobs : Submit(j)
    BY <1>1, SubmitKey
  <1>2. ASSUME NEW p \in Procs, Take(p) PROVE RowsStay /\ AcceptsVisible
    <2>1. /\ UNCHANGED <<jobRow, exch>>
          /\ phase' = phase \/ \E j \in Jobs : phase' = [phase EXCEPT ![j] = "taken"]
      BY <1>2 DEF Take, Consume, ConsumeIgnored, ConsumeDeferred, ConsumeRefused,
                  DirectExecute
    <2>2. \A j \in Jobs : phase'[j] = phase[j] \/ phase'[j] = "taken"
      BY <2>1 DEF TypeInv, TypeOK
    <2> QED BY <2>1, <2>2, SameAccepts DEF RowsStay
  <1>3. ASSUME NEW p \in Procs, Request(p) PROVE RowsStay /\ AcceptsVisible
    <2>1. UNCHANGED <<phase, jobRow>>
      BY <1>3, RequestKeeps
    <2> QED BY <1>3, <2>1, RequestAccepts DEF RowsStay
  <1>4. ASSUME NEW p \in Procs, CommitResult(p) \/ HandleFailure(p)
        PROVE  RowsStay /\ AcceptsVisible
    <2>1. UNCHANGED <<phase, exch>>
      BY <1>4 DEF CommitResult, HandleFailure
    <2>2. \E k \in Jobs : WritesOwn(p, k)
      BY <1>4, CommitWritesOwn, FailureWritesOwn
    <2> QED BY <2>1, <2>2, WritesOwnStay, SameAccepts
  <1>5. ASSUME UNCHANGED <<phase, jobRow, exch>> PROVE RowsStay /\ AcceptsVisible
    BY <1>5, SameAccepts DEF RowsStay
  <1>6. ASSUME NEW p \in Procs, Settle(p) \/ Crash(p) PROVE RowsStay /\ AcceptsVisible
    <2>1. \/ CommitResult(p) \/ HandleFailure(p)
          \/ UNCHANGED <<phase, jobRow, exch>>
      BY <1>6 DEF Settle, LatencyAlert, ApplyResult, CommitResultConflict, AfterCommit,
                  AfterCommitRaises, Requeue, CloseFailed, Crash
    <2> QED BY <1>4, <1>5, <2>1
  <1>7. ASSUME NEW c \in Reconcilers, ReconcileRead(c) \/ ReconcileCommit(c)
        PROVE  RowsStay /\ AcceptsVisible
    <2>1. CASE ReconcileRead(c)
      BY <1>5, <2>1 DEF ReconcileRead
    <2>2. CASE ReconcileCommit(c)
      BY <2>2, ReconcileStay, SameAccepts DEF ReconcileCommit
    <2> QED BY <1>7, <2>1, <2>2
  <1>8. CASE \E e \in 1..Len(exch), s \in Reported : ExchangeProgress(e, s)
    <2>1. /\ Len(exch') = Len(exch) /\ \A f \in 1..Len(exch) : exch'[f].job = exch[f].job
          /\ UNCHANGED <<phase, jobRow>>
      BY <1>8, ProgressFacts
    <2>2. RowsStay /\ AcceptsVisible
      BY <2>1 DEF RowsStay, AcceptsVisible
    <2> QED BY <2>2, StayKey
  <1>9. CASE SetVenue \/ ActivateKillSwitch \/ DeactivateKillSwitch \/ UNCHANGED vars
    <2>1. UNCHANGED <<phase, jobRow, exch>>
      BY <1>9 DEF SetVenue, ActivateKillSwitch, DeactivateKillSwitch, vars
    <2> QED BY <1>5, <2>1, StayKey
  <1> QED BY <1>1, <1>2, <1>3, <1>6, <1>7, <1>8, <1>9, StayKey DEF Next

LEMMA InitKey == Init => KeyInv
  BY DEF Init, KeyInv, KeyOwned, SentVisible, KeyHeld, NoJob

LEMMA KeyInvariant == Spec => []KeyInv
  <1>1. EngineInv => RowPending
    BY DEF EngineInv, CustodyInv
  <1>2. TypeInv /\ RowPending /\ KeyInv /\ [Next]_vars => KeyInv'
    BY NextKey
  <1>3. Spec => []TypeInv
    BY InitTypeInv, NextTypeInv, PTL DEF Spec
  <1> QED BY <1>1, <1>2, <1>3, InitKey, EngineInvariant, PTL DEF Spec

\* Of the submissions that share an idempotency key at most one ever reaches
\* the exchange: a payload whose row was rolled back finds no job.
THEOREM ExecutionPerKey == Spec => []OneExecutionPerKey
  <1>1. TypeInv /\ KeyInv => OneExecutionPerKey
    <2>1. TypeInv => \A e \in 1..Len(exch) : exch[e].job \in Jobs
      BY TypeFacts DEF ExOrder
    <2> QED BY <2>1 DEF KeyInv, KeyOwned, SentVisible, KeyHeld, OneExecutionPerKey
  <1>2. Spec => []TypeInv
    BY InitTypeInv, NextTypeInv, PTL DEF Spec
  <1> QED BY <1>1, <1>2, KeyInvariant, PTL

-----------------------------------------------------------------------------
(* What a job can cause at the exchange *)

Sent(j) == {e \in 1..Len(exch) : exch[e].job = j}
Spent(j) == Cardinality(Sent(j))

\* What n attempts of the worker may send.
Allowance(n) == n * MaxAttempts

\* The steps of an attempt after its requests.
AfterRequest == {"replied", "applied", "committed", "failing"}

\* A payload in the queue stands for attempts that have all been counted.
QueuedCounted ==
    \A j \in Jobs \ Direct : Queued(j) => Spent(j) <= Allowance(jobRow[j].retry)

\* The attempt in hand adds at most the requests the adapter has made so far.
HolderCounted ==
    \A j \in Jobs \ Direct, p \in Procs : Holds(p, j) =>
        /\ pc[p] = "sending" =>
              /\ sess[p].attempt < MaxAttempts
              /\ Spent(j) <= Allowance(jobRow[j].retry) + sess[p].attempt
        /\ pc[p] \in AfterRequest =>
              Spent(j) <= Allowance(jobRow[j].retry) + MaxAttempts
        /\ pc[p] = "failed" => Spent(j) <= Allowance(jobRow[j].retry)

SpendInv == BoundedSubmissions /\ QueuedCounted /\ HolderCounted

LEMMA AllowanceFacts ==
    /\ MaxAttempts \in Nat \ {0} /\ MaxRetry \in Nat \ {0}
    /\ Allowance(0) = 0
    /\ \A n \in Nat : Allowance(n) \in Nat /\ Allowance(n + 1) = Allowance(n) + MaxAttempts
    /\ \A n \in Nat : n < MaxRetry => Allowance(n) + MaxAttempts <= MaxRetry * MaxAttempts
  <1>1. MaxAttempts \in Nat \ {0} /\ MaxRetry \in Nat \ {0}
    BY ConstantsAssumption
  <1>2. ASSUME NEW n \in Nat, n < MaxRetry
        PROVE  Allowance(n) + MaxAttempts <= MaxRetry * MaxAttempts
    <2>1. (MaxRetry - n - 1) \in Nat
      BY <1>1, <1>2
    <2>2. (MaxRetry - n - 1) * MaxAttempts >= 0
      BY <1>1, <2>1
    <2>3. MaxRetry * MaxAttempts =
             (MaxRetry - n - 1) * MaxAttempts + n * MaxAttempts + MaxAttempts
      BY <1>1, <1>2
    <2>4. n * MaxAttempts \in Nat /\ (MaxRetry - n - 1) * MaxAttempts \in Int
      BY <1>1, <2>1
    <2> QED BY <1>1, <2>2, <2>3, <2>4 DEF Allowance
  <1>3. \A n \in Nat : Allowance(n) \in Nat /\ Allowance(n + 1) = Allowance(n) + MaxAttempts
    BY <1>1 DEF Allowance
  <1>4. Allowance(0) = 0
    BY <1>1 DEF Allowance
  <1> QED BY <1>1, <1>2, <1>3, <1>4

LEMMA SentFinite ==
    ASSUME TypeInv
    PROVE  \A j : IsFiniteSet(Sent(j)) /\ Spent(j) \in Nat
  <1>1. IsFiniteSet(1..Len(exch))
    BY TypeFacts, FS_Interval
  <1>2. \A j : IsFiniteSet(Sent(j))
    BY <1>1, FS_Subset DEF Sent
  <1> QED BY <1>2, FS_CardinalityType DEF Spent

\* Nothing is sent.
NothingSent == \A j \in Jobs : Spent(j)' = Spent(j)

LEMMA SameExchNothing == ASSUME exch' = exch PROVE NothingSent
  BY DEF NothingSent, Spent, Sent

LEMMA ProgressNothing ==
    ASSUME TypeInv, NEW e \in 1..Len(exch), NEW s \in Reported, ExchangeProgress(e, s)
    PROVE  NothingSent
  <1>1. Len(exch') = Len(exch) /\ \A f \in 1..Len(exch) : exch'[f].job = exch[f].job
    BY ProgressFacts
  <1>2. \A j \in Jobs : Sent(j)' = Sent(j)
    BY <1>1 DEF Sent
  <1> QED BY <1>2 DEF NothingSent, Spent

LEMMA AcceptSent ==
    ASSUME TypeInv, NEW k \in Jobs, NEW s \in Reported, Accept(k, s)
    PROVE  /\ Spent(k)' = Spent(k) + 1
           /\ \A j \in Jobs \ {k} : Spent(j)' = Spent(j)
  <1>1. PICK n \in Nat : n = Len(exch)
    BY TypeFacts
  <1>2. exch \in Seq(ExOrder) /\ s \in ExchangeStatuses
    BY StateFacts DEF TypeInv, TypeOK
  <1>3. /\ Len(exch') = n + 1 /\ exch'[n + 1] = [job |-> k, status |-> s]
        /\ \A e \in 1..n : exch'[e] = exch[e]
    BY <1>1, <1>2, AcceptType, Zenon
  <1>4. exch'[n + 1].job = k
    BY <1>3
  <1>5. \A e : e \in 1..(n + 1) <=> e \in 1..n \/ e = n + 1
    BY <1>1
  <1>6. Sent(k)' = Sent(k) \cup {n + 1}
    <2>1. \A e : e \in Sent(k)' <=> e \in 1..(n + 1) /\ exch'[e].job = k
      BY <1>3 DEF Sent
    <2>2. \A e : e \in Sent(k) <=> e \in 1..n /\ exch[e].job = k
      BY <1>1 DEF Sent
    <2>3. \A e : e \in Sent(k)' <=> e \in Sent(k) \/ e = n + 1
      BY <1>3, <1>4, <1>5, <2>1, <2>2
    <2> QED BY <2>3
  <1>7. n + 1 \notin Sent(k)
    BY <1>1 DEF Sent
  <1>8. Spent(k)' = Spent(k) + 1
    <2>1. IsFiniteSet(Sent(k))
      BY SentFinite
    <2> QED BY <1>6, <1>7, <2>1, FS_AddElement DEF Spent
  <1>9. ASSUME NEW j \in Jobs \ {k} PROVE Spent(j)' = Spent(j)
    <2>1. \A e : e \in Sent(j)' <=> e \in 1..(n + 1) /\ exch'[e].job = j
      BY <1>3 DEF Sent
    <2>2. \A e : e \in Sent(j) <=> e \in 1..n /\ exch[e].job = j
      BY <1>1 DEF Sent
    <2>3. \A e : e \in Sent(j)' <=> e \in Sent(j)
      BY <1>3, <1>4, <1>5, <2>1, <2>2
    <2>4. Sent(j)' = Sent(j)
      BY <2>3
    <2> QED BY <2>4 DEF Spent
  <1> QED BY <1>8, <1>9

\* Who goes on with a job has used what it had used or stays in its attempt.
AttemptsGoOn ==
    \A j \in Jobs \ Direct, q \in Procs : (Holds(q, j))' =>
        /\ Holds(q, j)
        /\ pc'[q] = "sending" => /\ pc[q] = "sending"
                                 /\ sess[q].attempt <= sess'[q].attempt
                                 /\ sess'[q].attempt < MaxAttempts
        /\ pc'[q] \in AfterRequest => pc[q] \in AfterRequest \cup {"sending"}
        /\ pc'[q] = "failed" => pc[q] = "failed"

NothingQueued == \A j \in Jobs \ Direct : (Queued(j))' => Queued(j)

LEMMA GoOnSpend ==
    ASSUME TypeInv, SpendInv, NothingSent, NothingQueued, AttemptsGoOn,
           \A j \in Jobs : jobRow'[j].retry = jobRow[j].retry,
           \A q \in Procs : sess'[q].attempt \in Nat
    PROVE  SpendInv'
  <1>0. /\ \A j \in Jobs : Spent(j) \in Nat /\ jobRow[j].retry \in Nat
        /\ \A j \in Jobs : Allowance(jobRow[j].retry) \in Nat
        /\ \A q \in Procs : sess[q].attempt \in Nat
        /\ MaxAttempts \in Nat
    BY TypeFacts, SentFinite, AllowanceFacts DEF Session
  <1>1. BoundedSubmissions'
    BY DEF SpendInv, BoundedSubmissions, NothingSent, Spent, Sent
  <1>2. QueuedCounted'
    BY DEF SpendInv, QueuedCounted, NothingSent, NothingQueued, Allowance
  <1>3. HolderCounted'
    <2> SUFFICES ASSUME NEW j \in Jobs \ Direct, NEW p \in Procs, (Holds(p, j))'
                 PROVE  /\ pc'[p] = "sending" =>
                              /\ sess'[p].attempt < MaxAttempts
                              /\ Spent(j)' <= Allowance(jobRow'[j].retry) + sess'[p].attempt
                        /\ pc'[p] \in AfterRequest =>
                              Spent(j)' <= Allowance(jobRow'[j].retry) + MaxAttempts
                        /\ pc'[p] = "failed" => Spent(j)' <= Allowance(jobRow'[j].retry)
      BY DEF HolderCounted, AfterRequest, Allowance
    <2>1. Spent(j)' = Spent(j) /\ jobRow'[j].retry = jobRow[j].retry /\ Holds(p, j)
      BY DEF NothingSent, AttemptsGoOn
    <2>2. CASE pc'[p] = "sending"
      <3>1. /\ pc[p] = "sending" /\ sess[p].attempt <= sess'[p].attempt
            /\ sess'[p].attempt < MaxAttempts
        BY <2>2 DEF AttemptsGoOn
      <3>2. Spent(j) <= Allowance(jobRow[j].retry) + sess[p].attempt
        BY <2>1, <3>1 DEF SpendInv, HolderCounted
      <3> QED BY <1>0, <2>1, <2>2, <3>1, <3>2 DEF AfterRequest
    <2>3. CASE pc'[p] \in AfterRequest
      <3>1. pc[p] \in AfterRequest \cup {"sending"}
        BY <2>3 DEF AttemptsGoOn
      <3>2. CASE pc[p] = "sending"
        <4>1. /\ Spent(j) <= Allowance(jobRow[j].retry) + sess[p].attempt
              /\ sess[p].attempt < MaxAttempts
          BY <2>1, <3>2 DEF SpendInv, HolderCounted
        <4> QED BY <1>0, <2>1, <2>3, <4>1 DEF AfterRequest
      <3>3. CASE pc[p] \in AfterRequest
        BY <2>1, <2>3, <3>3 DEF SpendInv, HolderCounted, AfterRequest
      <3> QED BY <3>1, <3>2, <3>3
    <2>4. CASE pc'[p] = "failed"
      BY <2>1, <2>4 DEF SpendInv, HolderCounted, AttemptsGoOn, AfterRequest
    <2> QED BY <2>2, <2>3, <2>4
  <1> QED BY <1>1, <1>2, <1>3 DEF SpendInv

\* A process lets go of its job, or goes on after its requests.
MovesOn(p) ==
    \/ EndSession(p)
    \/ \E t \in Session, step \in AfterRequest :
          /\ sess' = [sess EXCEPT ![p] = t] /\ pc' = [pc EXCEPT ![p] = step]
          /\ t.job = sess[p].job /\ pc[p] \in AfterRequest \cup {"sending"}

LEMMA MovesOnSpend ==
    ASSUME TypeInv, SpendInv, NEW p \in Procs, MovesOn(p), NothingSent, NothingQueued,
           \A j \in Jobs : jobRow'[j].retry = jobRow[j].retry
    PROVE  SpendInv'
  <1>1. sess \in [Procs -> Session] /\ pc \in [Procs -> Steps] /\ Idle(p) \in Session
    BY IdleType DEF TypeInv, TypeOK
  <1>2. \A q \in Procs : sess'[q] \in Session
    BY <1>1 DEF MovesOn, EndSession
  <1>3. \A j \in Jobs, q \in Procs : (Holds(q, j))' => Holds(q, j)
    BY <1>1 DEF MovesOn, EndSession, Holds, AfterRequest
  <1>4. AttemptsGoOn
    <2> SUFFICES ASSUME NEW j \in Jobs \ Direct, NEW q \in Procs, (Holds(q, j))'
                 PROVE  /\ pc'[q] = "sending" => /\ pc[q] = "sending"
                                                 /\ sess[q].attempt <= sess'[q].attempt
                                                 /\ sess'[q].attempt < MaxAttempts
                        /\ pc'[q] \in AfterRequest => pc[q] \in AfterRequest \cup {"sending"}
                        /\ pc'[q] = "failed" => pc[q] = "failed"
      BY <1>3 DEF AttemptsGoOn
    <2>1. CASE q # p
      <3>1. sess'[q] = sess[q] /\ pc'[q] = pc[q]
        BY <1>1, <2>1 DEF MovesOn, EndSession
      <3>2. pc[q] = "sending" => sess[q].attempt < MaxAttempts
        BY <1>3 DEF SpendInv, HolderCounted
      <3>3. sess[q].attempt \in Nat
        BY <1>1 DEF Session
      <3> QED BY <3>1, <3>2, <3>3
    <2>2. CASE q = p
      BY <1>1, <2>2 DEF MovesOn, EndSession, Holds, AfterRequest
    <2> QED BY <2>1, <2>2
  <1>5. \A q \in Procs : sess'[q].attempt \in Nat
    BY <1>2 DEF Session
  <1> QED BY <1>4, <1>5, GoOnSpend

\* Nobody's session changes.
LEMMA ElsewhereSpend ==
    ASSUME TypeInv, SpendInv, UNCHANGED <<pc, sess>>, NothingSent, NothingQueued,
           \A j \in Jobs : jobRow'[j].retry = jobRow[j].retry
    PROVE  SpendInv'
  <1>1. \A q \in Procs : sess'[q].attempt \in Nat
    BY TypeFacts DEF Session
  <1>2. AttemptsGoOn
    BY <1>1 DEF AttemptsGoOn, SpendInv, HolderCounted, Holds
  <1> QED BY <1>1, <1>2, GoOnSpend

LEMMA SameQueueNothing == ASSUME queue' = queue PROVE NothingQueued
  BY DEF NothingQueued, Queued

-----------------------------------------------------------------------------
(* The requests *)

\* A request the exchange does not accept, or one whose reply is lost: sent
\* again, or the attempt has failed.
LEMMA NoReplySteps ==
    ASSUME TypeInv, NEW p \in Procs, pc[p] = "sending", NoReply(p),
           sess[p].attempt < MaxAttempts
    PROVE  \E t \in Session :
              /\ sess' = [sess EXCEPT ![p] = t] /\ t.job = sess[p].job
              /\ \/ pc' = [pc EXCEPT ![p] = "failing"]
                 \/ /\ pc' = [pc EXCEPT ![p] = "sending"]
                    /\ t.attempt = sess[p].attempt + 1 /\ t.attempt < MaxAttempts
  <1>0. sess[p] \in Session /\ sess \in [Procs -> Session] /\ pc \in [Procs -> Steps]
    BY DEF TypeInv, TypeOK
  <1>1. CASE sess[p].attempt + 1 >= MaxAttempts
    <2>1. ToFailing(p, sess[p])
      BY <1>1 DEF NoReply
    <2> QED BY <1>0, <2>1, FailingSession
  <1>2. CASE ~(sess[p].attempt + 1 >= MaxAttempts)
    <2> DEFINE t == [sess[p] EXCEPT !.attempt = @ + 1]
    <2>1. t \in Session /\ t.job = sess[p].job /\ t.attempt = sess[p].attempt + 1
      BY <1>0 DEF Session
    <2>2. sess' = [sess EXCEPT ![p] = t] /\ pc' = pc
      BY <1>0, <1>2 DEF NoReply
    <2>3. pc' = [pc EXCEPT ![p] = "sending"]
      BY <1>0, <2>2
    <2>4. t.attempt < MaxAttempts
      <3>1. sess[p].attempt \in Nat /\ MaxAttempts \in Nat
        BY <1>0, AllowanceFacts DEF Session
      <3> QED BY <1>2, <2>1, <3>1
    <2> HIDE DEF t
    <2> QED BY <2>1, <2>2, <2>3, <2>4
  <1> QED BY <1>1, <1>2

\* The attempt of k is one request further, or over.
Attempted(p, k, n) ==
    \E t \in Session, step \in {"sending", "replied", "failing"} :
       /\ sess' = [sess EXCEPT ![p] = t] /\ pc' = [pc EXCEPT ![p] = step] /\ t.job = k
       /\ step = "sending" => t.attempt = sess[p].attempt + n /\ t.attempt < MaxAttempts

\* p is the only holder of an API job and the payload is not in the queue, so
\* what p sends is counted against its attempt.
LEMMA AttemptSpend ==
    ASSUME TypeInv, SingleCustody, HolderInBudget, SpendInv, NEW p \in Procs, NEW k \in Jobs,
           pc[p] = "sending", k = sess[p].job, Attempted(p, k, 1),
           Spent(k)' \in {Spent(k), Spent(k) + 1},
           \A j \in Jobs \ {k} : Spent(j)' = Spent(j), UNCHANGED <<queue, jobRow>>
    PROVE  SpendInv'
  <1>0. /\ sess \in [Procs -> Session] /\ pc \in [Procs -> Steps] /\ Holds(p, k)
        /\ \A j \in Jobs : Spent(j) \in Nat /\ jobRow[j].retry \in Nat
        /\ \A j \in Jobs : Allowance(jobRow[j].retry) \in Nat
        /\ \A q \in Procs : sess[q].attempt \in Nat
        /\ MaxAttempts \in Nat
    BY TypeFacts, SentFinite, AllowanceFacts DEF Session, TypeInv, TypeOK, Holds
  <1>1. PICK t \in Session, step \in {"sending", "replied", "failing"} :
           /\ sess' = [sess EXCEPT ![p] = t] /\ pc' = [pc EXCEPT ![p] = step] /\ t.job = k
           /\ step = "sending" => t.attempt = sess[p].attempt + 1 /\ t.attempt < MaxAttempts
    BY DEF Attempted
  <1>2. /\ sess'[p] = t /\ pc'[p] = step
        /\ \A q \in Procs \ {p} : sess'[q] = sess[q] /\ pc'[q] = pc[q]
    BY <1>0, <1>1
  <1>3. \A q \in Procs, j \in Jobs : (Holds(q, j))' <=> Holds(q, j)
    BY <1>0, <1>1, <1>2 DEF Holds
  <1>4. k \notin Direct => /\ ~Queued(k) /\ \A q \in Procs : Holds(q, k) => q = p
                           /\ jobRow[k].retry < MaxRetry
                           /\ sess[p].attempt < MaxAttempts
                           /\ Spent(k) <= Allowance(jobRow[k].retry) + sess[p].attempt
    BY <1>0 DEF SingleCustody, Queued, HolderInBudget, SpendInv, HolderCounted
  <1>5. k \notin Direct => Spent(k)' <= Allowance(jobRow[k].retry) + MaxAttempts
    BY <1>0, <1>4
  <1>6. ASSUME NEW j \in Jobs \ Direct PROVE Spent(j)' <= MaxRetry * MaxAttempts
    <2>1. CASE j = k
      <3>1. Allowance(jobRow[k].retry) + MaxAttempts <= MaxRetry * MaxAttempts
        BY <1>0, <1>4, <2>1, AllowanceFacts
      <3>2. MaxRetry * MaxAttempts \in Nat
        BY AllowanceFacts
      <3> QED BY <1>0, <1>5, <2>1, <3>1, <3>2
    <2>2. CASE j # k
      BY <2>2 DEF SpendInv, BoundedSubmissions, Spent, Sent
    <2> QED BY <2>1, <2>2
  <1>7. BoundedSubmissions'
    BY <1>6 DEF BoundedSubmissions, Spent, Sent
  <1>8. QueuedCounted'
    <2> SUFFICES ASSUME NEW j \in Jobs \ Direct, Queued(j)
                 PROVE  Spent(j)' <= Allowance(jobRow[j].retry)
      BY DEF QueuedCounted, Queued, Allowance
    <2>1. j # k
      BY <1>4
    <2> QED BY <2>1 DEF SpendInv, QueuedCounted
  <1>9. HolderCounted'
    <2> SUFFICES ASSUME NEW j \in Jobs \ Direct, NEW q \in Procs, (Holds(q, j))'
                 PROVE  /\ pc'[q] = "sending" =>
                              /\ sess'[q].attempt < MaxAttempts
                              /\ Spent(j)' <= Allowance(jobRow[j].retry) + sess'[q].attempt
                        /\ pc'[q] \in AfterRequest =>
                              Spent(j)' <= Allowance(jobRow[j].retry) + MaxAttempts
                        /\ pc'[q] = "failed" => Spent(j)' <= Allowance(jobRow[j].retry)
      BY DEF HolderCounted, AfterRequest, Allowance
    <2>1. CASE j = k
      <3>1. q = p
        BY <1>3, <1>4, <2>1
      <3>2. CASE step = "sending"
        <4>1. Spent(k)' <= Allowance(jobRow[k].retry) + t.attempt /\ t.attempt < MaxAttempts
          BY <1>0, <1>1, <1>4, <2>1, <3>2
        <4> QED BY <1>2, <2>1, <3>1, <3>2, <4>1 DEF AfterRequest
      <3>3. CASE step # "sending"
        BY <1>2, <1>5, <2>1, <3>1, <3>3
      <3> QED BY <3>2, <3>3
    <2>2. CASE j # k
      <3>1. q # p /\ Holds(q, j)
        BY <1>0, <1>3, <2>2 DEF Holds
      <3>2. sess'[q] = sess[q] /\ pc'[q] = pc[q] /\ Spent(j)' = Spent(j)
        BY <1>2, <2>2, <3>1
      <3> QED BY <3>1, <3>2 DEF SpendInv, HolderCounted
    <2> QED BY <2>1, <2>2
  <1> QED BY <1>7, <1>8, <1>9 DEF SpendInv

LEMMA RequestSpend ==
    ASSUME TypeInv, SingleCustody, HolderInBudget, SpendInv, NEW p \in Procs, Request(p)
    PROVE  SpendInv'
  <1>0. pc[p] = "sending" /\ UNCHANGED <<queue, jobRow>>
    BY DEF Request, BalanceCheckFails, RequestLost, ExchangeRejects, ExchangeAccepts,
           ReplyLost
  <1>1. PICK k \in Jobs : k = sess[p].job /\ Holds(p, k)
    BY <1>0 DEF TypeInv, BusyHasJob, Holds
  <1>2. sess[p] \in Session /\ Len(exch) \in Nat
    BY TypeFacts
  <1>3. CASE BalanceCheckFails(p) \/ ExchangeRejects(p)
    <2>1. ToFailing(p, sess[p]) /\ exch' = exch
      BY <1>3 DEF BalanceCheckFails, ExchangeRejects
    <2>2. MovesOn(p)
      BY <1>0, <1>2, <2>1, FailingSession DEF MovesOn, AfterRequest
    <2> QED BY <1>0, <2>1, <2>2, MovesOnSpend, SameExchNothing, SameQueueNothing
  <1>4. CASE RequestLost(p) \/ \E s \in Reported : ReplyLost(p, s)
    <2>1. NoReply(p)
      BY <1>4 DEF RequestLost, ReplyLost
    <2>2. k \notin Direct => sess[p].attempt < MaxAttempts
      BY <1>0, <1>1 DEF SpendInv, HolderCounted
    <2>3. Spent(k)' \in {Spent(k), Spent(k) + 1} /\ \A j \in Jobs \ {k} : Spent(j)' = Spent(j)
      <3>1. CASE exch' = exch
        BY <3>1, SameExchNothing DEF NothingSent
      <3>2. CASE \E s \in Reported : Accept(k, s)
        BY <3>2, AcceptSent
      <3> QED BY <1>1, <1>4, <3>1, <3>2 DEF RequestLost, ReplyLost
    <2>4. CASE sess[p].attempt < MaxAttempts
      <3>1. Attempted(p, k, 1)
        BY <1>0, <1>1, <2>1, <2>4, NoReplySteps DEF Attempted
      <3> QED BY <1>0, <1>1, <2>3, <3>1, AttemptSpend
    <2>5. CASE ~(sess[p].attempt < MaxAttempts)
      \* A job of a go-live run, about which nothing is claimed.
      <3>1. k \in Direct
        BY <2>2, <2>5
      <3>2. ToFailing(p, sess[p])
        <4>1. sess[p].attempt \in Nat /\ MaxAttempts \in Nat
          BY <1>2, AllowanceFacts DEF Session
        <4> QED BY <2>1, <2>5, <4>1 DEF NoReply
      <3>3. PICK t \in Session :
              /\ sess' = [sess EXCEPT ![p] = t] /\ pc' = [pc EXCEPT ![p] = "failing"]
              /\ t.job = k
        BY <1>1, <1>2, <3>2, FailingSession
      <3>4. Attempted(p, k, 1)
        BY <3>3 DEF Attempted
      <3> QED BY <1>0, <1>1, <2>3, <3>4, AttemptSpend
    <2> QED BY <2>4, <2>5
  <1>5. CASE \E s \in Reported : ExchangeAccepts(p, s)
    <2>1. PICK s \in Reported : ExchangeAccepts(p, s)
      BY <1>5
    <2>2. PICK n \in Nat : n = Len(exch) + 1
      BY <1>2
    <2> DEFINE t == [sess[p] EXCEPT !.attempt = 0, !.status = s, !.ex = n]
    <2>3. /\ sess' = [sess EXCEPT ![p] = t] /\ pc' = [pc EXCEPT ![p] = "replied"]
          /\ Accept(k, s)
      BY <1>1, <2>1, <2>2, Zenon DEF ExchangeAccepts
    <2>4. t \in Session /\ t.job = k
      BY <1>1, <1>2, StateFacts DEF Session
    <2> HIDE DEF t
    <2>5. Attempted(p, k, 1)
      BY <2>3, <2>4 DEF Attempted
    <2> QED BY <1>0, <1>1, <2>3, <2>5, AttemptSpend, AcceptSent
  <1> QED BY <1>3, <1>4, <1>5 DEF Request

-----------------------------------------------------------------------------
(* The other steps of a busy process *)

LEMMA SettleMovesOn ==
    ASSUME TypeInv, NEW p \in Procs,
           \/ LatencyAlert(p) \/ ApplyResult(p) \/ CommitResult(p)
           \/ CommitResultConflict(p) \/ AfterCommit(p) \/ AfterCommitRaises(p)
           \/ CloseFailed(p) \/ Crash(p)
    PROVE  /\ MovesOn(p) /\ UNCHANGED <<queue, exch>>
           /\ \A j \in Jobs : jobRow'[j].retry = jobRow[j].retry
  <1>1. UNCHANGED <<queue, exch>>
    BY DEF LatencyAlert, ApplyResult, CommitResult, CommitResultConflict, AfterCommit,
           AfterCommitRaises, CloseFailed, Crash
  <1>2. pc \in [Procs -> Steps] /\ sess[p] \in Session
    BY DEF TypeInv, TypeOK
  <1>3. CASE CommitResultConflict(p) \/ AfterCommit(p) \/ CloseFailed(p) \/ Crash(p)
    BY <1>1, <1>3 DEF CommitResultConflict, AfterCommit, CloseFailed, Crash, MovesOn
  <1>4. CASE LatencyAlert(p)
    <2>1. /\ pc[p] = "replied" /\ pc' = [pc EXCEPT ![p] = "replied"]
          /\ sess' = [sess EXCEPT ![p] = Refreshed(p)] /\ jobRow' = jobRow
      BY <1>2, <1>4 DEF LatencyAlert
    <2> QED BY <1>1, <2>1, RefreshedType DEF MovesOn, AfterRequest
  <1>5. CASE AfterCommitRaises(p)
    <2>1. pc[p] = "committed" /\ ToFailing(p, Refreshed(p)) /\ jobRow' = jobRow
      BY <1>5 DEF AfterCommitRaises
    <2>2. Refreshed(p) \in Session /\ Refreshed(p).job = sess[p].job
      BY <2>1, RefreshedType
    <2> QED BY <1>1, <2>1, <2>2, FailingSession DEF MovesOn, AfterRequest
  <1>6. CASE ApplyResult(p)
    <2>1. pc[p] = "replied" /\ jobRow' = jobRow
      BY <1>6 DEF ApplyResult
    <2>2. CASE ToFailing(p, sess[p])
      BY <1>1, <1>2, <2>1, <2>2, FailingSession DEF MovesOn, AfterRequest
    <2>3. CASE CanApply(sess[p].ostate, sess[p].status)
      <3> DEFINE n == IF sess[p].status = "FILLED" THEN position[UserOf[sess[p].job]] ELSE 0
                 t == [sess[p] EXCEPT !.pos = n]
      <3>1. n \in Nat
        BY <2>1, ConstantsAssumption DEF TypeInv, TypeOK, BusyHasJob
      <3>2. sess' = [sess EXCEPT ![p] = t] /\ pc' = [pc EXCEPT ![p] = "applied"]
        BY <1>6, <2>3 DEF ApplyResult, TypeInv, TypeOK
      <3> HIDE DEF n
      <3>3. t \in Session /\ t.job = sess[p].job
        BY <1>2, <3>1 DEF Session
      <3> HIDE DEF t
      <3> QED BY <1>1, <2>1, <3>2, <3>3 DEF MovesOn, AfterRequest
    <2> QED BY <1>6, <2>2, <2>3 DEF ApplyResult
  <1>7. CASE CommitResult(p)
    <2>1. pc[p] = "applied" /\ pc' = [pc EXCEPT ![p] = "committed"]
      BY <1>7 DEF CommitResult
    <2>2. \E t \in Session : sess' = [sess EXCEPT ![p] = t] /\ t.job = sess[p].job
      BY <1>7, CommitResultRows DEF CommitWrites
    <2>3. \A j \in Jobs : jobRow'[j].retry = jobRow[j].retry
      BY <1>7, CommitWritesOwn DEF WritesOwn
    <2> QED BY <1>1, <2>1, <2>2, <2>3 DEF MovesOn, AfterRequest
  <1> QED BY <1>3, <1>4, <1>5, <1>6, <1>7

\* The failure is counted: what the attempt sent is covered by one more.
LEMMA FailureSpend ==
    ASSUME TypeInv, SingleCustody, HolderInBudget, SpendInv, NEW p \in Procs, HandleFailure(p)
    PROVE  SpendInv'
  <1>1. PICK k \in Jobs :
              /\ WritesOwn(p, k)
              /\ jobRow'[k].retry = sess[p].jretry + 1
              /\ pc[p] = "failing" /\ pc'[p] = "failed"
              /\ \A q \in Procs \ {p} : pc'[q] = pc[q] /\ sess'[q] = sess[q]
    BY FailureWritesOwn
  <1>2. Holds(p, k) /\ \A j \in Jobs \ {k} : jobRow'[j] = jobRow[j]
    BY <1>1 DEF WritesOwn
  <1>3. \A q \in Procs, j \in Jobs : (Holds(q, j))' <=> Holds(q, j)
    BY CommitContinues, ContinuesHolds
  <1>4. \A j \in Jobs : Spent(j)' = Spent(j)
    BY SameExchNothing DEF HandleFailure, NothingSent
  <1>5. k \notin Direct => /\ ~Queued(k) /\ \A q \in Procs : Holds(q, k) => q = p
                           /\ sess[p].jretry = jobRow[k].retry
                           /\ Spent(k) <= Allowance(jobRow[k].retry) + MaxAttempts
    BY <1>1, <1>2 DEF SingleCustody, Queued, HolderInBudget, SpendInv, HolderCounted,
                      AfterRequest
  <1>6. k \notin Direct => Spent(k)' <= Allowance(jobRow'[k].retry)
    BY <1>1, <1>4, <1>5, TypeFacts, AllowanceFacts
  <1>7. BoundedSubmissions'
    BY <1>4 DEF SpendInv, BoundedSubmissions, Spent, Sent
  <1>8. QueuedCounted'
    <2> SUFFICES ASSUME NEW j \in Jobs \ Direct, Queued(j)
                 PROVE  Spent(j)' <= Allowance(jobRow'[j].retry)
      BY DEF QueuedCounted, Queued, Allowance, HandleFailure
    <2> QED BY <1>2, <1>4, <1>5 DEF SpendInv, QueuedCounted
  <1>9. HolderCounted'
    <2> SUFFICES ASSUME NEW j \in Jobs \ Direct, NEW q \in Procs, (Holds(q, j))'
                 PROVE  /\ pc'[q] = "sending" =>
                              /\ sess'[q].attempt < MaxAttempts
                              /\ Spent(j)' <= Allowance(jobRow'[j].retry) + sess'[q].attempt
                        /\ pc'[q] \in AfterRequest =>
                              Spent(j)' <= Allowance(jobRow'[j].retry) + MaxAttempts
                        /\ pc'[q] = "failed" => Spent(j)' <= Allowance(jobRow'[j].retry)
      BY DEF HolderCounted, AfterRequest, Allowance
    <2>1. CASE j = k
      BY <1>1, <1>3, <1>5, <1>6, <2>1 DEF AfterRequest
    <2>2. CASE j # k
      <3>1. q # p /\ Holds(q, j)
        BY <1>2, <1>3, <2>2 DEF Holds
      <3>2. sess'[q] = sess[q] /\ pc'[q] = pc[q] /\ Spent(j)' = Spent(j)
            /\ jobRow'[j] = jobRow[j]
        BY <1>1, <1>2, <1>4, <2>2, <3>1
      <3> QED BY <3>1, <3>2 DEF SpendInv, HolderCounted
    <2> QED BY <2>1, <2>2
  <1> QED BY <1>7, <1>8, <1>9 DEF SpendInv

LEMMA RequeueSpend ==
    ASSUME TypeInv, SpendInv, NEW p \in Procs, Requeue(p)
    PROVE  SpendInv'
  <1>1. PICK k \in Jobs : k = sess[p].job /\ Holds(p, k)
    BY DEF Requeue, TypeInv, BusyHasJob, Holds
  <1> DEFINE x == [job |-> k, retried |-> TRUE]
  <1>2. /\ pc[p] = "failed" /\ EndSession(p) /\ queue' = Append(queue, x)
        /\ UNCHANGED <<jobRow, exch>>
    BY <1>1 DEF Requeue
  <1>3. x.job = k /\ x \in Payload
    BY DEF Payload
  <1> HIDE DEF x
  <1>4. ASSUME NEW j \in Jobs, (Queued(j))' PROVE Queued(j) \/ j = k
    BY <1>2, <1>3, <1>4 DEF Queued, TypeInv, TypeOK
  <1>5. \A j \in Jobs : Spent(j)' = Spent(j)
    BY <1>2, SameExchNothing DEF NothingSent
  <1>6. QueuedCounted'
    <2> SUFFICES ASSUME NEW j \in Jobs \ Direct, (Queued(j))'
                 PROVE  Spent(j)' <= Allowance(jobRow'[j].retry)
      BY DEF QueuedCounted, Allowance
    <2> QED BY <1>1, <1>2, <1>4, <1>5 DEF SpendInv, QueuedCounted, HolderCounted
  <1>7. BoundedSubmissions'
    BY <1>5 DEF SpendInv, BoundedSubmissions, Spent, Sent
  <1>8. HolderCounted'
    <2> SUFFICES ASSUME NEW j \in Jobs \ Direct, NEW q \in Procs, (Holds(q, j))'
                 PROVE  /\ pc'[q] = "sending" =>
                              /\ sess'[q].attempt < MaxAttempts
                              /\ Spent(j)' <= Allowance(jobRow'[j].retry) + sess'[q].attempt
                        /\ pc'[q] \in AfterRequest =>
                              Spent(j)' <= Allowance(jobRow'[j].retry) + MaxAttempts
                        /\ pc'[q] = "failed" => Spent(j)' <= Allowance(jobRow'[j].retry)
      BY DEF HolderCounted, AfterRequest, Allowance
    <2>1. q # p /\ Holds(q, j)
      BY <1>2, EndSessionHolds
    <2>2. sess'[q] = sess[q] /\ pc'[q] = pc[q]
      BY <1>2, <2>1 DEF EndSession, TypeInv, TypeOK
    <2> QED BY <1>2, <1>5, <2>1, <2>2 DEF SpendInv, HolderCounted
  <1> QED BY <1>6, <1>7, <1>8 DEF SpendInv

LEMMA ShrinksNothing == ASSUME QueueShrinks PROVE NothingQueued
  BY DEF QueueShrinks, NothingQueued, Queued

\* The payload of k, or a go-live run, starts an attempt.
LEMMA BeginSpend ==
    ASSUME TypeInv, SpendInv, NEW p \in Procs, NEW k \in Jobs, BeginJob(p, k),
           pc[p] = "idle", k \in Direct \/ Queued(k), NothingQueued, UNCHANGED <<jobRow, exch>>
    PROVE  SpendInv'
  <1>0. /\ sess \in [Procs -> Session] /\ pc \in [Procs -> Steps]
        /\ pc' = [pc EXCEPT ![p] = "sending"]
        /\ \A q \in Procs \ {p} : sess'[q] = sess[q]
    BY BeginJobType DEF TypeInv, TypeOK
  <1>1. \A q \in Procs, j \in Jobs : (Holds(q, j))' <=> Holds(q, j) \/ (q = p /\ j = k)
    BY BeginJobHolds
  <1>2. \A j \in Jobs : ~Holds(p, j)
    BY DEF Holds
  <1>3. sess'[p].attempt = 0
    BY <1>0 DEF BeginJob, Idle
  <1>4. \A j \in Jobs : Spent(j)' = Spent(j)
    BY SameExchNothing DEF NothingSent
  <1>5. BoundedSubmissions'
    BY <1>4 DEF SpendInv, BoundedSubmissions, Spent, Sent
  <1>6. QueuedCounted'
    BY <1>4 DEF SpendInv, QueuedCounted, NothingQueued, Allowance
  <1>7. HolderCounted'
    <2> SUFFICES ASSUME NEW j \in Jobs \ Direct, NEW q \in Procs, (Holds(q, j))'
                 PROVE  /\ pc'[q] = "sending" =>
                              /\ sess'[q].attempt < MaxAttempts
                              /\ Spent(j)' <= Allowance(jobRow'[j].retry) + sess'[q].attempt
                        /\ pc'[q] \in AfterRequest =>
                              Spent(j)' <= Allowance(jobRow'[j].retry) + MaxAttempts
                        /\ pc'[q] = "failed" => Spent(j)' <= Allowance(jobRow'[j].retry)
      BY DEF HolderCounted, AfterRequest, Allowance
    <2>1. CASE q = p
      <3>1. j = k /\ Spent(k) <= Allowance(jobRow[k].retry)
        BY <1>1, <1>2, <2>1 DEF SpendInv, QueuedCounted
      <3>2. Allowance(jobRow[k].retry) \in Nat /\ Spent(k) \in Nat /\ 0 < MaxAttempts
        <4>1. jobRow[k].retry \in Nat
          BY TypeFacts
        <4>2. Spent(k) \in Nat
          BY SentFinite
        <4> QED BY <4>1, <4>2, AllowanceFacts
      <3> QED BY <1>0, <1>3, <1>4, <2>1, <3>1, <3>2 DEF AfterRequest
    <2>2. CASE q # p
      <3>1. Holds(q, j) /\ sess'[q] = sess[q] /\ pc'[q] = pc[q]
        BY <1>0, <1>1, <2>2
      <3> QED BY <1>4, <3>1 DEF SpendInv, HolderCounted
    <2> QED BY <2>1, <2>2
  <1> QED BY <1>5, <1>6, <1>7 DEF SpendInv

LEMMA TakeSpend ==
    ASSUME TypeInv, SpendInv, NEW p \in Procs, Take(p)
    PROVE  SpendInv'
  <1>0. UNCHANGED <<jobRow, exch>>
    BY DEF Take, Consume, ConsumeIgnored, ConsumeDeferred, ConsumeRefused, DirectExecute
  <1>1. CASE Consume(p)
    <2>1. /\ pc[p] = "idle" /\ queue # <<>> /\ queue' = Tail(queue)
          /\ BeginJob(p, Head(queue).job)
      BY <1>1 DEF Consume
    <2>2. PICK k \in Jobs : k = Head(queue).job /\ Queued(k)
      BY <2>1, TailFacts DEF Queued, Payload
    <2> QED BY <1>0, <2>1, <2>2, TailShrinks, ShrinksNothing, BeginSpend
  <1>2. CASE \E k \in Jobs : DirectExecute(p, k)
    BY <1>0, <1>2, BeginSpend, SameQueueNothing DEF DirectExecute
  <1>3. CASE ConsumeIgnored(p) \/ ConsumeDeferred(p) \/ ConsumeRefused(p)
    <2>1. /\ UNCHANGED <<pc, sess>> /\ queue # <<>>
          /\ queue' = Tail(queue) \/ queue' = Append(Tail(queue), Head(queue))
      BY <1>3 DEF ConsumeIgnored, ConsumeDeferred, ConsumeRefused, Sessions
    <2>2. NothingQueued
      BY <2>1, TailShrinks, RotateShrinks, ShrinksNothing
    <2> QED BY <1>0, <2>1, <2>2, SameExchNothing, ElsewhereSpend
  <1> QED BY <1>1, <1>2, <1>3 DEF Take

\* No order of a job exists before its row does.
LEMMA UnseenUnspent ==
    ASSUME TypeInv, SentVisible, NEW j \in Jobs, jobRow[j].state = Absent
    PROVE  Spent(j) = 0
  <1>1. Sent(j) = {}
    BY DEF SentVisible, Sent
  <1> QED BY <1>1, FS_EmptySet DEF Spent

LEMMA SubmitSpend ==
    ASSUME TypeInv, NotYetPushed, RowPending, SentVisible, SpendInv, NEW k \in Jobs, Submit(k)
    PROVE  SpendInv'
  <1> USE DEF Submit, InsertJob, RejectAudit, RejectJob, PushPayload, CommitEnqueue,
              AbortSubmit
  <1>1. UNCHANGED <<exch, pc, sess>>
    BY DEF Sessions
  <1>2. jobRow \in [Jobs -> JobRow] /\ queue \in Seq(Payload)
    BY DEF TypeInv, TypeOK
  <1>3. CASE UNCHANGED <<jobRow, queue>>
    BY <1>1, <1>3, SameExchNothing, SameQueueNothing, ElsewhereSpend
  <1>4. CASE ~UNCHANGED <<jobRow, queue>>
    <2>1. /\ jobRow'[k].retry \in {0, jobRow[k].retry}
          /\ \A j \in Jobs \ {k} : jobRow'[j] = jobRow[j]
          /\ phase[k] \in {"flushed", "rejecting", "pushed"}
          /\ queue' # queue => phase[k] = "flushed"
                               /\ queue' = Append(queue, [job |-> k, retried |-> FALSE])
      BY <1>2, <1>4
    <2> HIDE DEF Submit, InsertJob, RejectAudit, RejectJob, PushPayload, CommitEnqueue,
                 AbortSubmit
    <2>2. k \notin Direct => \A q \in Procs : ~Holds(q, k)
      <3>1. CASE phase[k] = "rejecting"
        BY <3>1 DEF NotYetPushed
      <3>2. CASE phase[k] \in {"flushed", "pushed"}
        BY <3>2 DEF RowPending, TypeInv, BusyHasJob, Holds
      <3> QED BY <2>1, <3>1, <3>2
    <2>3. ASSUME NEW j \in Jobs, (Queued(j))' PROVE Queued(j) \/ (j = k /\ phase[k] = "flushed")
      <3>1. CASE queue' = queue
        BY <2>3, <3>1 DEF Queued
      <3>2. CASE queue' # queue
        <4> DEFINE x == [job |-> k, retried |-> FALSE]
        <4>1. x.job = k /\ x \in Payload /\ queue' = Append(queue, x)
          BY <2>1, <3>2 DEF Payload
        <4> HIDE DEF x
        <4> QED BY <1>2, <2>1, <2>3, <3>2, <4>1 DEF Queued
      <3> QED BY <3>1, <3>2
    <2>4. k \notin Direct => ((Queued(k))' => Spent(k) = 0)
      <3> SUFFICES ASSUME k \notin Direct, (Queued(k))' PROVE Spent(k) = 0
        OBVIOUS
      <3>1. phase[k] # "rejecting"
        BY <2>3 DEF NotYetPushed
      <3>2. jobRow[k].state = Absent
        BY <2>1, <3>1 DEF RowPending
      <3> QED BY <3>2, UnseenUnspent
    <2>5. \A j \in Jobs : Spent(j)' = Spent(j)
      BY <1>1, SameExchNothing DEF NothingSent
    <2>6. BoundedSubmissions'
      BY <2>5 DEF SpendInv, BoundedSubmissions, Spent, Sent
    <2>7. QueuedCounted'
      <3> SUFFICES ASSUME NEW j \in Jobs \ Direct, (Queued(j))'
                   PROVE  Spent(j)' <= Allowance(jobRow'[j].retry)
        BY DEF QueuedCounted, Allowance
      <3>1. CASE j = k
        <4>1. Spent(j)' = 0
          BY <2>4, <2>5, <3>1
        <4>2. jobRow'[j].retry \in Nat
          BY <2>1, <3>1, TypeFacts
        <4> QED BY <4>1, <4>2, AllowanceFacts
      <3>2. CASE j # k
        BY <2>1, <2>3, <2>5, <3>2 DEF SpendInv, QueuedCounted
      <3> QED BY <3>1, <3>2
    <2>8. HolderCounted'
      <3> SUFFICES ASSUME NEW j \in Jobs \ Direct, NEW q \in Procs, (Holds(q, j))'
                   PROVE  /\ pc'[q] = "sending" =>
                              /\ sess'[q].attempt < MaxAttempts
                              /\ Spent(j)' <= Allowance(jobRow'[j].retry) + sess'[q].attempt
                          /\ pc'[q] \in AfterRequest =>
                              Spent(j)' <= Allowance(jobRow'[j].retry) + MaxAttempts
                          /\ pc'[q] = "failed" => Spent(j)' <= Allowance(jobRow'[j].retry)
        BY DEF HolderCounted, AfterRequest, Allowance
      <3>1. Holds(q, j) /\ j # k
        BY <1>1, <2>2 DEF Holds
      <3> QED BY <1>1, <2>1, <2>5, <3>1 DEF SpendInv, HolderCounted
    <2> QED BY <2>6, <2>7, <2>8 DEF SpendInv
  <1> QED BY <1>3, <1>4

LEMMA NextSpend ==
    ASSUME TypeInv, EngineInv, KeyInv, SpendInv, [Next]_vars
    PROVE  SpendInv'
  <1>0. SingleCustody /\ NotYetPushed /\ RowPending /\ HolderInBudget /\ SentVisible
    BY DEF EngineInv, CustodyInv, BudgetInv, KeyInv
  <1>1. CASE \E j \in Jobs : Submit(j)
    BY <1>0, <1>1, SubmitSpend
  <1>2. CASE \E p \in Procs : Take(p) \/ Request(p)
    BY <1>0, <1>2, TakeSpend, RequestSpend
  <1>3. ASSUME NEW p \in Procs, Settle(p) \/ Crash(p) PROVE SpendInv'
    <2>1. CASE HandleFailure(p) \/ Requeue(p)
      BY <1>0, <2>1, FailureSpend, RequeueSpend
    <2>2. CASE ~(HandleFailure(p) \/ Requeue(p))
      <3>1. /\ MovesOn(p) /\ UNCHANGED <<queue, exch>>
            /\ \A j \in Jobs : jobRow'[j].retry = jobRow[j].retry
        BY <1>3, <2>2, SettleMovesOn DEF Settle
      <3> QED BY <3>1, MovesOnSpend, SameExchNothing, SameQueueNothing
    <2> QED BY <2>1, <2>2
  <1>4. CASE \E c \in Reconcilers : ReconcileRead(c) \/ ReconcileCommit(c)
    <2>1. PICK c \in Reconcilers : ReconcileRead(c) \/ ReconcileCommit(c)
      BY <1>4
    <2>2. UNCHANGED <<queue, exch, pc, sess>>
      BY <2>1 DEF ReconcileRead, ReconcileCommit, Sessions
    <2>3. \A j \in Jobs : jobRow'[j].retry = jobRow[j].retry
      BY <2>1, ReconcileCommitRows DEF ReconcileRead
    <2> QED BY <2>2, <2>3, ElsewhereSpend, SameExchNothing, SameQueueNothing
  <1>5. CASE \E e \in 1..Len(exch), s \in Reported : ExchangeProgress(e, s)
    <2>1. UNCHANGED <<queue, jobRow, pc, sess>>
      BY <1>5, ProgressFacts
    <2> QED BY <1>5, <2>1, ElsewhereSpend, ProgressNothing, SameQueueNothing
  <1>6. CASE SetVenue \/ ActivateKillSwitch \/ DeactivateKillSwitch \/ UNCHANGED vars
    <2>1. UNCHANGED <<queue, exch, jobRow, pc, sess>>
      BY <1>6 DEF SetVenue, ActivateKillSwitch, DeactivateKillSwitch, Sessions, vars
    <2> QED BY <2>1, ElsewhereSpend, SameExchNothing, SameQueueNothing
  <1> QED BY <1>1, <1>2, <1>3, <1>4, <1>5, <1>6 DEF Next

LEMMA InitSpend == Init => SpendInv
  <1> SUFFICES ASSUME Init PROVE SpendInv
    OBVIOUS
  <1>1. \A j \in Jobs : {e \in 1..Len(exch) : exch[e].job = j} = {}
    BY DEF Init
  <1>2. BoundedSubmissions
    <2>1. MaxRetry * MaxAttempts >= 0
      BY AllowanceFacts
    <2> QED BY <1>1, <2>1, FS_EmptySet DEF BoundedSubmissions
  <1>3. QueuedCounted /\ HolderCounted
    BY DEF Init, QueuedCounted, HolderCounted, Queued, Holds
  <1> QED BY <1>2, <1>3 DEF SpendInv

\* However often the worker and the adapter retry, and whatever is lost or
\* crashes, an API job sends no more than MaxRetry times MaxAttempts orders:
\* an attempt that failed is counted before the payload is back in the queue.
THEOREM Submissions == Spec => []BoundedSubmissions
  <1>1. TypeInv /\ EngineInv /\ KeyInv /\ SpendInv /\ [Next]_vars => SpendInv'
    BY NextSpend
  <1>2. Spec => []TypeInv
    BY InitTypeInv, NextTypeInv, PTL DEF Spec
  <1>3. SpendInv => BoundedSubmissions
    BY DEF SpendInv
  <1> QED BY <1>1, <1>2, <1>3, InitSpend, EngineInvariant, KeyInvariant, PTL DEF Spec

-----------------------------------------------------------------------------
(* Orders that are closed stay closed *)

OneReconciler == \A c, d \in Reconcilers : c = d

\* The row does not say yet that the order was sent.
Unplaced(j, q) == orders[j][q].state \in {Absent, "CREATED"}

\* Such a row has no external id, so no reconciliation looks at it.
UnplacedHasNoId ==
    \A j \in Jobs \ Direct, q \in Procs : Unplaced(j, q) => orders[j][q].ext = 0

\* What the session of p believes about the order row of j is so.
Knows(p, j) ==
    /\ pc[p] \in {"sending", "committed"} => sess[p].ex = 0
    /\ pc[p] \in {"sending", "replied", "applied"} =>
          (sess[p].ostate = "CREATED" <=> Unplaced(j, sess[p].col))
    /\ pc[p] = "applied" => sess[p].ostate = "CREATED"
    /\ pc[p] = "failing" /\ sess[p].ex # 0 => ~Unplaced(j, sess[p].col)

HolderKnows == \A j \in Jobs \ Direct, p \in Procs : Holds(p, j) => Knows(p, j)

\* The orders a reconciliation is about to close are open.
SeenOpen ==
    \A c \in Reconcilers, j \in Jobs \ Direct, q \in Procs :
        recon[c].seen[j][q] # Absent => orders[j][q].state \in OPEN_STATES \ {"CREATED"}

PlacedInv == UnplacedHasNoId /\ HolderKnows /\ SeenOpen

\* The step of TerminalOrdersFinal.
ClosedStay ==
    \A j \in Jobs \ Direct, q \in Procs :
        orders[j][q].state \in TERMINAL_STATES => orders'[j][q].state = orders[j][q].state

\* A row may appear; otherwise its state stays.
OrdersKept ==
    \A j \in Jobs \ Direct, q \in Procs :
        /\ Unplaced(j, q) => (Unplaced(j, q))' /\ orders'[j][q].ext = 0
        /\ ~Unplaced(j, q) => orders'[j][q].state = orders[j][q].state

LEMMA SameOrdersKept == ASSUME PlacedInv, orders' = orders PROVE OrdersKept
  BY DEF PlacedInv, UnplacedHasNoId, OrdersKept, Unplaced

LEMMA KeptClosed == ASSUME OrdersKept PROVE ClosedStay
  BY DEF OrdersKept, ClosedStay, Unplaced, TERMINAL_STATES, Absent

\* Only p moves, and the rows keep what they say.
LEMMA SessionPlaced ==
    ASSUME TypeInv, PlacedInv, NEW p \in Procs, OrdersKept,
           \A q \in Procs \ {p} : sess'[q] = sess[q] /\ pc'[q] = pc[q],
           recon' = recon,
           \A j \in Jobs \ Direct : (Holds(p, j))' => (Knows(p, j))'
    PROVE  PlacedInv' /\ ClosedStay
  <1>1. \A j \in Jobs \ Direct, q \in Procs : (Unplaced(j, q))' <=> Unplaced(j, q)
    BY DEF OrdersKept, Unplaced
  <1>2. UnplacedHasNoId'
    BY <1>1 DEF UnplacedHasNoId, OrdersKept
  <1>3. HolderKnows'
    <2> SUFFICES ASSUME NEW j \in Jobs \ Direct, NEW q \in Procs, (Holds(q, j))'
                 PROVE  (Knows(q, j))'
      BY DEF HolderKnows
    <2>1. CASE q # p
      <3>1. sess'[q] = sess[q] /\ pc'[q] = pc[q] /\ sess[q].col \in Procs /\ Holds(q, j)
        BY <2>1, TypeFacts DEF Session, Holds
      <3>2. (Unplaced(j, sess[q].col))' <=> Unplaced(j, sess[q].col)
        BY <3>1, <1>1 DEF Unplaced
      <3>3. Knows(q, j)
        BY <3>1 DEF PlacedInv, HolderKnows
      <3> QED BY <3>1, <3>2, <3>3 DEF Knows, Unplaced
    <2> QED BY <2>1
  <1>4. SeenOpen'
    BY DEF PlacedInv, SeenOpen, OrdersKept, Unplaced, OPEN_STATES, Absent
  <1> QED BY <1>2, <1>3, <1>4, KeptClosed DEF PlacedInv

\* Nobody moves and the rows stay.
LEMMA ElsewherePlaced ==
    ASSUME TypeInv, PlacedInv, UNCHANGED <<orders, pc, sess, recon>>
    PROVE  PlacedInv' /\ ClosedStay
  BY SameOrdersKept, KeptClosed
     DEF PlacedInv, UnplacedHasNoId, HolderKnows, SeenOpen, Knows, Unplaced, Holds

LEMMA EndPlaced ==
    ASSUME TypeInv, PlacedInv, NEW p \in Procs, EndSession(p), UNCHANGED <<orders, recon>>
    PROVE  PlacedInv' /\ ClosedStay
  <1>1. sess \in [Procs -> Session] /\ pc \in [Procs -> Steps]
    BY DEF TypeInv, TypeOK
  <1>2. /\ \A q \in Procs \ {p} : sess'[q] = sess[q] /\ pc'[q] = pc[q]
        /\ \A j \in Jobs : ~(Holds(p, j))'
    BY <1>1 DEF EndSession, Holds
  <1> QED BY <1>2, SameOrdersKept, SessionPlaced

\* The attempt fails; what its order row says is known if it has an id for it.
LEMMA FailingPlaced ==
    ASSUME TypeInv, PlacedInv, NEW p \in Procs, NEW s \in Session, ToFailing(p, s),
           s.job = sess[p].job, s.col = sess[p].col,
           \A j \in Jobs \ Direct : s.job = j => s.ex = 0 \/ ~Unplaced(j, s.col),
           UNCHANGED <<orders, recon>>
    PROVE  PlacedInv' /\ ClosedStay
  <1>1. sess \in [Procs -> Session] /\ pc \in [Procs -> Steps]
    BY DEF TypeInv, TypeOK
  <1>2. PICK t \in Session :
              /\ sess' = [sess EXCEPT ![p] = t] /\ pc' = [pc EXCEPT ![p] = "failing"]
              /\ t.job = s.job /\ t.ex = s.ex /\ t.col = s.col
    BY FailingSession
  <1>3. /\ \A q \in Procs \ {p} : sess'[q] = sess[q] /\ pc'[q] = pc[q]
        /\ sess'[p] = t /\ pc'[p] = "failing"
    BY <1>1, <1>2
  <1>4. \A j \in Jobs \ Direct : (Holds(p, j))' => (Knows(p, j))'
    BY <1>2, <1>3 DEF Holds, Knows, Unplaced
  <1> QED BY <1>3, <1>4, SameOrdersKept, SessionPlaced

LEMMA BeginPlaced ==
    ASSUME TypeInv, PlacedInv, NEW p \in Procs, NEW k \in Jobs, BeginJob(p, k),
           UNCHANGED <<orders, recon>>
    PROVE  PlacedInv' /\ ClosedStay
  <1>1. sess \in [Procs -> Session] /\ pc \in [Procs -> Steps]
    BY DEF TypeInv, TypeOK
  <1>2. PICK c \in OrderColumns(p, k) :
         sess' = [sess EXCEPT ![p] =
                    [Idle(p) EXCEPT
                        !.job = k, !.col = c,
                        !.jstate = jobRow[k].state, !.jretry = jobRow[k].retry,
                        !.ostate = IF orders[k][c].state = Absent
                                   THEN "CREATED" ELSE orders[k][c].state]]
    BY DEF BeginJob
  <1>3. /\ \A q \in Procs \ {p} : sess'[q] = sess[q] /\ pc'[q] = pc[q]
        /\ pc'[p] = "sending"
    BY <1>1, <1>2, BeginJobType
  <1>4. /\ sess'[p].job = k /\ sess'[p].col = c /\ sess'[p].ex = 0
        /\ sess'[p].ostate = IF orders[k][c].state = Absent THEN "CREATED"
                             ELSE orders[k][c].state
    BY <1>1, <1>2 DEF Idle
  <1>5. \A j \in Jobs \ Direct : (Holds(p, j))' => (Knows(p, j))'
    BY <1>3, <1>4 DEF Holds, Knows, Unplaced, Absent
  <1> QED BY <1>3, <1>5, SameOrdersKept, SessionPlaced

LEMMA RequestPlaced ==
    ASSUME TypeInv, PlacedInv, NEW p \in Procs, Request(p)
    PROVE  PlacedInv' /\ ClosedStay
  <1>0. pc[p] = "sending" /\ UNCHANGED <<orders, recon>>
    BY DEF Request, BalanceCheckFails, RequestLost, ExchangeRejects, ExchangeAccepts,
           ReplyLost
  <1>1. /\ sess \in [Procs -> Session] /\ pc \in [Procs -> Steps] /\ sess[p] \in Session
        /\ Len(exch) \in Nat
    BY TypeFacts DEF TypeInv, TypeOK
  <1>2. PICK k \in Jobs : k = sess[p].job /\ Holds(p, k)
    BY <1>0 DEF TypeInv, BusyHasJob, Holds
  <1>3. k \notin Direct => Knows(p, k)
    BY <1>2 DEF PlacedInv, HolderKnows
  <1>4. CASE ToFailing(p, sess[p])
    BY <1>0, <1>1, <1>2, <1>3, <1>4, FailingPlaced DEF Knows
  <1>5. CASE /\ sess' = [sess EXCEPT ![p].attempt = @ + 1] /\ UNCHANGED pc
    <2>1. /\ \A q \in Procs \ {p} : sess'[q] = sess[q] /\ pc'[q] = pc[q]
          /\ sess'[p].job = k /\ sess'[p].col = sess[p].col /\ sess'[p].ex = sess[p].ex
          /\ sess'[p].ostate = sess[p].ostate /\ pc'[p] = "sending"
      BY <1>0, <1>1, <1>2, <1>5 DEF Session
    <2>2. \A j \in Jobs \ Direct : (Holds(p, j))' => (Knows(p, j))'
      BY <1>0, <1>3, <2>1 DEF Holds, Knows, Unplaced
    <2> QED BY <1>0, <2>1, <2>2, SameOrdersKept, SessionPlaced
  <1>6. CASE \E s \in Reported : ExchangeAccepts(p, s)
    <2>1. PICK s \in Reported : ExchangeAccepts(p, s)
      BY <1>6
    <2>2. PICK n \in Nat : n = Len(exch) + 1
      BY <1>1
    <2>3. /\ sess' = [sess EXCEPT ![p] = [@ EXCEPT !.attempt = 0, !.status = s, !.ex = n]]
          /\ pc' = [pc EXCEPT ![p] = "replied"]
      BY <2>1, <2>2, Zenon DEF ExchangeAccepts
    <2>4. /\ \A q \in Procs \ {p} : sess'[q] = sess[q] /\ pc'[q] = pc[q]
          /\ sess'[p].job = k /\ sess'[p].col = sess[p].col
          /\ sess'[p].ostate = sess[p].ostate /\ pc'[p] = "replied"
      BY <1>1, <1>2, <2>3 DEF Session
    <2>5. \A j \in Jobs \ Direct : (Holds(p, j))' => (Knows(p, j))'
      BY <1>0, <1>3, <2>4 DEF Holds, Knows, Unplaced
    <2> QED BY <1>0, <2>4, <2>5, SameOrdersKept, SessionPlaced
  <1> QED BY <1>4, <1>5, <1>6 DEF Request, BalanceCheckFails, RequestLost, ExchangeRejects,
                                  ReplyLost, NoReply

LEMMA LatencyPlaced ==
    ASSUME TypeInv, PlacedInv, NEW p \in Procs, LatencyAlert(p)
    PROVE  PlacedInv' /\ ClosedStay
  <1>1. /\ sess \in [Procs -> Session] /\ pc \in [Procs -> Steps]
        /\ orders \in [Jobs -> [Procs -> OrderRow]] /\ sess[p] \in Session
    BY DEF TypeInv, TypeOK
  <1>2. PICK k \in Jobs, c \in Procs : k = sess[p].job /\ c = sess[p].col
    BY <1>1 DEF LatencyAlert, TypeInv, BusyHasJob, Session
  <1>3. /\ pc[p] = "replied" /\ pc' = pc /\ recon' = recon
        /\ sess' = [sess EXCEPT ![p] = Refreshed(p)]
        /\ orders' = IF orders[k][c].state = Absent
                     THEN [orders EXCEPT ![k][c] = [state |-> "CREATED", ext |-> 0]]
                     ELSE orders
    BY <1>2 DEF LatencyAlert
  <1>4. OrdersKept
    <2>1. CASE orders' = orders
      BY <2>1, SameOrdersKept
    <2>2. CASE orders[k][c].state = Absent
      <3>1. \A j \in Jobs, q \in Procs :
               orders'[j][q] = IF j = k /\ q = c THEN [state |-> "CREATED", ext |-> 0]
                               ELSE orders[j][q]
        BY <1>1, <1>3, <2>2
      <3>2. \A j \in Jobs, q \in Procs :
               \/ orders'[j][q] = orders[j][q]
               \/ Unplaced(j, q) /\ orders'[j][q].state = "CREATED" /\ orders'[j][q].ext = 0
        BY <2>2, <3>1 DEF Unplaced
      <3> QED BY <3>2 DEF OrdersKept, Unplaced, PlacedInv, UnplacedHasNoId
    <2> QED BY <1>3, <2>1, <2>2
  <1>5. /\ \A q \in Procs \ {p} : sess'[q] = sess[q] /\ pc'[q] = pc[q]
        /\ sess'[p] = Refreshed(p) /\ pc'[p] = "replied"
    BY <1>1, <1>3
  <1>6. /\ Refreshed(p).job = k /\ Refreshed(p).col = c
        /\ Refreshed(p).ostate = IF orders[k][c].state = Absent THEN "CREATED"
                                 ELSE orders[k][c].state
    BY <1>1, <1>2, <1>3, RefreshedType DEF Refreshed, Session
  <1>7. ASSUME NEW j \in Jobs \ Direct, (Holds(p, j))' PROVE (Knows(p, j))'
    <2>1. j = k
      BY <1>5, <1>6, <1>7 DEF Holds
    <2>2. (Unplaced(k, c))' <=> Unplaced(k, c)
      BY <1>4, <2>1 DEF OrdersKept, Unplaced
    <2>3. (Unplaced(j, sess[p].col))' <=> Refreshed(p).ostate = "CREATED"
      BY <1>5, <1>6, <2>1, <2>2 DEF Unplaced
    <2> QED BY <1>5, <2>3 DEF Knows, Unplaced
  <1> QED BY <1>3, <1>4, <1>5, <1>7, SessionPlaced

LEMMA AppliesCreated ==
    \A s \in ExchangeStatuses : CanApply("CREATED", s)
  BY DEF ExchangeStatuses, CanApply, FinalState, Allowed, STATE_TRANSITIONS, EngineStates,
         OPEN_STATES, TERMINAL_STATES

LEMMA AppliesOnlyCreated ==
    \A o \in OrderStates, s \in ExchangeStatuses : CanApply(o, s) => o = "CREATED"
  BY DEF CanApply, Allowed, STATE_TRANSITIONS, EngineStates, OPEN_STATES, TERMINAL_STATES

LEMMA ApplyPlaced ==
    ASSUME TypeInv, PlacedInv, NEW p \in Procs, ApplyResult(p)
    PROVE  PlacedInv' /\ ClosedStay
  <1>1. /\ sess \in [Procs -> Session] /\ pc \in [Procs -> Steps] /\ sess[p] \in Session
        /\ sess[p].ostate \in OrderStates /\ sess[p].status \in ExchangeStatuses
    BY DEF TypeInv, TypeOK, Session
  <1>2. pc[p] = "replied" /\ UNCHANGED <<orders, recon>>
    BY DEF ApplyResult
  <1>3. PICK k \in Jobs : k = sess[p].job /\ Holds(p, k)
    BY <1>2 DEF TypeInv, BusyHasJob, Holds
  <1>4. k \notin Direct => (sess[p].ostate = "CREATED" <=> Unplaced(k, sess[p].col))
    BY <1>2, <1>3 DEF PlacedInv, HolderKnows, Knows
  <1>5. CASE CanApply(sess[p].ostate, sess[p].status)
    <2>1. PICK n : sess' = [sess EXCEPT ![p] = [@ EXCEPT !.pos = n]]
      BY <1>5 DEF ApplyResult
    <2>2. /\ \A q \in Procs \ {p} : sess'[q] = sess[q] /\ pc'[q] = pc[q]
          /\ sess'[p].job = k /\ sess'[p].col = sess[p].col
          /\ sess'[p].ostate = sess[p].ostate /\ pc'[p] = "applied"
      BY <1>1, <1>3, <1>5, <2>1 DEF ApplyResult, Session
    <2>3. sess[p].ostate = "CREATED"
      BY <1>1, <1>5, AppliesOnlyCreated
    <2>4. \A j \in Jobs \ Direct : (Holds(p, j))' => (Knows(p, j))'
      BY <1>2, <1>4, <2>2, <2>3 DEF Holds, Knows, Unplaced
    <2> QED BY <1>2, <2>2, <2>4, SameOrdersKept, SessionPlaced
  <1>6. CASE ~CanApply(sess[p].ostate, sess[p].status)
    <2>1. ToFailing(p, sess[p])
      BY <1>6 DEF ApplyResult
    <2>2. sess[p].ostate # "CREATED"
      BY <1>1, <1>6, AppliesCreated
    <2> QED BY <1>1, <1>2, <1>3, <1>4, <2>1, <2>2, FailingPlaced
  <1> QED BY <1>5, <1>6

\* The result is written into a row that does not say yet the order was sent.
LEMMA ResultPlaced ==
    ASSUME TypeInv, SingleCustody, PlacedInv, NEW p \in Procs, CommitResult(p)
    PROVE  PlacedInv' /\ ClosedStay
  <1>0. /\ sess \in [Procs -> Session] /\ pc \in [Procs -> Steps] /\ sess[p] \in Session
        /\ orders \in [Jobs -> [Procs -> OrderRow]] /\ sess[p].status \in ExchangeStatuses
    BY DEF TypeInv, TypeOK, Session
  <1>1. pc[p] = "applied" /\ pc' = [pc EXCEPT ![p] = "committed"] /\ recon' = recon
    BY DEF CommitResult
  <1>2. PICK k \in Jobs, c \in Procs : k = sess[p].job /\ c = sess[p].col /\ Holds(p, k)
    BY <1>0, <1>1 DEF TypeInv, BusyHasJob, Session, Holds
  <1>3. PICK o \in OrderRow, r \in JobRow, t \in Session : CommitWrites(p, o, r, t)
    BY CommitResultRows
  <1>4. /\ orders' = [orders EXCEPT ![k][c] = o] /\ o.state = FinalState(sess[p].status)
        /\ sess' = [sess EXCEPT ![p] = t] /\ t.job = k /\ t.ex = 0
    BY <1>2, <1>3 DEF CommitWrites
  <1>5. \A j \in Jobs, q \in Procs :
           orders'[j][q] = IF j = k /\ q = c THEN o ELSE orders[j][q]
    BY <1>0, <1>4
  <1>6. /\ \A q \in Procs \ {p} : sess'[q] = sess[q] /\ pc'[q] = pc[q]
        /\ sess'[p] = t /\ pc'[p] = "committed"
    BY <1>0, <1>1, <1>4
  <1>7. o.state \notin {Absent, "CREATED"}
    BY <1>0, <1>4 DEF FinalState, Absent, ExchangeStatuses
  <1>8. k \notin Direct => Unplaced(k, c) /\ \A q \in Procs : Holds(q, k) => q = p
    BY <1>1, <1>2 DEF PlacedInv, HolderKnows, Knows, SingleCustody
  <1>9. UnplacedHasNoId'
    BY <1>5, <1>7 DEF PlacedInv, UnplacedHasNoId, Unplaced
  <1>10. HolderKnows'
    <2> SUFFICES ASSUME NEW j \in Jobs \ Direct, NEW q \in Procs, (Holds(q, j))'
                 PROVE  (Knows(q, j))'
      BY DEF HolderKnows
    <2>1. CASE q = p
      BY <1>4, <1>6, <2>1 DEF Knows
    <2>2. CASE q # p
      <3>1. sess'[q] = sess[q] /\ pc'[q] = pc[q] /\ sess[q].col \in Procs /\ Holds(q, j)
        BY <1>0, <1>6, <2>2 DEF Session, Holds
      <3>2. j # k
        BY <1>8, <2>2, <3>1
      <3>3. orders'[j][sess[q].col] = orders[j][sess[q].col] /\ Knows(q, j)
        BY <1>5, <3>1, <3>2 DEF PlacedInv, HolderKnows
      <3> QED BY <3>1, <3>3 DEF Knows, Unplaced
    <2> QED BY <2>1, <2>2
  <1>11. SeenOpen'
    <2> SUFFICES ASSUME NEW d \in Reconcilers, NEW j \in Jobs \ Direct, NEW q \in Procs,
                        recon[d].seen[j][q] # Absent
                 PROVE  orders'[j][q].state \in OPEN_STATES \ {"CREATED"}
      BY <1>1 DEF SeenOpen, OPEN_STATES, Absent
    <2>1. orders[j][q].state \in OPEN_STATES \ {"CREATED"}
      BY DEF PlacedInv, SeenOpen
    <2>2. ~(j = k /\ q = c)
      BY <1>8, <2>1 DEF Unplaced, OPEN_STATES, Absent
    <2> QED BY <1>5, <2>1, <2>2
  <1>12. ClosedStay
    BY <1>5, <1>8 DEF ClosedStay, Unplaced, TERMINAL_STATES, Absent
  <1> QED BY <1>9, <1>10, <1>11, <1>12 DEF PlacedInv

LEMMA FailurePlaced ==
    ASSUME TypeInv, PlacedInv, NEW p \in Procs, HandleFailure(p)
    PROVE  PlacedInv' /\ ClosedStay
  <1>0. /\ sess \in [Procs -> Session] /\ pc \in [Procs -> Steps] /\ sess[p] \in Session
        /\ orders \in [Jobs -> [Procs -> OrderRow]]
    BY DEF TypeInv, TypeOK
  <1>1. pc[p] = "failing" /\ pc' = [pc EXCEPT ![p] = "failed"] /\ recon' = recon
    BY DEF HandleFailure
  <1>2. PICK k \in Jobs, c \in Procs : k = sess[p].job /\ c = sess[p].col /\ Holds(p, k)
    BY <1>0, <1>1 DEF TypeInv, BusyHasJob, Session, Holds
  <1>3. PICK o \in OrderRow, r \in JobRow, t \in Session : FailureWrites(p, o, r, t)
    BY HandleFailureRows
  <1>4. /\ orders' = [orders EXCEPT ![k][c] = o] /\ sess' = [sess EXCEPT ![p] = t]
        /\ o.ext = IF sess[p].ex # 0 THEN sess[p].ex ELSE orders[k][c].ext
        /\ o.state = IF orders[k][c].state = Absent THEN "CREATED" ELSE orders[k][c].state
    BY <1>2, <1>3 DEF FailureWrites
  <1>5. \A j \in Jobs, q \in Procs :
           orders'[j][q] = IF j = k /\ q = c THEN o ELSE orders[j][q]
    BY <1>0, <1>4
  <1>6. k \notin Direct => sess[p].ex = 0 \/ ~Unplaced(k, c)
    BY <1>1, <1>2 DEF PlacedInv, HolderKnows, Knows
  <1>7. OrdersKept
    <2> SUFFICES ASSUME NEW j \in Jobs \ Direct, NEW q \in Procs
                 PROVE  /\ Unplaced(j, q) => (Unplaced(j, q))' /\ orders'[j][q].ext = 0
                        /\ ~Unplaced(j, q) => orders'[j][q].state = orders[j][q].state
      BY DEF OrdersKept
    <2>1. CASE j = k /\ q = c
      BY <1>4, <1>5, <1>6, <2>1 DEF Unplaced, PlacedInv, UnplacedHasNoId
    <2>2. CASE ~(j = k /\ q = c)
      BY <1>5, <2>2 DEF Unplaced, PlacedInv, UnplacedHasNoId
    <2> QED BY <2>1, <2>2
  <1>8. /\ \A q \in Procs \ {p} : sess'[q] = sess[q] /\ pc'[q] = pc[q]
        /\ pc'[p] = "failed"
    BY <1>0, <1>1, <1>4
  <1>9. \A j \in Jobs \ Direct : (Holds(p, j))' => (Knows(p, j))'
    BY <1>8 DEF Knows
  <1> QED BY <1>1, <1>7, <1>8, <1>9, SessionPlaced

LEMMA RaisesPlaced ==
    ASSUME TypeInv, PlacedInv, NEW p \in Procs, AfterCommitRaises(p)
    PROVE  PlacedInv' /\ ClosedStay
  <1>1. /\ pc[p] = "committed" /\ ToFailing(p, Refreshed(p)) /\ UNCHANGED <<orders, recon>>
    BY DEF AfterCommitRaises
  <1>2. /\ Refreshed(p) \in Session /\ Refreshed(p).job = sess[p].job
        /\ Refreshed(p).col = sess[p].col /\ Refreshed(p).ex = sess[p].ex
    BY <1>1, RefreshedType
  <1>3. \A j \in Jobs \ Direct : sess[p].job = j => sess[p].ex = 0
    BY <1>1 DEF PlacedInv, HolderKnows, Knows, Holds
  <1> QED BY <1>1, <1>2, <1>3, FailingPlaced

-----------------------------------------------------------------------------
(* Reconciliation *)

LEMMA ReadPlaced ==
    ASSUME TypeInv, PlacedInv, NEW c \in Reconcilers, ReconcileRead(c)
    PROVE  PlacedInv' /\ ClosedStay
  <1>0. recon \in [Reconcilers -> Reconciliation] /\ UNCHANGED <<orders, pc, sess>>
    BY DEF TypeInv, TypeOK, ReconcileRead, Sessions
  <1>1. PICK S \in SUBSET Mismatched :
         recon' = [recon EXCEPT ![c] =
                     [running |-> TRUE,
                      seen    |-> [j \in Jobs |-> [p \in Procs |->
                                     IF <<j, p>> \in S
                                     THEN exch[orders[j][p].ext].status
                                     ELSE Absent]],
                      jstate  |-> [j \in Jobs |-> jobRow[j].state]]]
    BY DEF ReconcileRead
  <1>2. \A j \in Jobs, q \in Procs : recon'[c].seen[j][q] # Absent => <<j, q>> \in S
    BY <1>0, <1>1
  <1>3. \A d \in Reconcilers : d # c => recon'[d] = recon[d]
    BY <1>0, <1>1
  <1>4. ASSUME NEW j \in Jobs \ Direct, NEW q \in Procs, <<j, q>> \in S
        PROVE  orders[j][q].state \in OPEN_STATES \ {"CREATED"}
    <2>1. orders[j][q].state \in OPEN_STATES /\ orders[j][q].ext # 0
      BY <1>1, <1>4 DEF Mismatched
    <2> QED BY <2>1 DEF PlacedInv, UnplacedHasNoId, Unplaced
  <1>5. SeenOpen'
    <2> SUFFICES ASSUME NEW d \in Reconcilers, NEW j \in Jobs \ Direct, NEW q \in Procs,
                        recon'[d].seen[j][q] # Absent
                 PROVE  orders[j][q].state \in OPEN_STATES \ {"CREATED"}
      BY <1>0 DEF SeenOpen, OPEN_STATES, Absent
    <2>1. CASE d = c
      BY <1>2, <1>4, <2>1
    <2>2. CASE d # c
      BY <1>3, <2>2 DEF PlacedInv, SeenOpen
    <2> QED BY <2>1, <2>2
  <1>6. UnplacedHasNoId' /\ HolderKnows' /\ ClosedStay
    BY <1>0, SameOrdersKept, KeptClosed
       DEF PlacedInv, UnplacedHasNoId, HolderKnows, Knows, Unplaced, Holds
  <1> QED BY <1>5, <1>6 DEF PlacedInv

\* The only reconciliation writes rows that were open when it read them, and
\* no worker has touched them since.
LEMMA ReconcilePlaced ==
    ASSUME OneReconciler, TypeInv, PlacedInv, NEW c \in Reconcilers, ReconcileCommit(c)
    PROVE  PlacedInv' /\ ClosedStay
  <1>0. /\ recon \in [Reconcilers -> Reconciliation] /\ UNCHANGED <<pc, sess>>
        /\ recon' = [recon EXCEPT ![c] = NotRunning]
    BY DEF TypeInv, TypeOK, ReconcileCommit, Sessions
  <1>1. /\ \A j \in Jobs, q \in Procs : orders'[j][q].ext = orders[j][q].ext
        /\ \A j \in Jobs, q \in Procs :
              orders'[j][q].state = IF recon[c].seen[j][q] = Absent
                                    THEN orders[j][q].state ELSE recon[c].seen[j][q]
    BY ReconcileCommitRows
  <1>2. \A j \in Jobs, q \in Procs :
           recon[c].seen[j][q] # Absent => recon[c].seen[j][q] \notin {Absent, "CREATED"}
    <2>1. \A j \in Jobs, q \in Procs : recon[c].seen[j][q] \in ExchangeStatuses \cup {Absent}
      BY <1>0 DEF Reconciliation
    <2> QED BY <2>1 DEF ExchangeStatuses, Absent
  <1>3. ASSUME NEW j \in Jobs \ Direct, NEW q \in Procs
        PROVE  /\ (Unplaced(j, q))' <=> Unplaced(j, q)
               /\ orders[j][q].state \in TERMINAL_STATES =>
                     orders'[j][q].state = orders[j][q].state
    <2>1. CASE recon[c].seen[j][q] = Absent
      BY <1>1, <2>1 DEF Unplaced
    <2>2. CASE recon[c].seen[j][q] # Absent
      <3>1. orders[j][q].state \in OPEN_STATES \ {"CREATED"}
        BY <2>2 DEF PlacedInv, SeenOpen
      <3> QED BY <1>1, <1>2, <2>2, <3>1 DEF Unplaced, OPEN_STATES, TERMINAL_STATES, Absent
    <2> QED BY <2>1, <2>2
  <1>4. UnplacedHasNoId'
    BY <1>1, <1>3 DEF PlacedInv, UnplacedHasNoId
  <1>5. HolderKnows'
    <2>1. \A q \in Procs : sess[q].col \in Procs
      BY TypeFacts DEF Session
    <2>2. \A j \in Jobs \ Direct, q \in Procs :
             (Unplaced(j, sess[q].col))' <=> Unplaced(j, sess[q].col)
      BY <1>0, <1>3, <2>1 DEF Unplaced
    <2> QED BY <1>0, <2>2 DEF PlacedInv, HolderKnows, Knows, Holds
  <1>6. SeenOpen'
    <2>1. \A d \in Reconcilers : recon'[d] = NotRunning
      BY <1>0 DEF OneReconciler
    <2> QED BY <2>1 DEF SeenOpen, NotRunning
  <1>7. ClosedStay
    BY <1>3 DEF ClosedStay
  <1> QED BY <1>4, <1>5, <1>6, <1>7 DEF PlacedInv

LEMMA NextPlaced ==
    ASSUME OneReconciler, TypeInv, SingleCustody, PlacedInv, [Next]_vars
    PROVE  PlacedInv' /\ ClosedStay
  <1>1. CASE \/ \E j \in Jobs : Submit(j)
             \/ \E e \in 1..Len(exch), s \in Reported : ExchangeProgress(e, s)
             \/ SetVenue \/ ActivateKillSwitch \/ DeactivateKillSwitch
             \/ UNCHANGED vars
    <2>1. UNCHANGED <<orders, pc, sess, recon>>
      BY <1>1 DEF Submit, InsertJob, RejectAudit, RejectJob, PushPayload, CommitEnqueue,
                  AbortSubmit, ExchangeProgress, SetVenue, ActivateKillSwitch,
                  DeactivateKillSwitch, Sessions, vars
    <2> QED BY <2>1, ElsewherePlaced
  <1>2. ASSUME NEW p \in Procs, Take(p) PROVE PlacedInv' /\ ClosedStay
    <2>1. UNCHANGED <<orders, recon>>
      BY <1>2 DEF Take, Consume, ConsumeIgnored, ConsumeDeferred, ConsumeRefused,
                  DirectExecute
    <2>2. CASE Consume(p) \/ \E k \in Jobs : DirectExecute(p, k)
      <3>1. PICK k \in Jobs : BeginJob(p, k)
        BY <2>2, QueueTail DEF Consume, DirectExecute, TypeInv, TypeOK, Payload
      <3> QED BY <2>1, <3>1, BeginPlaced
    <2>3. CASE ConsumeIgnored(p) \/ ConsumeDeferred(p) \/ ConsumeRefused(p)
      <3>1. UNCHANGED <<pc, sess>>
        BY <2>3 DEF ConsumeIgnored, ConsumeDeferred, ConsumeRefused, Sessions
      <3> QED BY <2>1, <3>1, ElsewherePlaced
    <2> QED BY <1>2, <2>2, <2>3 DEF Take
  <1>3. ASSUME NEW p \in Procs, Request(p) \/ Settle(p) \/ Crash(p)
        PROVE  PlacedInv' /\ ClosedStay
    <2>1. CASE CommitResultConflict(p) \/ AfterCommit(p) \/ Requeue(p) \/ CloseFailed(p)
               \/ Crash(p)
      <3>1. EndSession(p) /\ UNCHANGED <<orders, recon>>
        BY <2>1 DEF CommitResultConflict, AfterCommit, Requeue, CloseFailed, Crash
      <3> QED BY <3>1, EndPlaced
    <2> QED BY <1>3, <2>1, RequestPlaced, LatencyPlaced, ApplyPlaced, ResultPlaced,
               RaisesPlaced, FailurePlaced DEF Settle
  <1>4. CASE \E c \in Reconcilers : ReconcileRead(c) \/ ReconcileCommit(c)
    BY <1>4, ReadPlaced, ReconcilePlaced
  <1> QED BY <1>1, <1>2, <1>3, <1>4 DEF Next

LEMMA InitPlaced == Init => PlacedInv
  BY DEF Init, PlacedInv, UnplacedHasNoId, HolderKnows, SeenOpen, Unplaced, Holds, NoOrder,
         NotRunning

\* One reconciliation at a time: an order row of an API job that is FILLED,
\* FAILED or CANCELED keeps its state, although reconciliation assigns
\* orders.state without asking STATE_TRANSITIONS and works from what it read
\* before it asked the exchange.
THEOREM ClosedOrders == ASSUME OneReconciler PROVE Spec => TerminalOrdersFinal
  <1>1. TypeInv /\ SingleCustody /\ PlacedInv /\ [Next]_vars => PlacedInv' /\ ClosedStay
    BY NextPlaced
  <1>2. Spec => []TypeInv
    BY InitTypeInv, NextTypeInv, PTL DEF Spec
  <1>3. Spec => []PlacedInv
    BY <1>1, <1>2, InitPlaced, Custody, PTL DEF Spec
  <1>4. TypeInv /\ SingleCustody /\ PlacedInv /\ [Next]_vars
           => [\A j \in Jobs \ Direct, p \in Procs :
                 orders[j][p].state \in TERMINAL_STATES
                    => orders'[j][p].state = orders[j][p].state]_vars
    BY <1>1 DEF ClosedStay
  <1> QED BY <1>2, <1>3, <1>4, Custody, PTL DEF Spec, TerminalOrdersFinal

=============================================================================
