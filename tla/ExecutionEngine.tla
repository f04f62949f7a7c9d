-------------------------- MODULE ExecutionEngine --------------------------
(***************************************************************************)
(* The live execution engine of the trading backend:                       *)
(*   backend/core/execution_engine.py     submit_signal, the queue, the    *)
(*                                        worker's handler, order states   *)
(*   backend/workers/execution_worker.py  the consumers                    *)
(*   backend/core/reconciliation/order_reconciliation.py                   *)
(*   backend/core/exchanges/binance_adapter.py  (the request loop)         *)
(*   backend/core/safety/kill_switch.py   (the runtime kill switch)        *)
(*                                                                         *)
(* Four kinds of actor share one PostgreSQL database and one Redis list:   *)
(* API requests that submit signals (one per job), workers that consume    *)
(* the queue, go-live runners that execute a payload they just submitted   *)
(* without taking it off the queue, and reconcilers.  A step of an actor   *)
(* is what it does between two points at which the others can see it: a    *)
(* Redis command, a database commit, or a request to the exchange.  What a *)
(* session has read and what it has changed but not committed is kept in   *)
(* sess, so a stale read or a lost update is a behaviour of the model.     *)
(*                                                                         *)
(* Data: a job stands for its symbol, side, size and price.  SizeOf is the *)
(* notional of a job; every job of a user trades the user's one symbol, so *)
(* position[u] is the size of the row "u:symbol", 0 when there is no row.  *)
(***************************************************************************)
EXTENDS Integers, Sequences, FiniteSets

CONSTANTS
    Jobs,           \* execution_jobs.id: one fresh uuid per submit_signal call
    NoJobId,        \* what an idle process holds
    Keys,           \* idempotency keys
    KeyOf,          \* the key of each submission; two submissions may share it
    DefaultKeyed,   \* the jobs submitted without an explicit idempotency key
    Users, UserOf,  \* the user who submits the job
    SizeOf,         \* the notional of the job
    NotionalCap,    \* per_user_notional_cap
    Workers,        \* consumers: worker processes and process-once requests
    Runners,        \* go-live checklist runs
    Direct,         \* the jobs a go-live run submits
    Reconcilers,    \* concurrent reconciliation requests
    MaxRetry,       \* execution_jobs.max_retry
    MaxAttempts,    \* BinanceExecutionAdapter.max_retries
    Reported,       \* the statuses the exchange reports in this instance
    FailThreshold,  \* fail_threshold of evaluate_auto_kill_switch
    MaxCrashes,     \* bound: processes that die holding work
    MaxToggles      \* bound: operator changes of venue mode or kill switch

Procs == Workers \cup Runners

ASSUME ConstantsAssumption ==
    /\ NoJobId \notin Jobs
    /\ KeyOf \in [Jobs -> Keys]
    /\ UserOf \in [Jobs -> Users]
    /\ SizeOf \in [Jobs -> Nat \ {0}]
    /\ DefaultKeyed \subseteq Jobs
    /\ Direct \subseteq Jobs
    /\ NotionalCap \in Nat
    /\ MaxRetry \in Nat \ {0}
    /\ MaxAttempts \in Nat \ {0}
    /\ Reported \subseteq {"NEW", "PARTIALLY_FILLED", "FILLED", "CANCELED",
                          "EXPIRED"}
    /\ FailThreshold \in Nat
    /\ MaxCrashes \in Nat
    /\ MaxToggles \in Nat
    /\ Workers \cap Runners = {}

VARIABLES
    phase,          \* [Jobs -> Phases]: how far submit_signal has come
    jobRow,         \* [Jobs -> JobRow]: the committed row of execution_jobs
    queue,          \* the Redis list execution:jobs:queue
    orders,         \* [Jobs -> [Procs -> OrderRow]]: committed rows of orders,
                    \* one column per session that may have inserted a row
    position,       \* [Users -> Nat]: the committed row of positions
    exch,           \* the orders the exchange has accepted, oldest first
    pc,             \* [Procs -> Steps]: where execute_queued_job is
    sess,           \* [Procs -> Session]: what its session has read or changed
    recon,          \* [Reconcilers -> what the running reconciliation has read]
    venueOpen,      \* get_execution_adapter does not raise
    killSwitch,     \* execution:kill_switch:state is active
    advised,        \* the jobs with a runtime_execution_kill_switch_advisory entry
    crashes,        \* processes that have died so far
    toggles         \* operator changes so far

vars == <<phase, jobRow, queue, orders, position, exch, pc, sess, recon,
          venueOpen, killSwitch, advised, crashes, toggles>>

-----------------------------------------------------------------------------
(* Order and job states *)

TERMINAL_STATES == {"FILLED", "FAILED", "CANCELED"}

STATE_TRANSITIONS ==
    [CREATED          |-> {"SENT", "FAILED", "CANCELED"},
     SENT             |-> {"PARTIALLY_FILLED", "FILLED", "FAILED", "CANCELED"},
     PARTIALLY_FILLED |-> {"PARTIALLY_FILLED", "FILLED", "FAILED", "CANCELED"},
     FILLED           |-> {},
     FAILED           |-> {},
     CANCELED         |-> {}]

OPEN_STATES == {"CREATED", "SENT", "PARTIALLY_FILLED"}

EngineStates == OPEN_STATES \cup TERMINAL_STATES

\* The statuses the exchange reports.  REJECTED is treated like EXPIRED
\* everywhere in the code, so EXPIRED stands for both.
ExchangeStatuses == {"NEW", "PARTIALLY_FILLED", "FILLED", "CANCELED", "EXPIRED"}

\* Reconciliation stores the raw exchange status in orders.state.
OrderStates == EngineStates \cup ExchangeStatuses

\* advance_order_state: STATE_TRANSITIONS.get(current, set())
Allowed(current) ==
    IF current \in EngineStates THEN STATE_TRANSITIONS[current] ELSE {}

\* Faulty: an acknowledged order counts as filled.
FinalStateOptimistic(status) ==
    IF status \in {"NEW", "FILLED"} THEN "FILLED" ELSE "FAILED"

\* Faulty: an expired order is taken for a canceled one.
FinalStateExpiredCanceled(status) ==
    CASE status = "NEW"    -> "SENT"
      [] status = "FILLED" -> "FILLED"
      [] OTHER             -> "CANCELED"

\* _map_status_to_states: every reply starts with SENT; the second state, if
\* any, is where the loop of handle_execution_result ends.
FinalState(status) ==
    CASE status = "NEW"              -> "SENT"
      [] status = "PARTIALLY_FILLED" -> "PARTIALLY_FILLED"
      [] status = "FILLED"           -> "FILLED"
      [] status = "CANCELED"         -> "CANCELED"
      [] OTHER                       -> "FAILED"

\* handle_execution_result walks <<"SENT", FinalState>>: the order must accept
\* SENT first, and only an order in CREATED does.
CanApply(current, status) ==
    /\ "SENT" \in Allowed(current)
    /\ FinalState(status) \in Allowed("SENT") \cup {"SENT"}

\* newClientOrderId is the idempotency key cut to 36 characters.  The key
\* _build_idempotency_key makes starts with the user's uuid, which is 36
\* characters long, so nothing but the user is left of a default key.
ClientOrderId(j) == IF j \in DefaultKeyed THEN UserOf[j] ELSE KeyOf[j]

-----------------------------------------------------------------------------
(* Rows and sessions *)

Absent == "ABSENT"

JobRow   == [state : EngineStates \cup {Absent}, retry : Nat]
OrderRow == [state : OrderStates \cup {Absent}, ext : Nat]
Payload  == [job : Jobs, retried : BOOLEAN]
ExOrder  == [job : Jobs, status : ExchangeStatuses]

NoJob   == [state |-> Absent, retry |-> 0]
NoOrder == [state |-> Absent, ext |-> 0]

Phases == {"fresh", "flushed", "rejecting", "rejected", "pushed",
           "enqueued", "taken", "aborted"}

Steps == {"idle", "sending", "replied", "applied", "committed", "failing",
          "failed"}

\* job: the job in hand.  col: the column of the order row it works on.
\* jstate, jretry, ostate: the rows as the session read them.  attempt: the
\* requests sent so far.  ex: the exchange order the reply is about, 0 if
\* none.  status: the status in the reply.  pos: the position row it read.
Session ==
    [job : Jobs \cup {NoJobId}, col : Procs, jstate : EngineStates, jretry : Nat,
     ostate : OrderStates, attempt : Nat, ex : Nat,
     status : ExchangeStatuses, pos : Nat]

Idle(p) ==
    [job |-> NoJobId, col |-> p, jstate |-> "CREATED", jretry |-> 0,
     ostate |-> "CREATED", attempt |-> 0, ex |-> 0,
     status |-> "NEW", pos |-> 0]

\* seen: the status fetched for each open order that differs from its state,
\* Absent for the others.  jstate: the job rows as the session read them.
Reconciliation ==
    [running : BOOLEAN,
     seen    : [Jobs -> [Procs -> ExchangeStatuses \cup {Absent}]],
     jstate  : [Jobs -> EngineStates \cup {Absent}]]

NotRunning == [running |-> FALSE,
               seen    |-> [j \in Jobs |-> [p \in Procs |-> Absent]],
               jstate  |-> [j \in Jobs |-> Absent]]

Init ==
    /\ phase = [j \in Jobs |-> "fresh"]
    /\ jobRow = [j \in Jobs |-> NoJob]
    /\ queue = <<>>
    /\ orders = [j \in Jobs |-> [p \in Procs |-> NoOrder]]
    /\ position = [u \in Users |-> 0]
    /\ exch = <<>>
    /\ pc = [p \in Procs |-> "idle"]
    /\ sess = [p \in Procs |-> Idle(p)]
    /\ recon = [c \in Reconcilers |-> NotRunning]
    /\ venueOpen = TRUE
    /\ killSwitch = FALSE
    /\ advised = {}
    /\ crashes = 0
    /\ toggles = 0

Operator == <<venueOpen, killSwitch, advised, toggles>>
Sessions == <<pc, sess>>

-----------------------------------------------------------------------------
(* evaluate_auto_kill_switch, called with the committed rows: it can only  *)
(* raise the switch.  The window (20 jobs) holds every job of an instance; *)
(* the latency and loss triggers are covered by ActivateKillSwitch.        *)

AutoKillSwitch(rows) ==
    \/ killSwitch
    \/ Cardinality({j \in Jobs : rows[j].state = "FAILED"}) >= FailThreshold

-----------------------------------------------------------------------------
(* submit_signal.  The row is inserted by db.flush() and invisible until a *)
(* commit.  The unique key makes a second insert with the same key wait    *)
(* for the first transaction and then fail, and a committed row makes it   *)
(* return "duplicate": either way nothing changes, so those calls are not  *)
(* steps.  Nor are a signal that is invalid or fails the precheck.         *)

\* Faulty: no unique constraint, only committed rows are looked up.
KeyTakenCommitted(j) ==
    \E k \in Jobs \ {j} : KeyOf[k] = KeyOf[j] /\ jobRow[k].state # Absent

KeyTaken(j) ==
    \E k \in Jobs \ {j} :
        /\ KeyOf[k] = KeyOf[j]
        /\ jobRow[k].state # Absent \/ phase[k] \in {"flushed", "pushed"}

\* is_kill_switch_active() only adds an advisory entry to the audit log: the
\* call goes on whatever it returns.
InsertJob(j) ==
    /\ phase[j] = "fresh"
    /\ ~KeyTaken(j)
    /\ phase' = [phase EXCEPT ![j] = "flushed"]
    /\ advised' = IF killSwitch THEN advised \cup {j} ELSE advised
    /\ UNCHANGED <<jobRow, queue, orders, position, exch, Sessions, recon,
                   venueOpen, killSwitch, toggles, crashes>>

\* A risk rejection, and a canary rejection of the user or the notional, write
\* an audit entry whose commit makes the job visible as CREATED first.
RejectAudit(j) ==
    /\ phase[j] = "flushed"
    /\ phase' = [phase EXCEPT ![j] = "rejecting"]
    /\ jobRow' = [jobRow EXCEPT ![j] = [state |-> "CREATED", retry |-> 0]]
    /\ UNCHANGED <<queue, orders, position, exch, Sessions, recon, Operator,
                   crashes>>

\* The rejection proper; a canary rejection of the strategy comes here at once.
RejectJob(j) ==
    /\ phase[j] \in {"flushed", "rejecting"}
    /\ phase' = [phase EXCEPT ![j] = "rejected"]
    /\ jobRow' = [jobRow EXCEPT ![j] = [state |-> "FAILED", retry |-> 0]]
    /\ UNCHANGED <<queue, orders, position, exch, Sessions, recon, Operator,
                   crashes>>

\* evaluate_risk counts the committed positions of the user and this job.
WithinNotionalCap(j) == position[UserOf[j]] + SizeOf[j] <= NotionalCap

\* enqueue_execution pushes the payload before it commits the row.
PushPayload(j) ==
    /\ phase[j] = "flushed"
    /\ WithinNotionalCap(j)
    /\ phase' = [phase EXCEPT ![j] = "pushed"]
    /\ queue' = Append(queue, [job |-> j, retried |-> FALSE])
    /\ UNCHANGED <<jobRow, orders, position, exch, Sessions, recon, Operator,
                   crashes>>

\* db.commit() of enqueue_execution, then evaluate_auto_kill_switch.
CommitEnqueue(j) ==
    /\ phase[j] = "pushed"
    /\ phase' = [phase EXCEPT ![j] = "enqueued"]
    /\ jobRow' = [jobRow EXCEPT ![j] = [state |-> "CREATED", retry |-> 0]]
    /\ killSwitch' = AutoKillSwitch(jobRow')
    /\ UNCHANGED <<queue, orders, position, exch, Sessions, recon, venueOpen,
                   advised, toggles, crashes>>

\* The API process dies, or a statement raises: the open transaction is rolled
\* back, what Redis and earlier commits hold stays.
AbortSubmit(j) ==
    /\ crashes < MaxCrashes
    /\ phase[j] \in {"flushed", "rejecting", "pushed"}
    /\ phase' = [phase EXCEPT ![j] = "aborted"]
    /\ crashes' = crashes + 1
    /\ UNCHANGED <<jobRow, queue, orders, position, exch, Sessions, recon,
                   Operator>>

-----------------------------------------------------------------------------
(* execute_queued_job *)

Runnable(j) == jobRow[j].state \notin TERMINAL_STATES \cup {Absent}

\* Faulty: always a new row.
OrderColumnsFresh(p, j) == {p}

\* _create_or_get_order: a committed row of the job, or a new one.
OrderColumns(p, j) ==
    LET rows == {q \in Procs : orders[j][q].state # Absent}
    IN  IF rows = {} THEN {p} ELSE rows

\* The part of execute_queued_job before the try block.
BeginJob(p, j) ==
    /\ Runnable(j)
    /\ venueOpen
    /\ \E q \in OrderColumns(p, j) :
         sess' = [sess EXCEPT ![p] =
                    [Idle(p) EXCEPT
                        !.job = j, !.col = q,
                        !.jstate = jobRow[j].state, !.jretry = jobRow[j].retry,
                        !.ostate = IF orders[j][q].state = Absent
                                   THEN "CREATED" ELSE orders[j][q].state]]
    /\ pc' = [pc EXCEPT ![p] = "sending"]

\* Faulty: the payload is read and stays in the list.
ConsumePeek(p) ==
    /\ p \in Workers
    /\ pc[p] = "idle"
    /\ queue # <<>>
    /\ BeginJob(p, Head(queue).job)
    /\ UNCHANGED <<phase, jobRow, queue, orders, position, exch, recon, Operator,
                   crashes>>

\* consume_execution_queue_once: lpop, then execute_queued_job.
Consume(p) ==
    /\ p \in Workers
    /\ pc[p] = "idle"
    /\ queue # <<>>
    /\ BeginJob(p, Head(queue).job)
    /\ queue' = Tail(queue)
    /\ UNCHANGED <<phase, jobRow, orders, position, exch, recon, Operator,
                   crashes>>

\* execution_job_not_found, or already_terminal: the payload is dropped.
ConsumeIgnored(p) ==
    /\ p \in Workers
    /\ pc[p] = "idle"
    /\ queue # <<>>
    /\ ~Runnable(Head(queue).job)
    /\ queue' = Tail(queue)
    /\ UNCHANGED <<phase, jobRow, orders, position, exch, Sessions, recon,
                   Operator, crashes>>

\* now_ms < retry_at_ts: the payload goes to the back of the queue.  The model
\* has no clock: a retried payload may be early or due whenever it is popped.
ConsumeDeferred(p) ==
    /\ p \in Workers
    /\ pc[p] = "idle"
    /\ queue # <<>>
    /\ Runnable(Head(queue).job)
    /\ Head(queue).retried
    /\ queue' = Append(Tail(queue), Head(queue))
    /\ UNCHANGED <<phase, jobRow, orders, position, exch, Sessions, recon,
                   Operator, crashes>>

\* get_execution_adapter raises outside the try block: the payload is gone and
\* so is the worker process, which the supervisor starts again.
ConsumeRefused(p) ==
    /\ p \in Workers
    /\ pc[p] = "idle"
    /\ queue # <<>>
    /\ Runnable(Head(queue).job)
    /\ ~venueOpen
    /\ queue' = Tail(queue)
    /\ UNCHANGED <<phase, jobRow, orders, position, exch, Sessions, recon,
                   Operator, crashes>>

\* run_canary_end_to_end_validation and the lifecycle check hand the payload
\* submit_signal returned to execute_queued_job, and leave it in the queue.
DirectExecute(p, j) ==
    /\ p \in Runners
    /\ pc[p] = "idle"
    /\ j \in Direct
    /\ phase[j] = "enqueued"
    /\ BeginJob(p, j)
    /\ phase' = [phase EXCEPT ![j] = "taken"]
    /\ UNCHANGED <<jobRow, queue, orders, position, exch, recon, Operator,
                   crashes>>

-----------------------------------------------------------------------------
(* The request to the exchange: _signed_request sends it up to MaxAttempts *)
(* times.  The exchange is external: it refuses a client order id that a   *)
(* live order has, and may refuse or lose any request or reply.            *)

IsLive(e) == exch[e].status \in {"NEW", "PARTIALLY_FILLED"}

ClientIdLive(c) ==
    \E e \in 1..Len(exch) : IsLive(e) /\ ClientOrderId(exch[e].job) = c

ToFailing(p, s) ==
    /\ pc' = [pc EXCEPT ![p] = "failing"]
    /\ sess' = [sess EXCEPT ![p] = [s EXCEPT !.attempt = 0, !.status = "NEW",
                                             !.pos = 0]]

\* Faulty: one attempt too many.
NoReplyOnceMore(p) ==
    IF sess[p].attempt >= MaxAttempts
    THEN ToFailing(p, sess[p])
    ELSE /\ sess' = [sess EXCEPT ![p].attempt = @ + 1]
         /\ UNCHANGED pc

\* A timeout, a network error or a 5xx: sent again, or raised at the last attempt.
NoReply(p) ==
    IF sess[p].attempt + 1 >= MaxAttempts
    THEN ToFailing(p, sess[p])
    ELSE /\ sess' = [sess EXCEPT ![p].attempt = @ + 1]
         /\ UNCHANGED pc

Accept(j, status) ==
    /\ ~ClientIdLive(ClientOrderId(j))
    /\ exch' = Append(exch, [job |-> j, status |-> status])

\* The adapter's guard, the balance request or insufficient_balance raises.
BalanceCheckFails(p) ==
    /\ pc[p] = "sending"
    /\ sess[p].attempt = 0
    /\ ToFailing(p, sess[p])
    /\ UNCHANGED <<phase, jobRow, queue, orders, position, exch, recon,
                   Operator, crashes>>

\* Faulty: every reply is taken to be about the first order.
ExchangeAcceptsFirstId(p, status) ==
    /\ pc[p] = "sending"
    /\ Accept(sess[p].job, status)
    /\ pc' = [pc EXCEPT ![p] = "replied"]
    /\ sess' = [sess EXCEPT ![p] = [@ EXCEPT !.attempt = 0, !.status = status,
                                             !.ex = 1]]
    /\ UNCHANGED <<phase, jobRow, queue, orders, position, recon, Operator,
                   crashes>>

ExchangeAccepts(p, status) ==
    /\ pc[p] = "sending"
    /\ Accept(sess[p].job, status)
    /\ pc' = [pc EXCEPT ![p] = "replied"]
    /\ sess' = [sess EXCEPT ![p] = [@ EXCEPT !.attempt = 0, !.status = status,
                                             !.ex = Len(exch) + 1]]
    /\ UNCHANGED <<phase, jobRow, queue, orders, position, recon, Operator,
                   crashes>>

ReplyLost(p, status) ==
    /\ pc[p] = "sending"
    /\ Accept(sess[p].job, status)
    /\ NoReply(p)
    /\ UNCHANGED <<phase, jobRow, queue, orders, position, recon, Operator,
                   crashes>>

RequestLost(p) ==
    /\ pc[p] = "sending"
    /\ NoReply(p)
    /\ UNCHANGED <<phase, jobRow, queue, orders, position, exch, recon,
                   Operator, crashes>>

\* exchange_reject:4xx, a duplicate client order id included.
ExchangeRejects(p) ==
    /\ pc[p] = "sending"
    /\ ToFailing(p, sess[p])
    /\ UNCHANGED <<phase, jobRow, queue, orders, position, exch, recon,
                   Operator, crashes>>

-----------------------------------------------------------------------------
(* The reply *)

\* Faulty: a row that was never inserted is read back as missing.
RefreshedFromDatabase(p) ==
    LET s == sess[p]
    IN  [s EXCEPT !.jstate = jobRow[s.job].state, !.jretry = jobRow[s.job].retry,
                  !.ostate = orders[s.job][s.col].state]

\* What the session sees of its rows after a commit has expired them.
Refreshed(p) ==
    LET s == sess[p]
        o == orders[s.job][s.col]
    IN  [s EXCEPT !.jstate = jobRow[s.job].state, !.jretry = jobRow[s.job].retry,
                  !.ostate = IF o.state = Absent THEN "CREATED" ELSE o.state]

\* total_ms over its limit: the alert's commit inserts the pending order row.
LatencyAlert(p) ==
    /\ pc[p] = "replied"
    /\ LET s == sess[p] IN
         orders' = IF orders[s.job][s.col].state = Absent
                   THEN [orders EXCEPT ![s.job][s.col] =
                                          [state |-> "CREATED", ext |-> 0]]
                   ELSE orders
    /\ sess' = [sess EXCEPT ![p] = Refreshed(p)]
    /\ UNCHANGED <<phase, jobRow, queue, position, exch, pc, recon, Operator,
                   crashes>>

\* handle_execution_result up to its commit: the states are walked in memory
\* and, on a fill, the position row is read.  advance_order_state raises
\* invalid_order_state_transition on an order that has left CREATED; by then
\* the session has replaced its external_order_id.
ApplyResult(p) ==
    /\ pc[p] = "replied"
    /\ IF CanApply(sess[p].ostate, sess[p].status)
       THEN /\ pc' = [pc EXCEPT ![p] = "applied"]
            /\ sess' = [sess EXCEPT ![p].pos =
                          IF sess[p].status = "FILLED"
                          THEN position[UserOf[sess[p].job]] ELSE 0]
       ELSE ToFailing(p, sess[p])
    /\ UNCHANGED <<phase, jobRow, queue, orders, position, exch, recon,
                   Operator, crashes>>

\* Both sessions found no position row: the second INSERT violates the primary
\* key, the commit of the except block raises too, and the worker dies.
InsertConflict(p) ==
    /\ sess[p].status = "FILLED"
    /\ sess[p].pos = 0
    /\ position[UserOf[sess[p].job]] # 0

EndSession(p) ==
    /\ pc' = [pc EXCEPT ![p] = "idle"]
    /\ sess' = [sess EXCEPT ![p] = Idle(p)]

\* The UPDATE of a column is skipped when the session read that value already.
Written(old, read, new) == IF new = read THEN old ELSE new

CommitResult(p) ==
    /\ pc[p] = "applied"
    /\ ~InsertConflict(p)
    /\ LET s   == sess[p]
           fin == FinalState(s.status)
       IN  /\ orders' = [orders EXCEPT ![s.job][s.col] =
                                         [state |-> fin, ext |-> s.ex]]
           /\ jobRow' = [jobRow EXCEPT ![s.job].state =
                                         Written(@, s.jstate, fin)]
           /\ position' = IF fin = "FILLED"
                          THEN [position EXCEPT ![UserOf[s.job]] =
                                                  s.pos + SizeOf[s.job]]
                          ELSE position
           /\ sess' = [sess EXCEPT ![p] = [@ EXCEPT !.jstate = "CREATED", !.ex = 0,
                                                    !.status = "NEW", !.pos = 0]]
    /\ pc' = [pc EXCEPT ![p] = "committed"]
    /\ UNCHANGED <<phase, queue, exch, recon, Operator, crashes>>

CommitResultConflict(p) ==
    /\ pc[p] = "applied"
    /\ InsertConflict(p)
    /\ EndSession(p)
    /\ UNCHANGED <<phase, jobRow, queue, orders, position, exch, recon,
                   Operator, crashes>>

\* The audit entry, the alert checks and the kill switch follow inside the same
\* try block: when one of them raises, the except block handles a job whose
\* result is already committed.
AfterCommit(p) ==
    /\ pc[p] = "committed"
    /\ EndSession(p)
    /\ killSwitch' = AutoKillSwitch(jobRow)
    /\ UNCHANGED <<phase, jobRow, queue, orders, position, exch, recon,
                   venueOpen, advised, toggles, crashes>>

AfterCommitRaises(p) ==
    /\ pc[p] = "committed"
    /\ ToFailing(p, Refreshed(p))
    /\ UNCHANGED <<phase, jobRow, queue, orders, position, exch, recon,
                   Operator, crashes>>

-----------------------------------------------------------------------------
(* The except block *)

\* Faulty: FAILED one failure too late.
HandleFailureLate(p) ==
    /\ pc[p] = "failing"
    /\ LET s == sess[p]
           n == s.jretry + 1
       IN  /\ jobRow' = [jobRow EXCEPT ![s.job] =
                           [state |-> IF n > MaxRetry
                                      THEN Written(@.state, s.jstate, "FAILED")
                                      ELSE @.state,
                            retry |-> n]]
           /\ orders' = orders
           /\ sess' = [sess EXCEPT ![p].ex = 0]
    /\ pc' = [pc EXCEPT ![p] = "failed"]
    /\ UNCHANGED <<phase, queue, position, exch, recon, Operator, crashes>>

\* Faulty: the failure is not counted.
HandleFailureUncounted(p) ==
    /\ pc[p] = "failing"
    /\ pc' = [pc EXCEPT ![p] = "failed"]
    /\ sess' = [sess EXCEPT ![p].ex = 0]
    /\ UNCHANGED <<phase, jobRow, queue, orders, position, exch, recon, Operator,
                   crashes>>

\* job.retry_count += 1 from the value the session read, FAILED at max_retry;
\* the commit also inserts a new order row and writes a replaced external id.
HandleFailure(p) ==
    /\ pc[p] = "failing"
    /\ LET s == sess[p]
           n == s.jretry + 1
       IN  /\ jobRow' = [jobRow EXCEPT ![s.job] =
                           [state |-> IF n >= MaxRetry
                                      THEN Written(@.state, s.jstate, "FAILED")
                                      ELSE @.state,
                            retry |-> n]]
           /\ orders' = [orders EXCEPT ![s.job][s.col] =
                           [state |-> IF @.state = Absent THEN "CREATED" ELSE @.state,
                            ext   |-> IF s.ex # 0 THEN s.ex ELSE @.ext]]
           /\ sess' = [sess EXCEPT ![p].ex = 0]
    /\ pc' = [pc EXCEPT ![p] = "failed"]
    /\ UNCHANGED <<phase, queue, position, exch, recon, Operator, crashes>>

\* Faulty: the payload is not put back.
RequeueDropped(p) ==
    /\ pc[p] = "failed"
    /\ jobRow[sess[p].job].state # "FAILED"
    /\ EndSession(p)
    /\ killSwitch' = AutoKillSwitch(jobRow)
    /\ UNCHANGED <<phase, jobRow, queue, orders, position, exch, recon, venueOpen,
                   advised, toggles, crashes>>

\* The commit expires the row, so the state is read again: unless it is FAILED
\* the payload goes back with retry_at_ts set.  The kill switch is evaluated
\* last, here and in CloseFailed.
Requeue(p) ==
    /\ pc[p] = "failed"
    /\ jobRow[sess[p].job].state # "FAILED"
    /\ queue' = Append(queue, [job |-> sess[p].job, retried |-> TRUE])
    /\ EndSession(p)
    /\ killSwitch' = AutoKillSwitch(jobRow)
    /\ UNCHANGED <<phase, jobRow, orders, position, exch, recon, venueOpen,
                   advised, toggles, crashes>>

CloseFailed(p) ==
    /\ pc[p] = "failed"
    /\ jobRow[sess[p].job].state = "FAILED"
    /\ EndSession(p)
    /\ killSwitch' = AutoKillSwitch(jobRow)
    /\ UNCHANGED <<phase, jobRow, queue, orders, position, exch, recon,
                   venueOpen, advised, toggles, crashes>>

\* The process dies, or the database fails inside the except block: the open
\* transaction is rolled back and what was popped is not put back.
Crash(p) ==
    /\ crashes < MaxCrashes
    /\ pc[p] # "idle"
    /\ EndSession(p)
    /\ crashes' = crashes + 1
    /\ UNCHANGED <<phase, jobRow, queue, orders, position, exch, recon,
                   Operator>>

-----------------------------------------------------------------------------
(* run_order_reconciliation *)

\* Faulty: the query does not leave out closed orders.
MismatchedAny ==
    {o \in Jobs \X Procs :
        LET row == orders[o[1]][o[2]]
        IN  row.ext # 0 /\ exch[row.ext].status # row.state}

\* The orders the query selects whose status could be fetched and differs.
Mismatched ==
    {o \in Jobs \X Procs :
        LET row == orders[o[1]][o[2]]
        IN  /\ row.state \in OPEN_STATES
            /\ row.ext # 0
            /\ exch[row.ext].status # row.state}

ReconcileRead(c) ==
    /\ ~recon[c].running
    /\ venueOpen
    /\ \E S \in (SUBSET Mismatched) \ {{}} :
         recon' = [recon EXCEPT ![c] =
                     [running |-> TRUE,
                      seen    |-> [j \in Jobs |-> [p \in Procs |->
                                     IF <<j, p>> \in S
                                     THEN exch[orders[j][p].ext].status
                                     ELSE Absent]],
                      jstate  |-> [j \in Jobs |-> jobRow[j].state]]]
    /\ UNCHANGED <<phase, jobRow, queue, orders, position, exch, Sessions,
                   Operator, crashes>>

\* The states a reconciliation assigns to a job: of two rows of one job, the
\* one looked at last wins.
JobTargets(c, j) ==
    {"FILLED", "CANCELED"} \cap {recon[c].seen[j][p] : p \in Procs}

ReconcileCommit(c) ==
    /\ recon[c].running
    /\ orders' = [j \in Jobs |-> [p \in Procs |->
                    IF recon[c].seen[j][p] = Absent THEN orders[j][p]
                    ELSE [orders[j][p] EXCEPT !.state = recon[c].seen[j][p]]]]
    /\ \E target \in [Jobs -> {"FILLED", "CANCELED", Absent}] :
         /\ \A j \in Jobs : IF JobTargets(c, j) = {} THEN target[j] = Absent
                            ELSE target[j] \in JobTargets(c, j)
         /\ jobRow' = [j \in Jobs |->
                         IF target[j] = Absent THEN jobRow[j]
                         ELSE [jobRow[j] EXCEPT !.state =
                                 Written(@, recon[c].jstate[j], target[j])]]
    /\ recon' = [recon EXCEPT ![c] = NotRunning]
    /\ UNCHANGED <<phase, queue, position, exch, Sessions, Operator, crashes>>

-----------------------------------------------------------------------------
(* The exchange and the operator *)

ExchangeProgress(e, status) ==
    /\ IsLive(e)
    /\ status \notin {"NEW", exch[e].status}
    /\ exch' = [exch EXCEPT ![e].status = status]
    /\ UNCHANGED <<phase, jobRow, queue, orders, position, Sessions, recon,
                   Operator, crashes>>

\* EXECUTION_MODE, VENUE_ENV_LOCK or VENUE_PROD_FREEZE changes.
SetVenue ==
    /\ toggles < MaxToggles
    /\ toggles' = toggles + 1
    /\ venueOpen' = ~venueOpen
    /\ UNCHANGED <<phase, jobRow, queue, orders, position, exch, Sessions,
                   recon, killSwitch, advised, crashes>>

ActivateKillSwitch ==
    /\ toggles < MaxToggles
    /\ ~killSwitch
    /\ toggles' = toggles + 1
    /\ killSwitch' = TRUE
    /\ UNCHANGED <<phase, jobRow, queue, orders, position, exch, Sessions,
                   recon, venueOpen, advised, crashes>>

DeactivateKillSwitch ==
    /\ toggles < MaxToggles
    /\ killSwitch
    /\ toggles' = toggles + 1
    /\ killSwitch' = FALSE
    /\ UNCHANGED <<phase, jobRow, queue, orders, position, exch, Sessions,
                   recon, venueOpen, advised, crashes>>

-----------------------------------------------------------------------------

Submit(j) ==
    \/ InsertJob(j) \/ RejectAudit(j) \/ RejectJob(j)
    \/ PushPayload(j) \/ CommitEnqueue(j) \/ AbortSubmit(j)

Request(p) ==
    \/ BalanceCheckFails(p) \/ RequestLost(p) \/ ExchangeRejects(p)
    \/ \E s \in Reported : ExchangeAccepts(p, s) \/ ReplyLost(p, s)

Settle(p) ==
    \/ LatencyAlert(p) \/ ApplyResult(p)
    \/ CommitResult(p) \/ CommitResultConflict(p)
    \/ AfterCommit(p) \/ AfterCommitRaises(p)
    \/ HandleFailure(p) \/ Requeue(p) \/ CloseFailed(p)

Take(p) ==
    \/ Consume(p) \/ ConsumeIgnored(p) \/ ConsumeDeferred(p)
    \/ ConsumeRefused(p) \/ \E j \in Jobs : DirectExecute(p, j)

Next ==
    \/ \E j \in Jobs : Submit(j)
    \/ \E p \in Procs : Take(p) \/ Request(p) \/ Settle(p) \/ Crash(p)
    \/ \E c \in Reconcilers : ReconcileRead(c) \/ ReconcileCommit(c)
    \/ \E e \in 1..Len(exch), s \in Reported : ExchangeProgress(e, s)
    \/ SetVenue \/ ActivateKillSwitch \/ DeactivateKillSwitch

Spec == Init /\ [][Next]_vars

-----------------------------------------------------------------------------
(* Fairness: live consumers keep polling and finish what they picked up,   *)
(* and an API request runs to its end.  A retried payload is popped again  *)
(* and again until its backoff (at most 8 s) is over, so it is not early   *)
(* forever: strong fairness of Consume.  Nothing is assumed of crashes,    *)
(* operators, reconciliations or the exchange.                             *)

Fairness ==
    /\ \A j \in Jobs : WF_vars(RejectJob(j) \/ PushPayload(j) \/ CommitEnqueue(j))
    /\ \A p \in Procs : /\ SF_vars(Consume(p))
                        /\ WF_vars(ConsumeIgnored(p) \/ ConsumeRefused(p))
                        /\ WF_vars(Request(p))
                        /\ WF_vars(ApplyResult(p))
                        /\ WF_vars(CommitResult(p) \/ CommitResultConflict(p))
                        /\ WF_vars(AfterCommit(p) \/ AfterCommitRaises(p))
                        /\ WF_vars(HandleFailure(p) \/ Requeue(p) \/ CloseFailed(p))

FairSpec == Spec /\ Fairness

-----------------------------------------------------------------------------
(* Properties *)

\* Every variable keeps the shape the code gives it.
TypeOK ==
    /\ phase \in [Jobs -> Phases]
    /\ jobRow \in [Jobs -> JobRow]
    /\ queue \in Seq(Payload)
    /\ orders \in [Jobs -> [Procs -> OrderRow]]
    /\ position \in [Users -> Nat]
    /\ exch \in Seq(ExOrder)
    /\ pc \in [Procs -> Steps]
    /\ sess \in [Procs -> Session]
    /\ recon \in [Reconcilers -> Reconciliation]
    /\ venueOpen \in BOOLEAN
    /\ killSwitch \in BOOLEAN
    /\ advised \subseteq Jobs
    /\ crashes \in Nat
    /\ toggles \in Nat

\* p has the payload of j in hand: it may still execute it or put it back.
Holds(p, j) == pc[p] # "idle" /\ sess[p].job = j

\* A job submitted through the API is in the hands of at most one consumer,
\* and its payload is then not in the queue: lpop hands a payload to one worker
\* and the except block puts it back only when that worker is done with it.
SingleCustody ==
    \A j \in Jobs \ Direct :
        /\ \A m, n \in 1..Len(queue) :
              queue[m].job = j /\ queue[n].job = j => m = n
        /\ \A m \in 1..Len(queue), p \in Procs : ~(queue[m].job = j /\ Holds(p, j))
        /\ \A p, q \in Procs : Holds(p, j) /\ Holds(q, j) => p = q

\* orders.execution_job_id is not unique, yet such a job never gets a second
\* row: _create_or_get_order always finds the row an earlier attempt committed.
OneOrderRow ==
    \A j \in Jobs \ Direct : \A p, q \in Procs :
        orders[j][p].state # Absent /\ orders[j][q].state # Absent => p = q

\* The except block stops at max_retry and a job whose budget is spent is
\* terminal, so no payload loops forever.
RetryBudget ==
    \A j \in Jobs \ Direct :
        /\ jobRow[j].retry <= MaxRetry
        /\ jobRow[j].retry = MaxRetry => jobRow[j].state \in TERMINAL_STATES

\* Retries of the worker times retries of the adapter bound what one job can
\* cause at the exchange.
BoundedSubmissions ==
    \A j \in Jobs \ Direct :
        Cardinality({e \in 1..Len(exch) : exch[e].job = j}) <= MaxRetry * MaxAttempts

\* A job is reported FILLED or CANCELED only when the exchange filled or
\* canceled an order of that job, however late or stale the reply was.
OutcomeTruthful ==
    \A j \in Jobs : jobRow[j].state \in {"FILLED", "CANCELED"} =>
        \E e \in 1..Len(exch) : exch[e].job = j /\ exch[e].status = jobRow[j].state

\* Every external_order_id stored for a job is an exchange order of that job,
\* and no two rows share one.
OrderRowsTraceable ==
    /\ \A j \in Jobs, p \in Procs : orders[j][p].ext # 0 =>
          /\ orders[j][p].ext <= Len(exch)
          /\ exch[orders[j][p].ext].job = j
    /\ \A j, k \in Jobs, p, q \in Procs :
          orders[j][p].ext # 0 /\ orders[j][p].ext = orders[k][q].ext
             => j = k /\ p = q

\* What the exchange has filled of an order, one element per unit of its size.
Units(e) == {e} \X (1..SizeOf[exch[e].job])

FilledOrders(u) ==
    {e \in 1..Len(exch) : UserOf[exch[e].job] = u /\ exch[e].status = "FILLED"}

FilledSize(u) == Cardinality(UNION {Units(e) : e \in FilledOrders(u)})

\* A position is never larger than what the exchange filled for the user: no
\* fill is booked twice, whatever is retried, reconciled or lost.
PositionBacked == \A u \in Users : position[u] <= FilledSize(u)

\* An order in a terminal state stays in it (STATE_TRANSITIONS has no way out),
\* although reconciliation assigns orders.state without asking the table.
TerminalOrdersFinal ==
    [][\A j \in Jobs \ Direct, p \in Procs :
          orders[j][p].state \in TERMINAL_STATES
             => orders'[j][p].state = orders[j][p].state]_vars

\* Of the submissions that share an idempotency key at most one ever reaches
\* the exchange, also when the first dies after pushing its payload and the
\* client submits again: the orphaned payload finds no job.
OneExecutionPerKey ==
    \A e, f \in 1..Len(exch) :
        KeyOf[exch[e].job] = KeyOf[exch[f].job] => exch[e].job = exch[f].job

\* While the processes stay up the queue empties for good: no payload is
\* deferred, retried or passed between workers forever.
QueueDrains == <>[](queue = <<>> /\ \A p \in Procs : pc[p] = "idle")

\* A job that a lone worker has picked up does not stay CREATED: the reply or
\* the except block moves it on.
PickedUpResolves ==
    \A j \in Jobs :
        (\E p \in Procs : Holds(p, j)) ~> jobRow[j].state # "CREATED"

-----------------------------------------------------------------------------
(* A statement of the documents that the code does not meet: its run        *)
(* exhibits a behaviour violating it.                                       *)

\* "Idempotent execution" of a job: the exchange fills at most one order of it.
IdempotentExecution ==
    \A e, f \in 1..Len(exch) :
        /\ exch[e].job = exch[f].job
        /\ exch[e].status = "FILLED" /\ exch[f].status = "FILLED"
        => e = f

=============================================================================
