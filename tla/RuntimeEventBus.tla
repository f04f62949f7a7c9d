-------------------------- MODULE RuntimeEventBus --------------------------
(***************************************************************************)
(* The decision-to-execution path over the Redis event bus:                *)
(*   services/runtime_execution_service.py    dispatch and the consumer    *)
(*   services/runtime_event_bus_service.py    lists, retry, quarantine     *)
(*   services/failed_event_service.py         the failed_events rows       *)
(*   services/runtime_ops_service.py          the operator's actions       *)
(*                                                                         *)
(* Dispatchers (one per decision), consumers and operators share one       *)
(* database and one Redis.  A step is what one of them does between two    *)
(* points the others can see: a Redis command or a database commit.  sess  *)
(* is what a consumer holds in memory or in its open transaction, and what *)
(* it loses when it dies.                                                  *)
(*                                                                         *)
(* Data: an event stands for its payload.  <<i, 0>> is the event of the    *)
(* dispatch of intent i, <<i, n>> the n-th one an operator publishes for   *)
(* it.  An envelope is an event with its metadata.retry_count.  A final    *)
(* row is "executed" (the paper exchange's FILLED, CANCELED or REJECTED),  *)
(* "blocked" (rejected by the gate) or "manual" (an operator's).           *)
(*                                                                         *)
(* Left out: the lists nobody consumes (runtime:events:all, runtime_events *)
(* and the other event types), the processing list (brpoplpush fills it,   *)
(* lrem empties it, nothing reads it back) and the Redis copy of the       *)
(* quarantine, of which only the length is read.                           *)
(***************************************************************************)
EXTENDS Integers, Sequences, FiniteSets

Seqs == INSTANCE SequencesExt
Sets == INSTANCE FiniteSetsExt

CONSTANTS
    Intents,        \* one per dispatch_decision_result call that trades
    Hashes, HashOf, \* intent_hash: two calls may carry one decision
    Workers,        \* processes and requests that call the consumer
    MaxRetry,       \* max_retry of process_submission_event_once
    ReleaseLimit,   \* limit of release_due_retry_events
    OperatorActs,   \* what operators do in this instance
    MaxOps,         \* bound: operator actions
    MaxToggles,     \* bound: changes of the gate
    MaxCrashes      \* bound: processes that die

ASSUME BusConstants ==
    /\ HashOf \in [Intents -> Hashes]
    /\ MaxRetry \in Nat \ {0}
    /\ ReleaseLimit \in Nat \ {0}
    /\ OperatorActs \subseteq {"quarantine", "rows", "replay", "finalize"}
    /\ {MaxOps, MaxToggles, MaxCrashes} \subseteq Nat

VARIABLES
    dispatch,       \* [Intents -> Dispatches]: how far the dispatch has come
    ledger,         \* [Intents -> Seq(Rows)]: committed execution_intent_events
    gateOpen,       \* commercial control and the safety gate let orders open
    queue,          \* runtime:events:execution.order.submission_requested
    retryQueue,     \* runtime_retry_queue
    deadLetter,     \* the events runtime_dead_letter_queue has held
    processed,      \* runtime:processed:event_ids
    failed,         \* [Events -> FailedRow]: the failed_events rows
    pc, sess,       \* [Workers -> ...]: process_submission_event_once
    op,             \* the operator's request between its read and its write
    replays,        \* [Intents -> Nat]: events published by operators
    ops, toggles, crashes

vars == <<dispatch, ledger, gateOpen, queue, retryQueue, deadLetter, processed,
          failed, pc, sess, op, replays, ops, toggles, crashes>>

-----------------------------------------------------------------------------
Events == Intents \X (0..MaxOps)
Envelopes == [event : Events, retry : 0..(MaxRetry + MaxOps)]
NoEnvelope == [event |-> <<>>, retry |-> 0]
IntentOf(env) == env.event[1]

FinalRows == {"executed", "blocked", "manual"}
Rows == FinalRows \cup {"submitted"}
Dispatches == {"none", "checked", "inserted", "published", "committed",
               "rejected", "existing", "failed"}

Reasons == {"none", "intent_state_violation", "duplicate_terminal_event",
            "exchange_adapter_failure", "worker_internal_error"}
ImmediateQuarantine == {"intent_state_violation", "duplicate_terminal_event"}

NoRow == [status |-> "none", retryCount |-> 0, envelope |-> NoEnvelope]
FailedRow ==
    {NoRow} \cup [status : {"retrying", "quarantined", "resolved", "dead"},
                  retryCount : 0..(MaxRetry + MaxOps), envelope : Envelopes]

Session == [env : Envelopes \cup {NoEnvelope}, batch : Seq(Envelopes),
            deferred : Seq(Envelopes), pend : Seq(Rows), reason : Reasons]
NoSession == [env |-> NoEnvelope, batch |-> <<>>, deferred |-> <<>>,
              pend |-> <<>>, reason |-> "none"]
Steps == {"idle", "trim", "release", "consume", "check", "load", "execute",
          "commit", "mark", "ack", "fail", "park", "record"}
NoOp == [act |-> "none", target |-> <<>>]

Exists(i) == dispatch[i] = "committed"
Final(row) == row \in FinalRows
Terminal(i) == \E k \in DOMAIN ledger[i] : Final(ledger[i][k])

Init ==
    /\ dispatch = [i \in Intents |-> "none"]
    /\ ledger = [i \in Intents |-> <<>>]
    /\ gateOpen = TRUE
    /\ queue = <<>> /\ retryQueue = <<>>
    /\ deadLetter = {} /\ processed = {}
    /\ failed = [e \in Events |-> NoRow]
    /\ pc = [w \in Workers |-> "idle"]
    /\ sess = [w \in Workers |-> NoSession]
    /\ op = NoOp
    /\ replays = [i \in Intents |-> 0]
    /\ ops = 0 /\ toggles = 0 /\ crashes = 0

-----------------------------------------------------------------------------
(* dispatch_decision_result for a decision that is neither REJECT nor HOLD *)

dispatchUnchanged == UNCHANGED <<ledger, gateOpen, retryQueue, deadLetter,
    processed, failed, pc, sess, op, replays, ops, toggles>>

SameDecision(i) == {j \in Intents \ {i} : HashOf[j] = HashOf[i]}

\* The look-up by intent_hash, then commercial control and the safety gate.
DispatchCheck(i) ==
    /\ dispatch[i] = "none"
    /\ dispatch' = [dispatch EXCEPT ![i] =
         IF \E j \in SameDecision(i) : Exists(j) THEN "existing"
         ELSE IF gateOpen THEN "checked" ELSE "rejected"]
    /\ UNCHANGED <<queue, crashes>> /\ dispatchUnchanged

\* Faulty: no unique index, so the INSERT always succeeds.
InsertUnchecked(i) ==
    /\ dispatch[i] = "checked"
    /\ dispatch' = [dispatch EXCEPT ![i] = "inserted"]
    /\ UNCHANGED <<queue, crashes>> /\ dispatchUnchanged

\* db.flush: the unique index on intent_hash makes the INSERT wait for an open
\* transaction with the same hash and fail once that one has committed.
DispatchInsert(i) ==
    /\ dispatch[i] = "checked"
    /\ \A j \in SameDecision(i) : dispatch[j] \notin {"inserted", "published"}
    /\ dispatch' = [dispatch EXCEPT ![i] =
         IF \E j \in SameDecision(i) : Exists(j) THEN "failed" ELSE "inserted"]
    /\ UNCHANGED <<queue, crashes>> /\ dispatchUnchanged

\* publish_runtime_event, before the transaction commits.
DispatchPublish(i) ==
    /\ dispatch[i] = "inserted"
    /\ dispatch' = [dispatch EXCEPT ![i] = "published"]
    /\ queue' = Append(queue, [event |-> <<i, 0>>, retry |-> 0])
    /\ UNCHANGED crashes /\ dispatchUnchanged

DispatchCommit(i) ==
    /\ dispatch[i] = "published"
    /\ dispatch' = [dispatch EXCEPT ![i] = "committed"]
    /\ UNCHANGED <<queue, crashes>> /\ dispatchUnchanged

\* The dispatcher dies, or its commit fails: the row is rolled back.
DispatchCrash(i) ==
    /\ crashes < MaxCrashes
    /\ dispatch[i] \in {"inserted", "published"}
    /\ dispatch' = [dispatch EXCEPT ![i] = "failed"]
    /\ crashes' = crashes + 1
    /\ UNCHANGED queue /\ dispatchUnchanged

Dispatch(i) == DispatchCheck(i) \/ DispatchInsert(i) \/ DispatchPublish(i)
               \/ DispatchCommit(i)

-----------------------------------------------------------------------------
(* release_due_retry_events *)

workerUnchanged == UNCHANGED <<dispatch, gateOpen, op, replays, ops, toggles,
                               crashes>>
storesUnchanged == UNCHANGED <<ledger, deadLetter, processed, failed>>
queuesUnchanged == UNCHANGED <<queue, retryQueue>>

Goto(w, step) == pc' = [pc EXCEPT ![w] = step]

\* LRANGE 0 limit-1.
ReleaseRead(w) ==
    /\ pc[w] = "idle"
    /\ Goto(w, IF retryQueue = <<>> THEN "consume" ELSE "trim")
    /\ sess' = [sess EXCEPT ![w].batch =
         SubSeq(retryQueue, 1, Sets!Min({ReleaseLimit, Len(retryQueue)}))]
    /\ UNCHANGED <<queue, retryQueue>> /\ storesUnchanged /\ workerUnchanged

\* LTRIM by the length of what was read, which is not always what was read.
ReleaseTrim(w) ==
    /\ pc[w] = "trim"
    /\ Goto(w, "release")
    /\ retryQueue' = SubSeq(retryQueue, Len(sess[w].batch) + 1, Len(retryQueue))
    /\ UNCHANGED <<queue, sess>> /\ storesUnchanged /\ workerUnchanged

\* requeue_runtime_event of an entry whose next_retry_at has passed.
ReleaseDue(w) ==
    /\ pc[w] = "release" /\ sess[w].batch # <<>>
    /\ queue' = Append(queue, Head(sess[w].batch))
    /\ sess' = [sess EXCEPT ![w].batch = Tail(@)]
    /\ UNCHANGED <<pc, retryQueue>> /\ storesUnchanged /\ workerUnchanged

\* An entry that is not due yet.
ReleaseDefer(w) ==
    /\ pc[w] = "release" /\ sess[w].batch # <<>>
    /\ sess' = [sess EXCEPT ![w].batch = Tail(@),
                            ![w].deferred = Append(@, Head(sess[w].batch))]
    /\ UNCHANGED <<pc, queue, retryQueue>> /\ storesUnchanged /\ workerUnchanged

\* Faulty: what is not due yet is not put back.
ReleaseDropDeferred(w) ==
    /\ pc[w] = "release" /\ sess[w].batch = <<>>
    /\ Goto(w, "consume")
    /\ sess' = [sess EXCEPT ![w] = NoSession]
    /\ queuesUnchanged /\ storesUnchanged /\ workerUnchanged

\* The entries that are not due go to the end of the retry queue.
ReleaseDeferred(w) ==
    /\ pc[w] = "release" /\ sess[w].batch = <<>>
    /\ Goto(w, "consume")
    /\ retryQueue' = retryQueue \o sess[w].deferred
    /\ sess' = [sess EXCEPT ![w] = NoSession]
    /\ UNCHANGED queue /\ storesUnchanged /\ workerUnchanged

-----------------------------------------------------------------------------
(* process_submission_event_once *)

\* brpoplpush takes from the end that rpush fills: the newest event first.
Consume(w) ==
    /\ pc[w] = "consume"
    /\ IF queue = <<>>
       THEN Goto(w, "idle") /\ UNCHANGED <<queue, sess>>
       ELSE /\ Goto(w, "check")
            /\ sess' = [sess EXCEPT ![w].env = Seqs!Last(queue)]
            /\ queue' = Seqs!Front(queue)
    /\ UNCHANGED retryQueue /\ storesUnchanged /\ workerUnchanged

\* is_event_processed; a duplicate is acknowledged and skipped.
CheckProcessed(w) ==
    /\ pc[w] = "check"
    /\ IF sess[w].env.event \in processed
       THEN Goto(w, "idle") /\ sess' = [sess EXCEPT ![w] = NoSession]
       ELSE Goto(w, "load") /\ UNCHANGED sess
    /\ queuesUnchanged /\ storesUnchanged /\ workerUnchanged

\* Faulty: the final row of an earlier attempt is not looked for.
NoTerminalCheck(i) ==
    IF ~Exists(i) THEN "intent_state_violation"
    ELSE IF ~gateOpen THEN "blocked" ELSE "open"

\* The intent, its final row, and the two gates, in the order they are read.
Admission(i) ==
    IF ~Exists(i) THEN "intent_state_violation"
    ELSE IF Terminal(i) THEN "duplicate_terminal_event"
    ELSE IF ~gateOpen THEN "blocked" ELSE "open"

LoadIntent(w) ==
    LET code == Admission(IntentOf(sess[w].env))
    IN  /\ pc[w] = "load"
        /\ \/ /\ code = "open"
              /\ Goto(w, "execute") /\ UNCHANGED sess
           \/ /\ code = "blocked"
              /\ Goto(w, "commit")
              /\ sess' = [sess EXCEPT ![w].pend = <<"blocked">>]
           \/ /\ code \in ImmediateQuarantine
              /\ Goto(w, "fail")
              /\ sess' = [sess EXCEPT ![w].reason = code]
        /\ queuesUnchanged /\ storesUnchanged /\ workerUnchanged

\* The paper exchange's answer, and a row for each state it reports.
ExecutionRows == <<"submitted", "executed">>

ExecuteOrder(w) ==
    /\ pc[w] = "execute"
    /\ Goto(w, "commit")
    /\ sess' = [sess EXCEPT ![w].pend = ExecutionRows]
    /\ queuesUnchanged /\ storesUnchanged /\ workerUnchanged

\* The adapter raises, or publishing raises after the first n rows were added
\* to the session; the handler does not roll them back.
ExecuteFault(w) ==
    /\ pc[w] = "execute"
    /\ Goto(w, "fail")
    /\ \E n \in 0..Len(ExecutionRows) :
         sess' = [sess EXCEPT ![w].pend = SubSeq(ExecutionRows, 1, n),
                              ![w].reason = IF n = 0
                                            THEN "exchange_adapter_failure"
                                            ELSE "worker_internal_error"]
    /\ queuesUnchanged /\ storesUnchanged /\ workerUnchanged

AddRows(w) == ledger' = [ledger EXCEPT ![IntentOf(sess[w].env)] = @ \o sess[w].pend]

\* Faulty: the event is marked processed and the commit never comes.
MarkFirst(w) ==
    /\ pc[w] = "commit"
    /\ Goto(w, "mark")
    /\ processed' = processed \cup {sess[w].env.event}
    /\ UNCHANGED <<sess, ledger, failed, deadLetter>>
    /\ queuesUnchanged /\ workerUnchanged

CommitOrder(w) ==
    /\ pc[w] = "commit"
    /\ Goto(w, "mark")
    /\ AddRows(w)
    /\ sess' = [sess EXCEPT ![w].pend = <<>>]
    /\ UNCHANGED <<deadLetter, processed, failed>>
    /\ queuesUnchanged /\ workerUnchanged

MarkProcessed(w) ==
    /\ pc[w] = "mark"
    /\ Goto(w, "ack")
    /\ processed' = processed \cup {sess[w].env.event}
    /\ UNCHANGED <<sess, ledger, deadLetter, failed>>
    /\ queuesUnchanged /\ workerUnchanged

Ack(w) ==
    /\ pc[w] = "ack"
    /\ Goto(w, "idle")
    /\ sess' = [sess EXCEPT ![w] = NoSession]
    /\ queuesUnchanged /\ storesUnchanged /\ workerUnchanged

\* The exception handler counts the attempt and acknowledges the event before
\* it is anywhere else.
FailAck(w) ==
    /\ pc[w] = "fail"
    /\ Goto(w, "park")
    /\ sess' = [sess EXCEPT ![w].env.retry = @ + 1]
    /\ queuesUnchanged /\ storesUnchanged /\ workerUnchanged

\* Faulty: the retry budget is not looked at.
NeverExhausted(w) == sess[w].reason \in ImmediateQuarantine

Quarantines(w) == sess[w].reason \in ImmediateQuarantine
                  \/ sess[w].env.retry >= MaxRetry

\* enqueue_quarantine_event or enqueue_retry_event.
FailEnqueue(w) ==
    /\ pc[w] = "park"
    /\ Goto(w, "record")
    /\ IF Quarantines(w)
       THEN /\ deadLetter' = deadLetter \cup {sess[w].env.event}
            /\ UNCHANGED retryQueue
       ELSE /\ retryQueue' = Append(retryQueue, sess[w].env)
            /\ UNCHANGED deadLetter
    /\ UNCHANGED <<queue, sess, ledger, processed, failed>> /\ workerUnchanged

\* _handle_runtime_failure: upsert_failed_event commits the session, with the
\* rows the failed attempt had added.
FailRecord(w) ==
    /\ pc[w] = "record"
    /\ Goto(w, "idle")
    /\ failed' = [failed EXCEPT ![sess[w].env.event] =
         [status |-> IF Quarantines(w) THEN "quarantined" ELSE "retrying",
          retryCount |-> sess[w].env.retry, envelope |-> sess[w].env]]
    /\ IF sess[w].pend = <<>> THEN UNCHANGED ledger ELSE AddRows(w)
    /\ sess' = [sess EXCEPT ![w] = NoSession]
    /\ UNCHANGED <<deadLetter, processed>> /\ queuesUnchanged /\ workerUnchanged

\* The process dies: its transaction is rolled back, what it holds is gone.
WorkerCrash(w) ==
    /\ crashes < MaxCrashes
    /\ pc[w] # "idle"
    /\ Goto(w, "idle")
    /\ sess' = [sess EXCEPT ![w] = NoSession]
    /\ crashes' = crashes + 1
    /\ queuesUnchanged /\ storesUnchanged
    /\ UNCHANGED <<dispatch, gateOpen, op, replays, ops, toggles>>

WorkerStep(w) ==
    \/ ReleaseRead(w) \/ ReleaseTrim(w) \/ ReleaseDue(w) \/ ReleaseDefer(w)
    \/ ReleaseDeferred(w) \/ Consume(w) \/ CheckProcessed(w) \/ LoadIntent(w)
    \/ ExecuteOrder(w) \/ ExecuteFault(w) \/ CommitOrder(w) \/ MarkProcessed(w)
    \/ Ack(w) \/ FailAck(w) \/ FailEnqueue(w) \/ FailRecord(w)

-----------------------------------------------------------------------------
(* Operators, and the pipeline's recovery loop over failed_events *)

operatorUnchanged == UNCHANGED <<dispatch, gateOpen, retryQueue, deadLetter,
    processed, pc, sess, toggles, crashes>>

Acts(kind) == kind \in OperatorActs /\ ops < MaxOps /\ ops' = ops + 1

HasRow(e) == failed[e] # NoRow

\* replay_quarantined_event, whatever the row's status: the envelope goes back
\* to the queue with the retry_count it failed with.
QuarantineReplay(e) ==
    /\ Acts("quarantine") /\ op = NoOp /\ HasRow(e)
    /\ queue' = Append(queue, failed[e].envelope)
    /\ op' = [act |-> "replayed", target |-> e]
    /\ UNCHANGED <<ledger, failed, replays>> /\ operatorUnchanged

QuarantineReplayCommit ==
    /\ op.act = "replayed"
    /\ failed' = [failed EXCEPT ![op.target].status = "retrying",
                                ![op.target].retryCount = 0]
    /\ op' = NoOp
    /\ UNCHANGED <<ledger, queue, replays, ops>> /\ operatorUnchanged

\* dismiss_quarantined_event and mark_quarantined_failed.
QuarantineClose(e) ==
    /\ Acts("quarantine") /\ HasRow(e)
    /\ \E s \in {"resolved", "dead"} : failed' = [failed EXCEPT ![e].status = s]
    /\ UNCHANGED <<ledger, queue, replays, op>> /\ operatorUnchanged

\* mark_failed_event_retry on a row.
RowRetried(row) ==
    [row EXCEPT !.retryCount = @ + 1,
                !.status = IF row.retryCount + 1 >= MaxRetry THEN "dead"
                           ELSE "retrying"]

\* The retry, resolve and reprocess endpoints change the row and nothing else.
RowAction(e) ==
    /\ Acts("rows") /\ HasRow(e)
    /\ \E row \in {RowRetried(failed[e]),
                   [failed[e] EXCEPT !.status = "resolved"],
                   [failed[e] EXCEPT !.status = "retrying", !.retryCount = 0]} :
         failed' = [failed EXCEPT ![e] = row]
    /\ UNCHANGED <<ledger, queue, replays, op>> /\ operatorUnchanged

\* _failed_event_recovery_loop.
RecoveryLoop(e) ==
    /\ failed[e].status = "retrying"
    /\ failed' = [failed EXCEPT ![e] =
         IF @.retryCount >= 1 THEN [@ EXCEPT !.status = "resolved"]
         ELSE RowRetried(@)]
    /\ UNCHANGED <<ledger, queue, replays, op, ops>> /\ operatorUnchanged

\* perform_recovery_action: the intent exists and has no final row ...
RecoveryRead(i) ==
    /\ op = NoOp /\ Exists(i) /\ ~Terminal(i)
    /\ \E kind \in {"replay", "finalize"} :
         Acts(kind) /\ op' = [act |-> kind, target |-> i]
    /\ UNCHANGED <<ledger, queue, failed, replays>> /\ operatorUnchanged

\* ... so a new event is published for it (replay_event_chain),
RecoveryReplay ==
    /\ op.act = "replay"
    /\ replays' = [replays EXCEPT ![op.target] = @ + 1]
    /\ queue' = Append(queue, [event |-> <<op.target, replays[op.target] + 1>>,
                               retry |-> 0])
    /\ op' = NoOp
    /\ UNCHANGED <<ledger, failed, ops>> /\ operatorUnchanged

\* or a final row is committed (cancel_intent, mark_failed).
RecoveryFinalize ==
    /\ op.act = "finalize"
    /\ ledger' = [ledger EXCEPT ![op.target] = Append(@, "manual")]
    /\ op' = NoOp
    /\ UNCHANGED <<queue, failed, replays, ops>> /\ operatorUnchanged

\* The safety gate or commercial control changes.
ToggleGate ==
    /\ toggles < MaxToggles
    /\ gateOpen' = ~gateOpen
    /\ toggles' = toggles + 1
    /\ UNCHANGED <<dispatch, ledger, queue, retryQueue, deadLetter, processed,
                   failed, pc, sess, op, replays, ops, crashes>>

Next ==
    \/ \E i \in Intents : Dispatch(i) \/ DispatchCrash(i) \/ RecoveryRead(i)
    \/ \E w \in Workers : WorkerStep(w) \/ WorkerCrash(w)
    \/ \E e \in Events : QuarantineReplay(e) \/ QuarantineClose(e)
                         \/ RowAction(e) \/ RecoveryLoop(e)
    \/ QuarantineReplayCommit \/ RecoveryReplay \/ RecoveryFinalize
    \/ ToggleGate

Spec == Init /\ [][Next]_vars

\* The worker loop polls for ever and a request that has started finishes.
\* A retry entry becomes due after at most 2^(MaxRetry - 2) seconds, so it is
\* not deferred for ever.
Fairness ==
    /\ \A i \in Intents : WF_vars(Dispatch(i))
    /\ \A w \in Workers : WF_vars(WorkerStep(w)) /\ SF_vars(ReleaseDue(w))

FairSpec == Spec /\ Fairness

-----------------------------------------------------------------------------
(* Properties *)

TypeOK ==
    /\ dispatch \in [Intents -> Dispatches]
    /\ ledger \in [Intents -> Seq(Rows)]
    /\ queue \in Seq(Envelopes) /\ retryQueue \in Seq(Envelopes)
    /\ deadLetter \subseteq Events /\ processed \subseteq Events
    /\ failed \in [Events -> FailedRow]
    /\ pc \in [Workers -> Steps] /\ sess \in [Workers -> Session]
    /\ replays \in [Intents -> 0..MaxOps]

CopiesIn(seq) == {seq[k] : k \in DOMAIN seq}

\* The envelopes some process will still look at.
Live == CopiesIn(queue) \cup CopiesIn(retryQueue)
        \cup UNION {CopiesIn(sess[w].batch) \cup CopiesIn(sess[w].deferred)
                    \cup ({sess[w].env} \ {NoEnvelope}) : w \in Workers}

LiveIntent(i) == \E env \in Live : IntentOf(env) = i
DeadLettered(i) == \E e \in deadLetter : e[1] = i

ConsumerRows == {"executed", "blocked"}

\* Idempotent consumption: with one consumer an intent gets at most one final
\* row from it, through retries, restarts, repeated deliveries of its event
\* and whatever operators replay, edit or close by hand meanwhile.
OneFinalRow ==
    \A i \in Intents :
        \A k, n \in DOMAIN ledger[i] :
            ledger[i][k] \in ConsumerRows /\ ledger[i][n] \in ConsumerRows => k = n

\* What a crash can lose is what the dead process had taken out of the lists:
\* the batch of one release, or one event.  Nothing else is ever lost.
LossBounded ==
    Cardinality({i \in Intents : Exists(i) /\ ~Terminal(i) /\ ~LiveIntent(i)
                                /\ ~DeadLettered(i)}) <= crashes * ReleaseLimit

\* An event in the processed set has had its effect: a consumer that skips it
\* as a duplicate never skips work that was not done.
ProcessedHadEffect == \A e \in processed : Terminal(e[1])

\* One decision trades once: of the intents with one intent_hash at most one
\* is ever executed, whichever of the racing dispatches wins.
OneExecutionPerDecision ==
    \A i, j \in Intents :
        (i # j /\ HashOf[i] = HashOf[j]) => ledger[i] = <<>> \/ ledger[j] = <<>>

-----------------------------------------------------------------------------
(* The promise of IntentDelivery *)

Stage(i) ==
    IF Terminal(i) THEN "final"
    ELSE IF ~Exists(i) THEN "none"
    ELSE IF LiveIntent(i) THEN "pending"
    ELSE IF DeadLettered(i) THEN "parked" ELSE "lost"

PlacesOf(row, i) == {k \in DOMAIN ledger[i] : ledger[i][k] = row}

\* The abstract state: where an intent stands, and its final rows.
deliveryStage == [i \in Intents |-> Stage(i)]
deliveryFinals ==
    [i \in Intents |-> [row \in FinalRows |-> Cardinality(PlacesOf(row, i))]]

Delivery == INSTANCE IntentDelivery WITH
    stage <- deliveryStage, finals <- deliveryFinals

\* The bus implements the promise: a committed intent is pending until it has
\* its one final row or is parked, it does not stay pending for ever, and a
\* final row is never revised.
DeliversIntents == Delivery!Spec

=============================================================================
