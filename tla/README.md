# Verification of the trading backend's execution path

TLA+ specifications of how the backend turns a trading signal, a runtime decision or a
user's intent into orders and positions, and of the control loops around it (the safety
gate, incident remediation, the risk policy, the export scheduler). TLC checks them on
small instances; TLAPS proves theorems about each of them for every size.  Paths below are relative to the
repository's `src/`, and those without a directory to `src/backend/`; `PROJECT.json`
maps each definition to the lines it models.

## 1. Inventory

The repository is a FastAPI backend with a PostgreSQL database and Redis, about
180 service modules, and a React frontend.  The session factory has autocommit and
autoflush off, and a commit expires every loaded row, so a session reads a row once
and again only after its own next commit.  Transactions are READ COMMITTED.

| Component | State | Operations | What is hard | Correct when |
|---|---|---|---|---|
| Execution engine `core/execution_engine.py` | rows of `execution_jobs`, `orders`, `positions`; Redis list `execution:jobs:queue` | `submit_signal`, `enqueue_execution`, `execute_queued_job`, `handle_execution_result` | several sessions, commits in the middle of a handler, retries after lost replies, crashes | one holder per payload, bounded retries and submissions, truthful outcomes, no fill booked twice, one execution per key |
| Worker `workers/execution_worker.py` | none | pops the list, then the event bus | dies with what it popped | the queue drains |
| Reconciliation `core/reconciliation/` | none of its own | `run_order_reconciliation` | writes statuses fetched earlier | closed orders stay closed |
| Binance adapter `core/exchanges/` | none | signed requests with retries, status mapping | a timeout hides the result | submissions stay bounded |
| Kill switch `core/safety/kill_switch.py` | Redis key | activate, deactivate, automatic activation | read long before it matters | see section 6 |
| Risk check `core/risk_engine.py` | reads positions | `evaluate_risk` | check and use far apart | see section 6 |
| Go-live checklist `core/go_live_checklist.py` | none | executes what it submitted | the payload stays in the queue | same as the engine |
| Runtime event bus `services/runtime_execution_service.py`, `runtime_event_bus_service.py`, `failed_event_service.py`, `runtime_ops_service.py` | intents and their events, queue, delayed set, processed set, failed events, quarantine | dispatch, consume, retry, quarantine, replay, recover | publish before commit, acknowledge before re-enqueue, two-command releases | an intent is never lost and gets one final row |
| User intents `services/execution_intent_service.py` | intents, paper positions and their mirror rows | preview, submit with automatic release, cancel, close, partial close, reverse | checks on a loaded copy, a release in the same session | one execution per payload, books that agree |
| Export scheduler `services/commercial_export_scheduler_service.py` | schedules, manifests, Redis and advisory locks | cycle: recover, claim, export, record | two locks of different kinds, one of them lost with a pooled connection, commits in between, a rollback at the end | one delivery per window, and one for each lock lost |
| Safety gate `services/execution_safety_service.py` | one configuration row | the gate, the trading switch, canary limits | asks in one snapshot, acts in a later transaction; some paths never ask | limits and switch hold up to what is in flight and what never asked |
| Incident remediation `services/incident_intelligence_service.py` | incidents with their history, trading switch, leverage cap | cycle, execute, roll back, edit states and policies | action and its entry in two transactions, no lock between handlers | cooldowns and entries lost only to overlaps and failures, mitigation goes on |
| Risk policy approvals `services/risk_orchestrator_service.py` | policy row, versions, change and approval requests, traces | simulate, apply, approve, reject, assign, force, sweep | a lock given up by a commit half way, stale sweeps | four eyes, applied once, recorded |
| Pipeline `services/pipeline/` | runtime state, its own kill switch | tick, toggle | switch and tick interleave | no trade after a stop |
| Runtime control `runtime_control/` | override document | read, modify, write | lost updates | overrides are not lost |
| Readiness, futures, strategies, onboarding, authentication, alerts, reporting, routers | various | mostly sequential | little concurrency | see section 7 for why each is left out |

Interaction.  Routers call `submit_signal`, which writes the job row and pushes a
payload; workers (separate processes) and the process-once endpoint
(`routers/runtime_execution.py:150`) pop it and call the adapter; administrators start reconciliations and go-live runs at any
time; the kill switch and the venue mode are changed at any time.  When the
engine's list is empty the same worker loop consumes the runtime bus.  The bus's
dispatcher and worker, and the user's submit, ask the safety gate; incident
remediation and the risk orchestrator write the gate's configuration row.  All of
them meet only in the database, in Redis and at the exchange.

The hazards this exposes are listed in `PROJECT.json`, each at its line with the
properties that would catch it.

## 2. Plan

Done: the execution engine with its proofs (`ExecutionEngine`), the bus and its
abstract specification (`RuntimeEventBus`, `IntentDelivery`), user intents
(`ExecutionIntents`), the export scheduler (`ExportScheduler`), the safety gate
(`ExecutionSafety`), incident remediation (`IncidentRemediation`), the risk
policy's approvals (`PolicyApprovals`), and the proofs of section 5.

Next, in this order:

1. An abstract life of a job (submitted, executing, resolved) that the engine refines.
2. `RuntimeOverrides` and the pipeline kill switch: lost updates and stale reads.
3. Adapter arithmetic: quantity normalisation and the minimum-notional loop of
   `submit_order`, checked against a reference over bounded inputs.

## 3. The models

### Modules

| Module | What it is |
|---|---|
| `ExecutionEngine` | engine, worker, go-live runs, reconciliation, adapter, kill switch: they share all of their state |
| `ExecutionEngineProofs`, `ExecutionEngineCustody` | proofs about it |
| `RuntimeEventBusProofs`, `ExecutionIntentsProofs`, `ExportSchedulerProofs`, `PolicyApprovalsProofs`, `ExecutionSafetyProofs`, `IncidentRemediationProofs` | proofs about the modules they are named for |
| `RuntimeEventBus` | dispatchers, consumers and operators over Redis and the database |
| `IntentDelivery` | what the bus promises of an intent, without queues |
| `ExecutionIntents` | the user's intents and the positions they open and close |
| `ExportScheduler` | scheduler loops of several processes |
| `ExecutionSafety` | the gate, its configuration row, and the three paths that ask it |
| `IncidentRemediation` | remediation cycle and operators |
| `PolicyApprovals` | API calls on approval requests and the policy row |
| `MC...` | constant values, and the scenarios of a run: who takes part and what may go wrong, chosen in the initial state |

Beside some definitions stands a faulty variant ("Faulty: ...", named in
`PROJECT.json` under `mutants`); replacing the one by the other shows that a
property notices the fault.

### ExecutionEngine

| Variable | Code |
|---|---|
| `phase[j]` | how far the `submit_signal` call that makes job `j` has come |
| `jobRow[j]` | committed `execution_jobs.state` and `retry_count` |
| `queue` | `execution:jobs:queue`; `retried` stands for `retry_at_ts` being set |
| `orders[j][p]` | committed rows of `orders` for job `j`; the column is the session that inserted the row, so a job may have several |
| `position[u]` | committed `positions.size` of the user's row, 0 when there is none |
| `exch` | what the exchange accepted, oldest first; the index is the order id |
| `pc[p]`, `sess[p]` | where `execute_queued_job` is and what its session has read |
| `recon[c]` | what a running reconciliation has fetched and read |
| `venueOpen`, `killSwitch` | `get_execution_adapter` does not raise; the Redis key |
| `advised` | jobs with a kill-switch advisory entry |

Steps.

A step ends where other processes can see its effect: a Redis command, a commit, a
request.  `submit_signal` is `InsertJob` (flush), then `RejectAudit`/`RejectJob`, or
`PushPayload` and `CommitEnqueue`, with `AbortSubmit` in between.  A worker takes
`Consume` (or drops, defers or loses the payload: `ConsumeIgnored`,
`ConsumeDeferred`, `ConsumeRefused`), sends requests (`ExchangeAccepts`,
`ReplyLost`, `RequestLost`, `ExchangeRejects`, `BalanceCheckFails`), then
`LatencyAlert` (whose commit is visible), `ApplyResult` (in memory), `CommitResult`
or `CommitResultConflict`, and `AfterCommit` or `AfterCommitRaises`.  Failures go
through `HandleFailure` (the commit of the except block) and then `Requeue` or
`CloseFailed`, which read the row again because the commit expired it.  `Crash`
may happen whenever a session holds a job.

Three points where the model follows the code rather than its intention:
`Written` skips a column whose new value equals the one the session read (the ORM
leaves it out of the UPDATE); `Refreshed` re-reads rows after a commit; and
`ApplyResult` sends a second reply for an order that has left CREATED to the except
block with its `external_order_id` already replaced, because the state walk always
begins with SENT.

The exchange is external: it refuses a client order id only while an order with
that id is live, it may refuse or lose anything, and its orders change status on
their own until they are closed.  REJECTED behaves as EXPIRED everywhere.

Coarser than the code: a reconciliation reads orders, statuses and jobs in one
step and commits in another; orders it fetches without a difference, and fetches
that fail, are the ones left out of the chosen subset.  Its `limit` is above the
number of orders of an instance.  Symbol rules, prices, leverage and failure
classes are data the properties do not look at.  A user has one symbol, and every
fill is complete.


### RuntimeEventBus and IntentDelivery

| Variable | Code |
|---|---|
| `dispatch[i]` | how far `dispatch_decision_result` of intent `i` has come; the row exists only after its commit |
| `ledger[i]` | committed `execution_intent_events`, oldest first |
| `gateOpen` | what the safety gate and commercial control answer |
| `queue`, `retryQueue`, `deadLetter`, `processed` | the Redis list, `runtime_retry_queue`, `runtime_dead_letter_queue`, `runtime:processed:event_ids` |
| `failed[e]` | the row of `failed_events` |
| `pc[w]`, `sess[w]` | where `process_submission_event_once` is; what it holds in memory and in its open transaction |
| `op` | an operator's request between its read and its write |

A dispatch is `DispatchCheck` (the look-up by `intent_hash`), `DispatchInsert`,
`DispatchPublish` and `DispatchCommit`, in the code's order: the event is in Redis
before the row is committed.  A consumer first releases delayed events
(`ReleaseRead`, `ReleaseTrim`, then one `ReleaseDue` or `ReleaseDefer` per entry,
`ReleaseDeferred`), then takes one event (`Consume`, `CheckProcessed`, `LoadIntent`,
`ExecuteOrder` or `ExecuteFault`, `CommitOrder`, `MarkProcessed`, `Ack`) or fails it
(`FailAck`, `FailEnqueue`, `FailRecord`, each a store of its own).  `WorkerCrash`
loses what is in `sess`.  Whether a delayed entry is due is a free choice.

`IntentDelivery` has one stage and a count of the final rows per intent.  `Stage(i)`
in `RuntimeEventBus` maps the lists, the consumers' memory and the ledger to a stage,
`deliveryFinals` counts the rows; `DeliversIntents` is `IntentDelivery`'s
specification, liveness included, under that mapping, and `Delivery!Safe` the part
without liveness.  A state in which the event is nowhere maps to "lost", a stage the
abstract specification does not have.

### ExecutionIntents

`intent[i]` is a row of `user_execution_intents`, `position` the paper positions with
their mirror in `positions`, `session[r]` what a request's session has loaded and
where it is, `executed` a history.  A preview is `PreviewRead` and `PreviewWrite`; a
submit is `SubmitRead`, then `SubmitReject` or `SubmitAccept`, `Refresh`, `Enqueue`,
`Approve`, `ExecuteBegin` and `ExecuteCommit` (the auto release runs in the submit's
session); a cancel is `CancelRead` and `CancelWrite`.  `Fail` ends any request
anywhere: an exception or a death of its process, with what was not committed lost.
A status check reads the session's loaded copy; `with_for_update` locks the row
(`Unlocked`) but leaves the copy alone; a write is sent only when it differs from the
copy (`WriteStatus`).  Equal canonical payloads are one key.  `overlap` is history: some
request began while another was in progress.

`ReleaseBreaksOff` is the release that fails after it has changed something
(`services/execution_intent_service.py:1635`): the audit entry of the failure commits the
session, so that a reversal whose second price read raises (line 1822) has its old
position closed with the mirror still open and no new one, and, where
`PricesFromRedis` lets `sync_position_state` raise, any position action leaves a
mirror behind (`BrokenOff`).  The intent stays APPROVED and may be cancelled, previewed
and submitted again under its key.  `torn` remembers the positions left so; nothing
repairs a mirror but the next execution that acts on the position.  A reversal may open
more or less than it closes (`ReverseSizes`).

### ExportScheduler

`row[s]` is a schedule, `manifest[s][w]` its export of window `w`, `redis` the expiry of
the Redis lock, `advisory` who holds PostgreSQL's advisory lock of a window, `cycle[p]`
where a process's loop is.  One step lies between two commits.  What the cycle
assigns after its last commit stays in `unsaved` until the session commits again or
rolls back (`EndCycle`).  Time is a counter up to `MaxTime`; the order of the
delays is that of the code (lock below claim below stale limit below period).

The advisory lock belongs to a pooled connection, which every commit returns.  An unlock
may therefore miss it and leave it with the pool of the process (`Unlock`), and the pool
may close the connection (`pool_recycle`, `max_overflow`, `db.py:237`) and so free the
lock while its cycle is at work (`ConnectionClosed`).  `lost[s][w]` counts the times a
cycle lost the lock between its claim and the end of its export.  Without the lock two
cycles may take up one failed manifest (`FindFailed`, `ReuseManifest`), or both miss it,
and then the unique index refuses the second (`KeyRefused`, which ends that loop:
the session is of no use after the failed flush and the except block raises, too).

### ExecutionSafety

`config` is the `LiveActivationConfig` row; `runtime`, `outcome`, `user` and `position`
the tables the gate counts; `lane[l]` a handler that has been let through and has
not written yet.  `WithinBounds` and `CanaryAllows` are the gate, asked by
`DispatchCheck`, `WorkerCheck` and `SubmitCheck`; the other steps act on an older
answer.  `SetKillSwitch` is the operator's update, `ControlKill` the risk
orchestrator's.

What is asked about and what is counted differ.  `Asked` is the notional proposed,
`Booked` what the row counts (a user's notional after the precheck, the quantity of a
runtime decision), `Worth` entry price times quantity of the open position; the three
are free of each other.  Some paths do not ask at all: `Reverse` (submit asks for
OPEN_POSITION only, line 1472), `OpenOutside` (the pipeline's `open_paper_position`), and
`Requeue` (the two dashboard buttons that put rejected rows back to QUEUED, where they
count but no route releases them).  `EmergencyStop` closes positions and rejects rows, and
leaves the switch as it is.  `Unasked` and `UnaskedEntries` say how much of what stands
was never asked about.  Four variables are history: `leaked` counts executions of what
the gate let through since trading was switched off, `raced` says that a lane was let
through while another was at work, `lowered` that a limit was set below the one that
stood, `requeued` which rows were put back.

A partial close only lowers an amount and is left out, since a position may close
at any time.  In a lane one intent is handled at a time.

### IncidentRemediation

`row[i]` is an incident with its status, the age of each action's entry in
`remediation_history`, the latest rollback payload and the number of applied actions
that have no entry (`missing`, which every copy of the row carries along); `trading` and
`leverage` are the configuration row, `policy[i]` what the policy configuration says of
the incident now, `anomalous` the fingerprints with an anomaly in the window, `task[h]`
a handler (operator or cycle) between its transactions, `todo[h]` the rest of its cycle.

Handlers overlap freely.  Each copies the row when it begins (`seen`), and writes its
copy, or the columns it changed, later: `VisitOpen` or `VisitNew`, then `Upsert`;
`CheckCooldown`, `ApplyAction` (the commit of the switch or the cap) and `RecordAction`
(the entry's); `ApplyRollback` and `RecordRollback`; `WriteState`.  `Fail` ends a handler
at any of these points, which is what a connector that refuses after the commit, a
failing audit entry or a dying process do; it ends the cycle, as an active cooldown does.
`Anomaly` lets events come and leave the window, and the order of visits is free.
Operators execute, roll back, edit states, run cycles and change policies, and an
incident may have no policy (cooldown 0, never automatic).

History: `since` is the true age of each action, `slips[i]` counts handlers that
began on `i` beside another or failed between commit and entry, `repeats[i]` actions
applied within the cooldown of the last.  `restart_worker` stands for
`reconcile_trigger`, OPEN for INVESTIGATING and RESOLVED for FALSE_POSITIVE, which the
code treats alike; the read of the cap and its write are one step.

### PolicyApprovals

`policy` is the row "global" with its version, `approval[k]` a request with owner,
votes and state, `changes` and `versions` the two history tables, `trace` the recorded
answer of an idempotency key, `call[h]` a call between two commits.  `Look` reads
the policy and the trace, `Block` and `Insert` answer a CRITICAL apply with a
request, `Approve`, `Reject`, `Assign` and `ForceApply` are the operations on it, the
sweep is `SweepRow`, `SweepOwned` and `ExpireCommit`, and an apply is `CommitValues`
(which ends the row lock), `CommitVersion`, `Finalize` and, of a request, `Decide`.
`Finalize` follows the transition table of the states: an assigned or approved request
becomes approved, an expired one only by a forced apply.  The routes to the writing
operations answer 410 Gone at this commit (section 7): the model is of the service.

### Abstractions common to all

Amounts are small integers, classes and reasons are members of small sets, and
what is only shown or logged is left out.  Paper prices do not move.  The policy's
values are one simulation id, written as a whole; the comparison with
`expected_policy_version` is left out, and ties between administrators in the
automatic assignment are broken freely.

## 4. Runs

Deadlock is not checked where an instance has finitely many things to do and
really stops; `Incidents` runs for ever and is checked for it.  A scenario module
lists every action of its component, so that TLC counts each of them.

| Run | Instance | States | Shows |
|---|---|---|---|
| `EngineSafety` | two workers on two jobs with a crash; two submissions of one key with two crashes and a toggle; worker and reconciliation with every status, a crash and two toggles; a go-live run beside a worker and a reconciliation (at most 3 exchange orders); workers symmetric | 598,908 | `TypeOK`, `SingleCustody`, `OneOrderRow`, `RetryBudget`, `PositionBacked`, `BoundedSubmissions`, `OutcomeTruthful`, `OrderRowsTraceable`, `OneExecutionPerKey`, `TerminalOrdersFinal` |
| `EngineLiveness` | two default-keyed jobs, one worker, fairness, kill switch toggled twice | 405,844 | `QueueDrains`, `PickedUpResolves` |
| `BusSafety` | two intents with two crashes and a changing gate; two dispatches of one decision with a crash and two operator actions | 1,262,022 | `TypeOK`, `ProcessedHadEffect`, `OneFinalRow`, `LossBounded`, `OneExecutionPerDecision` |
| `BusDelivers` | two intents, one consumer that stays up, one operator replay, fairness | 472,686 | `DeliversIntents` |
| `IntentsSafety` | one client with every kind of payload, reversals of another size and releases that break off; three clients racing on one payload | 2,639,870 | `TypeOK`, `SubmitOnce`, `ReleasedWasExecuted`, `SerialOneExecutionPerKey`, `SerialBooksAgree`, `SerialTerminalIsFinal` |
| `ExportSafety` | two processes over one schedule with a crash and a failed export (`Overlap`), with a lost window lock besides (`Unlocked`); one process with two schedules for three windows (`Steady`); symmetric | 1,832,037 | `TypeOK`, `OneDeliveryPerWindow`, `SuccessHasArtifact` |
| `SafetyGate` | one lane with limits that are raised and lowered; canary limits; two lanes with the orchestrator's kill; in each a position opened without asking, reversals, requeues and the emergency stop | 1,395,319 | `TypeOK`, `GateHolds`, `OvershootBounded`, `KillSwitchDrains` |
| `Incidents` | two incidents, one of them automatic, the other made so by a policy change; one operator request, one failure, one overlap or failure per incident; anomalies come and go; fairness | 479,504 | `TypeOK`, `EntryKept`, `CooldownRespected`, `RemediationGoesOn` |
| `PolicyApprovals` | overlapping calls on one request with a crash and a deactivation; five calls one after the other on three requests; calls symmetric | 1,319,793 | `TypeOK`, `FourEyes`, `ApprovedWasApplied`, `SerialAppliedOnce`, `SerialChangesRecorded` |
| `IdempotentExecution` | one job, one worker, a lost reply | violated | a job is filled twice |
| `IntentDoubleSubmit` | two submits of one preview | violated | two positions of one payload |
| `ExportHealthy` | one process, one schedule, no failure | violated | a healthy schedule is disabled |

The last three show disagreements between the code and a statement about it, which
"findings" of `PROJECT.json` quotes.

Bounds.  Engine: two workers and two jobs are the least with which payloads, order
rows and positions can be confused; `MaxRetry` of 2 gives a first try and the last
failure (the code's 3 adds another of the same kind); one crash is enough to lose a
payload at every point, and two let the submitter and a worker both die.  Bus:
two intents and `ReleaseLimit` 1 make a release leave entries behind; two restarts
let a second consumer meet what the first lost; `MaxRetry` 2 gives one delayed
retry and the quarantine.  Intents: three requests are a racing pair and a
bystander that previews or cancels; a reversal that opens 3 where 2 are closed
tells the two sizes apart.  Export: a `Period` of 5 with a `MaxTime` of 10 has three
windows, so that a failed one, a stale one and the one after it follow on each other;
the scenarios with two processes stop within the first window and the second's start; a
second process is enough for every overlap, and one lost lock (`MaxLost`) for two holders.
Gate: two lanes are the least that can race, and the bound proved of them is stated for
any number; the amounts are chosen so that a row counts more than was proposed (`r1`),
less (`u2`), and a position more or less than its row.  Incidents: two fingerprints let
an automatic one wait behind a cooling one; one overlap or failure per incident
(`MaxSlips`) lets an entry be lost and the cycle go on after it.
Approvals: a requester, an approver and an operator are the least a weighted
quorum needs; three overlapping calls let a second vote and a sweep meet a first.
`MaxToggles`, `MaxOps`, `MaxRequests`, `MaxChanges`, `MaxCalls` and
`MaxDeactivations` bound operators only; `MaxTime` and `MaxFailures` time and the
environment.

Properties whose name begins with `Serial`, and `GateHolds` (until a lane has `raced`),
are about actors that do not overlap: they hold there and fail when actors do
(section 6).  The scenarios with overlap check what is left to hold then.
`OneDeliveryPerWindow`, `EntryKept` and `CooldownRespected` count instead: each lock that
was lost, each overlap or failure, costs one delivery, entry or cooldown at most, and
without any there is nothing to excuse.  `OneFinalRow` and `DeliversIntents` are about one consumer,
`TerminalOrdersFinal` about one reconciliation at a time.

Fairness.

- Engine: `run_worker_forever` polls without end and a handler that started runs on,
  so each of a worker's steps is weakly fair, and so is an API call that began.
  `Consume` is strongly fair because a retried payload is popped and put back while
  its backoff, at most 8 s, lasts, and is due after it.  Nothing is assumed of
  crashes, operators, reconciliations or the exchange.  The venue stays open in that
  run, because a retry popped while it is closed is dropped.  In `PickedUpResolves`
  one worker is alone: it is about a handler, not about two that race.
- Bus: a dispatch that began and the consumer's loop go on (weak fairness);
  `ReleaseDue` is strongly fair because the backoff of an entry is finite.
- Incidents: the cycle is a loop that sleeps 30 s and runs again (`server.py:934`), a
  handler that started ends, and time passes.  Nothing is assumed of operators, and of
  anomalies only what `RemediationGoesOn` states as its hypothesis: one fingerprint stays
  anomalous, with auto policies, from some time on; all others come and go as they like.
  It says that the cycle then records remediations again and again.  That each incident is
  mitigated at last is not claimed: it follows where one fingerprint alone is automatic,
  and is false otherwise (section 6).

## 5. Proofs

Every theorem is about the specification TLC runs, with its constants left open; what
the constants are assumed to be is named in the module that declares them and is
evaluated by TLC in each run.  None of the theorems bounds the number of actors, except
where one is stated for a single consumer or reconciliation.

### Execution engine

For any sets of jobs, keys, users, workers, runners and reconcilers, and any bounds
(`ConstantsAssumption`):

- `TypeCorrect` (`ExecutionEngineProofs`): `TypeOK`, strengthened by "a busy session
  has a job" (`BusyHasJob`) and "stored exchange ids are at most `Len(exch)`"
  (`ExtInRange`), which the typing of reconciliation's reads and of the session's job needs.
- `Custody` (`ExecutionEngineCustody`): `SingleCustody`.  Inductive with
  `NotYetPushed`: before `PushPayload` the job has neither a payload nor a holder,
  so the first push meets no older payload.  `RowPending`, proved along with it for
  the theorems below: a job has no visible row before the commit that makes it, and
  without a row there is no order to reconcile.
- `Budget` and `OrderRowUnique` (same module): `RetryBudget` and
  `OneOrderRow`.  Both rest on custody: a session's read of `retry_count` is current
  because nobody else holds the job (`HolderInBudget`), its read of a terminal state
  is not forgotten (`HolderSeesTerminal`), and the order row it works on is the only
  one (`HolderOwnsRow`).  The conjunction is `EngineInv`.
- `Outcome` and `Traceable` (`ExecutionEngineProofs`): `OutcomeTruthful` and
  `OrderRowsTraceable`, for every job, those of go-live runs included.  `IdInv` says
  where external ids are: an id in a session or a row names an order of that job, and
  is in one place only, so a commit moves it and cannot copy it.  `OutcomeInv` says
  where closed statuses come from: a reply in hand, a status a reconciliation has
  fetched and a job's state are each backed by an exchange order of the job.  Staleness
  is harmless because the exchange never reopens an order (`ExchKept`), which is an
  assumption of the model about the exchange (`ExchangeProgress` moves live orders only).

- `Positions` (same module): `PositionBacked`, for every job and any sizes.  `BookInv`
  compares a position not with all fills of the user but with those that are settled
  (`Booked`): filled at the exchange and in no session's hand as an uncommitted reply.
  The row, and each copy of it a session is about to add to (`CopiesBooked`), is at most
  the size of these, so a stale copy can lose a fill but not invent one; the commit
  moves one order from a hand to the settled ones, and `IdsUnique` says nobody else will
  book it.  `FilledSize` counts one element per unit of size, so that the argument is
  one about disjoint finite sets.
- `ExecutionPerKey` (`ExecutionEngineCustody`): `OneExecutionPerKey`, for every job.
  `KeyHeld` is the entry of the unique index, for rows inserted or committed; no two jobs
  of one key have one, and an order at the exchange comes from a job whose row is
  committed, since a payload without a row is dropped.
- `Submissions` (same module): `BoundedSubmissions`.  A job has sent at most
  `retry_count` times `MaxAttempts` orders while it is queued (`QueuedCounted`) and
  `attempt` more while it is in hand (`HolderCounted`): the except block counts an attempt
  before the payload is back in the queue, and custody excludes a second counter.  What a
  crashed attempt sent is not counted, but its payload is gone, too.
- `ClosedOrders` (same module): `TerminalOrdersFinal`, under `OneReconciler`.  A
  reconciliation looks only at rows with an external id, and a row that is CREATED or
  missing has none (`UnplacedHasNoId`); a session that still takes its order for CREATED
  is right about that (`HolderKnows`), so neither can overtake the other: the session
  places orders nobody reconciles, the reconciliation moves orders no session can place.
  What it has fetched is for rows that are open until it commits (`SeenOpen`).  The
  hypothesis is needed: `run_order_reconciliation` takes no lock, and with two
  calls (the endpoint, the cron script, the checklist) a stale PARTIALLY_FILLED may
  replace FILLED (section 6).

Each proof has one step per action of `Next` and, for the invariants, lemmas for the
groups of actions that leave their variables alone.  The strengthenings were checked with
TLC before they were proved, those of the last four theorems on the scenarios of
`EngineSafety` also with `MaxAttempts = 2`.

Jobs of go-live runs (`Direct`) are excluded from custody, budget, submissions, row
uniqueness and closed orders: their payload stays in the queue while the run executes it,
so these do not hold.

### Event bus (`RuntimeEventBusProofs`)

For any intents, hashes, retry and release limits and operators:

- `BusTyped`, `ProcessedFinal` and `DecisionTradesOnce` (`TypeOK`, `ProcessedHadEffect`,
  `OneExecutionPerDecision`) hold for any number of consumers.  The invariant adds to
  them `WorkersSound`, what a consumer's step says of the envelope it holds (an event is
  final before it is marked; rows wait for a commit only in the steps before it), and
  `Counters`: an envelope has been tried fewer times than `MaxRetry` plus one for each
  operator action, which bounds retry counts that operators reset.
- `DecidedOnce` (`OneFinalRow`) and `CrashLossBounded` (`LossBounded`) assume
  `OneWorker`, one consumer at a time, as in `BusSafety`: one worker process, and
  nobody runs a second one (`workers/execution_worker.py`) while it works; the
  run-once route (`routers/strategy_domain.py:2329`) answers 410 Gone at this commit.
  The code does not enforce that, and with two consumers both fail (section 6).
  The first rests on `First`: a consumer that is about to add its row found none of
  its own. The second bounds what a lone consumer has outside the lists (`Holds`): at
  most `ReleaseLimit` entries, and nothing it lets go of is the last copy of its
  intent, so only a crash loses any.
- `DeliverySafe` also assumes `OneWorker`: as long as nobody has died and no operator
  has a final row of his own on the way (`Undisturbed`), every step of the bus is a step
  of `IntentDelivery` or a stutter (`Delivery!Safe`), whatever the gate does and whatever
  operators replay, edit or close in the quarantine.  A step of the bus touches one
  intent (`OnlyOne`): releasing entries only moves copies, handling an event only
  changes those of its own intent.  What it does to that intent follows from invariants
  alone (`IntentSteps`): rows are added at the end, for an intent that exists, the
  second final row is excluded by `OneFinalRow`, and "lost" by `LossInv` with no crash.
  Both conditions are needed: a dead consumer loses what it held, and a row an operator
  adds by hand may race the consumer's (section 6).

### User intents (`ExecutionIntentsProofs`)

For any rows, payloads and requests; one request may even take several routes:

- `IntentsTyped`, `SubmittedOnce` and `ReleasedExecuted` hold of racing requests.
  `SubmitOnce` alone is not inductive: the invariant adds `ThroughWith`, that a request
  which executed a row has left it and the row is neither unused nor PREVIEWED, so that
  no submit of that request can read it again.  No status that is written later
  (`Written`) leads back to PREVIEWED, which is why stale writers cannot break it.
- `SerialExecutedOnce`, `SerialBooks` and `SerialTerminal` hold as long as no two requests
  have overlapped (`overlap`).  `Fresh` says that a lone request's loaded copy is true
  at each of its steps, `UniqueLive` is the unique constraint on `intent_id`, and
  `ExecutedReleased` says an executed row is RELEASED by one request, so the preview that
  replaces rows never takes one of these away.  `UniqueLive` and `ExecutingLive` (the
  row lock of an execution keeps its row) are proved of racing requests, too.
  `SerialBooks` covers releases that break off after the close: quantities add up even
  then, and a mirror disagrees only for positions in `torn`.

### Export scheduler (`ExportSchedulerProofs`)

For any processes and schedules, and any delays ordered like the code's
(`SchedulerConstants`: lock at most claim, claim below stale limit):

- `DeliveredOnce` (`OneDeliveryPerWindow`, at most one delivery and one for each lock
  lost): the inductive invariant bounds what has been delivered together with who still may
  (`DeliveriesBounded`): the cycles at work without the lock (`Loose`) and, as long as the
  manifest leaves the window open, one under the lock (`Chances`).  A lost lock adds one
  to `Loose` and one to the bound; a delivery spends a chance.  `Guarded` says that a cycle
  at work has the lock of its window, and `ManifestKept` that it finds the manifest as it
  left it, both unless a lock of that window was lost.  Neither the claim on the
  row nor the Redis lock is used, so their expiry costs at most a wasted cycle.
- `SuccessDelivered` (`SuccessHasArtifact`) adds `UnsavedDelivered` (a success waiting for
  a commit has its artifact), `RunningExported` (without a crash a running manifest has
  somebody exporting it) and `SuccessShown`.  All three speak of `Done(s)`, the windows that
  are delivered or whose lock was lost; nothing is claimed of the latter.  The crash of
  section 6 breaks `RunningExported`.
- `SchedulerTyped`: `TypeOK`.

### Risk policy approvals (`PolicyApprovalsProofs`)

For any administrators, simulations, requests and calls:

- `ApprovalsTyped`, `FourEyesAlways` and `ApprovedApplied` (`TypeOK`, `FourEyes`,
  `ApprovedWasApplied`).  `Sound` says what a call knows at each of its steps: a copy it
  will write back cannot take a request to an earlier state, and an apply in progress
  was entitled to begin.  The row lock (`Locked`) is not used: four eyes do not depend on
  `with_for_update`, because the votes that count are those of the copy.
- `SerialOnce` and `SerialRecorded` (`SerialAppliedOnce`, `SerialChangesRecorded`): calls
  that do not overlap and do not crash.

### Safety gate (`ExecutionSafetyProofs`)

For any intents whose three amounts are at most `MaxSize` each, any lanes, limits, canary
fields and positions opened without asking:

- `GateCorrect` (`GateHolds`), `OvershootCorrect` (`OvershootBounded`) and
  `KillSwitchCorrect` (`KillSwitchDrains`).  The tables alone are not inductive, since an
  intent that was let through is in none of them until its lane writes it, and counts
  another amount once it is.  The invariant therefore bounds `Load`: what was asked about,
  in lanes between the check and the row, in pending rows and in open positions, each at
  the least of the amounts asked and counted (`Claim`, `Kept`); likewise the entries and
  the canary positions.  A write moves an intent from a lane to a row or a position and
  does not add to that (`Moves`); only the check does.  One lane adds within the limit
  (`LoadWithin`, `CanaryWithin`); a lane that passes while the others hold one intent each
  is at most `(Cardinality(Lanes) - 1) * MaxSize` over it (`LoadBounded`), and that bound
  does not grow with further steps.  What the tables count is `Load` and `Unasked` at most
  (`ExposureSplits`, `CanarySplits`).  `LaneInv`, that no two lanes work on the same intent,
  and `Fresh`, that a user's intent on its way has opened no position yet, make the sums
  exact.  With the
  switch off no lane passes, so an execution uses up a lane (`Drains`).
  `SafetyInv` is the conjunction.
- `TypeCorrect`: `TypeOK`.

A limit that was lowered is excused by `lowered` for good: what stands above it is not
closed by the code, and the gate lets nothing new in while it is.

### Incident remediation (`IncidentRemediationProofs`)

For any incidents, policies and their changes, operators, cooldowns, and any overlaps and
failures:

- `RemediationTyped`: `TypeOK`.  The leverage cap needs more than types: a handler that
  is about to undo holds a payload (`TaskSound`).
- `EntriesKept` (`EntryKept`) and `CooldownKept` (`CooldownRespected`), from `RemediationInv`.
  An overlap does its harm later, when a stale copy is written back, so the invariant
  counts what it may yet cost: `Spare(i)`, the handlers at work on `i` that owe no entry,
  but one.  `CountInv` says that in the row and in each copy the missing entries and
  `Spare` together are at most `slips`, and that `repeats`, the actions some copy shows
  older than they are or not at all (`Stale`), and `Spare` are.  A handler that begins
  beside another raises `Spare` and `slips`; an application makes an entry missing and
  takes its handler out of `Spare`; recording takes the entry back, and makes stale at most
  what the copies of the others do not show.  `TaskSound` says that who applies was allowed
  to by its copy, so that a repeat needs a stale one.  Time ages rows, copies and history
  alike, which is why `Older` has to be monotone.  `Unborn` covers rows that are about
  to be added.

### Only model-checked

Liveness (`QueueDrains`, `PickedUpResolves`, `RemediationGoesOn`) and that of
`DeliversIntents`, which is about fairness and outside what TLAPS does here.
The invariants above were checked with TLC, on the runs of section 4, before they were
proved, except the typing parts.

## 6. What does not hold

Behaviour the models contain that a reader of the code may not expect.  The first
sentence of an item is what was observed; the three with a run are marked.

Execution engine
- A payload is in Redis before its job's row is committed.  A worker that pops it in
  between finds no job and drops it; so does one that pops a retry while the venue
  is closed.  The job stays CREATED or RETRYING for ever.
- A request that timed out is sent again, and one job may be filled twice (run
  `IdempotentExecution`).
- The notional cap is compared with positions that do not contain queued or
  running jobs, so several submissions pass it together.
- The runtime kill switch is advisory: a submission records it and goes on, and a
  worker does not ask.
- A reconciliation writes the exchange's NEW or EXPIRED into `orders.state`, whose
  state machine does not know them; an order in NEW is never reconciled again.  It
  books no position for an order it finds FILLED.
- Two overlapping reconciliations may reopen a closed order: the later one writes the
  status it fetched earlier.

Event bus
- Nothing reads a dead consumer's processing list, so its event is lost; two
  consumers that release at the same time may trim entries neither has released.
- An event is delivered again after a crash before its acknowledgement; with two
  consumers both may execute it.
- `perform_recovery_action` looks for a final row and then commits its own; a consumer
  that has passed its check meanwhile executes the cancelled intent, which then has two
  final rows.
- The reprocess endpoint changes the row of a failed event and publishes nothing.

User intents
- Two submits of one preview both execute (run `IntentDoubleSubmit`); a preview may
  delete the intent another request has just submitted.
- A cancel that read QUEUED may overwrite the status of an intent that is being
  released: the position is open and its intent CANCELLED.
- A failure between QUEUED and RELEASED leaves an intent no route releases any more.
- A reversal whose second price read fails closes the position without opening the other
  side, leaves its positions row open, and may be executed again under its key
  (`ReleaseBreaksOff`); `with_for_update` and the unique key do not see it.

Export scheduler
- Successes are assigned after the last commit and dropped by `db.close()`; the
  recovery then counts the delivered export as a failure (run `ExportHealthy`).
- After a crash between claim and delivery the manifest of the window stands as
  running, and the next cycle records success without an artifact.
- A failed export is retried one period later, whatever its backoff, because
  `last_run_at` was set with the failure.
- A pooled connection that is recycled frees the advisory lock of a cycle at work: two
  cycles may then deliver one window, and one may record success over the other's running
  manifest.  An unlock that runs on another connection of the pool does nothing, and the
  window stays locked until the pool closes the connection that holds it.
- SET and EXPIRE are two commands: a crash between them leaves the Redis lock set
  without an end, and no process runs a cycle.  The model sets both at once.

Safety gate
- Lanes that ask at the same time pass together and overshoot the limits, by one
  proposal per lane (`OvershootBounded`).
- REVERSE_POSITION opens a position of any size without asking the gate, with trading
  switched off, too; so does the pipeline.  The requeue buttons put rejected intents
  back into what the gate counts.
- The gate is asked about the notional a caller names, and counts other amounts later:
  a user's position is at least 0.001 units (`services/execution_intent_service.py:1712`), a
  runtime intent counts its quantity (`services/execution_safety_service.py:107`), and the
  worker asks about that quantity.
- The emergency stop rejects every open intent and closes every position, and leaves
  `trading_enabled` as it was.
- A pending intent of the asking request counts against itself, and pending rows
  without an outcome use up the limit until they get one.
- The risk orchestrator's kill writes 0 into limits its context does not name, and 0
  means unlimited once trading is enabled again.

Incident remediation
- When an operator and the cycle overlap, one of two history entries is lost, and
  with it its cooldown and its rollback; a rollback of one incident lifts the block
  another one asked for.
- A connector that refuses after the switch or the cap was committed leaves an action
  without entry, cooldown or rollback.
- A cooldown raises out of the cycle, so the incidents after it wait, and may wait for
  ever: with three automatic fingerprints and short cooldowns the first two can take turns
  in ending the cycle, the order of visits follows the candidates' order, and an incident
  whose events leave the 15 minute window meanwhile is not visited any more.
- `retry_limit` of a policy is never read.
- A second rollback undoes the entry of the first.
- An edit of an incident's state writes back the details it copied, and with them the
  `remediation_history` of that moment.

Risk policy
- `update_policy` commits, which gives the row lock back, before the request is
  approved.  A second approve in between applies the change twice; a reject in
  between leaves a rejected change in force.  Two applies may give two versions one
  number or raise the version once for two changes.
- A sweep or reassignment writes the row it read before: an approved or rejected
  request may end expired, and votes may vanish.
- A crash after the first commit leaves values without a version.
- An apply answered "blocked" is answered so for ever under its idempotency key,
  though its message asks for `apply_with_override`
  (`services/risk_orchestrator_service.py:1300`).
- An expired request can be applied by force by its requester and by a super
  administrator; `memory/PRD.md:8923` speaks of a hard reject.
- `approved_by` of the change request is the requester.

## 7. Not modelled

`components` in `PROJECT.json` gives the reason for each part.  In short:

- Inside the modelled components: metrics, timeline events, alert texts,
  credentials and proxy routing, quantities and prices, the side of an order, how a
  simulation, anomaly or risk is scored, dashboards and caches, overrides of single
  limits, the precheck's size reduction, commercial control beyond its answer, the
  second switch `execution:kill_switch:global` of the risk engine, and the precheck of
  `services/live_mode_service.py:2270`, which asks the gate before a test order.
- `EXECUTION_PREVIEW_FAST_MODE` (`services/execution_intent_service.py:47`) is off in the models.
  It gives each intent a random key and skips the gate for user intents, and it is on
  by default where `CANARY_MODE` is set: neither `SerialOneExecutionPerKey` nor the gate's
  properties are about such a deployment.
- Routes that no longer do anything: the administrators' queue answers 410 Gone
  (`routers/admin_execution.py:121`), so approving, executing, rejecting, retrying and
  editing an intent by an administrator are unreachable.
- Bulk writes of the admin dashboards, in `ExecutionIntents`: the emergency stop
  (`routers/admin_emergency.py:20`), cancel-stuck-orders and requeue-timeout-intents
  (`routers/admin_live_trading_dashboard.py:482`), and `close_next_actions`
  (`routers/admin_action_center.py:638`).  They count as overlapping requests there.
  `ExecutionSafety` has those that change what the gate counts.
- Routes closed at this commit, whose services are modelled all the same: writes under
  the risk orchestrator and the runtime's dispatch and run-once routes answer 410 Gone
  (`_block_admin_risk_orchestrator_writes`, `routers/strategy_domain.py:194`), and the
  pure-live middleware (`server.py:708`, `core/pure_live_manifest.py`) answers so to paths
  that contain "paper", "simulation" or "dry-run".  `PolicyApprovals` and the dispatch of
  `RuntimeEventBus` therefore hold of the services, not of what a client can reach; the
  worker's loop and the recovery loop do not go through these routes.
- Candidates for later modules: the pipeline with its kill switch, runtime control's
  overrides, onboarding and document approvals, the adapter's arithmetic.
- Authentication, MFA and recovery: outside the trading core.
- Readiness, futures guards, strategies, scanners, universe, reporting, alerts,
  schemas, routers and the frontend: numeric scoring, aggregation, declarations and
  input and output, without state that several actors change.  They are most of the
  repository's 200,000 lines, so the mapped share of lines is small although the
  concurrent core is covered.
