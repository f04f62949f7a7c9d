-------------------------- MODULE ExecutionSafety --------------------------
(***************************************************************************)
(* The gate in front of every new position                                 *)
(* (services/execution_safety_service.py): one LiveActivationConfig row    *)
(* holds the trading switch, the exposure limit and the position limit;    *)
(* assert_execution_open_allowed measures what the tables count against    *)
(* the row and lets a proposal through or raises.  Three paths ask it:     *)
(* the runtime dispatcher, the submission worker and the user's submit.    *)
(* Each asks in one database snapshot and writes in a later transaction,   *)
(* so a lane (a request thread, a dispatcher or a worker) that was let     *)
(* through acts on an answer that may be old.  The amount asked about is   *)
(* not the one the tables count later, and some paths open a position or   *)
(* queue an intent without asking: REVERSE_POSITION, the paper pipeline    *)
(* and the requeue buttons of the admin dashboards.                        *)
(***************************************************************************)
EXTENDS Integers, FiniteSets

CONSTANTS
    RIntents,       \* decisions the runtime turns into execution_intents rows
    UIntents,       \* previewed OPEN_POSITION intents of users
    Outside,        \* positions opened without asking: reversed, paper
    Lanes,          \* threads that run one handler at a time
    Asked,          \* notional an intent proposes to the gate
    Booked,         \* what its row counts: the notional the precheck leaves
                    \* of it (users), the quantity (runtime)
    Worth,          \* entry_price * quantity of a position when it is open
    MaxSize,        \* the largest of all amounts
    Symbol,         \* symbol of every intent and position
    Limits,         \* limits the configuration row may start with
    LimitRequests,  \* limits an operator may ask for with the switch
    KillContexts,   \* limits a risk-orchestrator kill switch writes
    Canaries,       \* canary fields the row may hold
    CapitalPct,     \* max_position_pct, in percent
    MaxChanges,     \* bound: changes of the configuration row
    NoIntent

Intents == RIntents \cup UIntents
Positions == UIntents \cup Outside

\* What a limit field can hold: 0 switches the limit off.
Bounds == [exposure : Nat, positions : Nat]

\* An operator's request that leaves both limits as they are.
Keep == [exposure |-> -1, positions |-> -1]

ASSUME SafetyConstants ==
    /\ IsFiniteSet(Intents) /\ RIntents \cap UIntents = {}
    /\ IsFiniteSet(Outside) /\ Outside \cap Intents = {}
    /\ IsFiniteSet(Lanes) /\ Lanes # {}
    /\ MaxSize \in Nat /\ Asked \in [Intents -> 0..MaxSize]
    /\ Booked \in [Intents -> 0..MaxSize] /\ Worth \in [Positions -> 0..MaxSize]
    /\ DOMAIN Symbol = Intents \cup Outside
    /\ Limits \subseteq Bounds /\ LimitRequests \subseteq Bounds
    /\ KillContexts \subseteq Bounds
    /\ \A c \in Canaries : /\ c.enabled \in BOOLEAN
                            /\ {c.positions, c.capital} \subseteq Nat
    /\ CapitalPct \in 1..100
    /\ MaxChanges \in Nat /\ NoIntent \notin Intents

VARIABLES
    config,     \* trading_enabled, max_total_exposure, max_active_positions
                \* and the canary fields, which no route modelled here writes
    runtime,    \* execution_intents: "none" or "pending" (rows are immutable)
    outcome,    \* last execution_intent_events row of a runtime intent
    user,       \* status of a user_execution_intents row
    position,   \* paper position a user intent opened, or one of Outside
    lane,       \* what every lane is doing
    changes,    \* writes of the configuration row so far
    leaked,     \* history: executions since trading was last switched off
    raced,      \* history: a lane was let through while another was at work
    lowered,    \* history: a limit was set below the one that stood
    requeued    \* history: rejected intents queued again without asking

vars == <<config, runtime, outcome, user, position, lane, changes, leaked,
          raced, lowered, requeued>>

Finals == {"blocked", "rejected", "canceled", "filled"}
UserStates == {"PREVIEWED", "SUBMITTED", "QUEUED", "APPROVED", "RELEASED",
               "REJECTED", "CANCELLED"}
Steps == {"idle", "insert", "place", "commit", "enqueue", "approve",
          "release"}

Idle == [step |-> "idle", intent |-> NoIntent]
Goto(l, step, i) == lane' = [lane EXCEPT ![l] = [step |-> step, intent |-> i]]
Leave(l) == lane' = [lane EXCEPT ![l] = Idle] /\ UNCHANGED raced
\* The gate lets lane l through with i.
Pass(l, step, i) ==
    /\ Goto(l, step, i)
    /\ raced' = (raced \/ \E k \in Lanes : lane[k] # Idle)

At(l, step, i) == lane[l] = [step |-> step, intent |-> i]

\* No lane is working on i.
Unhandled(i) == \A l \in Lanes : lane[l].intent # i
----------------------------------------------------------------------------
(* What the gate counts.                                                   *)

OpenPositions == {p \in Positions : position[p] = "open"}

PendingUser == {u \in UIntents : user[u] \in {"QUEUED", "APPROVED"}}

PendingRuntime == {r \in RIntents : runtime[r] = "pending"}

\* The sum of an amount over a set, counted unit by unit, and what the
\* first amount exceeds the second by.
Units(f, S) == {p \in S \X (1..MaxSize) : p[2] <= f[p[1]]}
Amount(f, S) == Cardinality(Units(f, S))
Excess(f, g, S) == Cardinality(Units(f, S) \ Units(g, S))

Exposure == Amount(Worth, OpenPositions) + Amount(Booked, PendingUser)
              + Amount(Booked, PendingRuntime)

ActivePositions == Cardinality(OpenPositions) + Cardinality(PendingUser)
                     + Cardinality(PendingRuntime)

\* What the tables count that the gate was never asked about: positions and
\* rows that no proposal stands behind, a row beside the position it already
\* opened, and what a row or a position counts above the amount proposed.
Ungated == Outside \cup requeued
AskedRows == {u \in PendingUser \ Ungated : position[u] = "none"}

Lesser(a, b) == IF a < b THEN a ELSE b
Claim == [i \in Intents |-> Lesser(Asked[i], Booked[i])]

Unasked ==
    Amount(Worth, OpenPositions \cap Ungated)
      + Amount(Booked, PendingUser \ AskedRows)
      + Excess(Worth, Claim, OpenPositions \ Ungated)
      + Excess(Booked, Asked, AskedRows)
      + Excess(Booked, Asked, PendingRuntime)

UnaskedEntries == Cardinality(OpenPositions \cap Ungated)
                    + Cardinality(PendingUser \ AskedRows)

Canary == config.canary

\* Open positions in a canary symbol; an empty list means every symbol.
CanaryOpen == {p \in OpenPositions :
                 Canary.symbols = {} \/ Symbol[p] \in Canary.symbols}

UnaskedCanary == Amount(Worth, CanaryOpen \cap Ungated)
                   + Excess(Worth, Claim, CanaryOpen \ Ungated)

\* The canary part of the gate, for an amount.  named is FALSE where the caller
\* passes no symbol, which skips the whitelist.
CanaryAllows(amount, i, named) ==
    Canary.enabled =>
        /\ named /\ Canary.symbols # {} => Symbol[i] \in Canary.symbols
        /\ Canary.capital > 0 =>
             (Amount(Worth, CanaryOpen) + amount) * CapitalPct
               <= Canary.capital * 100
        /\ Cardinality(CanaryOpen) + 1 <= Canary.positions

\* Faulty: what is there is compared with the limits, not what would be.
WithinBoundsNow(amount) ==
    /\ config.exposure > 0 => Exposure <= config.exposure
    /\ config.positions > 0 => ActivePositions <= config.positions

WithinBounds(amount) ==
    /\ config.exposure > 0 => Exposure + amount <= config.exposure
    /\ config.positions > 0 => ActivePositions + 1 <= config.positions

\* assert_execution_open_allowed lets a proposal of an amount for i through.
Allowed(amount, i, named) ==
    /\ CanaryAllows(amount, i, named)
    /\ config.trading_enabled
    /\ WithinBounds(amount)
----------------------------------------------------------------------------
(* The runtime path: the dispatcher asks, then inserts; the worker asks    *)
(* again, then places the order.                                           *)

\* Faulty: the dispatcher only looks at the switch.
DispatchAsksSwitchOnly(l, r) ==
    /\ lane[l] = Idle /\ runtime[r] = "none" /\ Unhandled(r)
    /\ config.trading_enabled
    /\ Pass(l, "insert", r)
    /\ UNCHANGED <<config, runtime, outcome, user, position, changes, leaked,
                   lowered, requeued>>

\* A refused dispatch rejects the decision and leaves no row behind.
DispatchCheck(l, r) ==
    /\ lane[l] = Idle /\ runtime[r] = "none" /\ Unhandled(r)
    /\ Allowed(Asked[r], r, TRUE)
    /\ Pass(l, "insert", r)
    /\ UNCHANGED <<config, runtime, outcome, user, position, changes, leaked,
                   lowered, requeued>>

DispatchInsert(l, r) ==
    /\ At(l, "insert", r)
    /\ runtime' = [runtime EXCEPT ![r] = "pending"]
    /\ Leave(l)
    /\ UNCHANGED <<config, outcome, user, position, changes, leaked, lowered,
                   requeued>>

\* Faulty: the worker trusts the dispatcher's answer.
WorkerDoesNotAsk(l, r) ==
    /\ lane[l] = Idle /\ runtime[r] = "pending" /\ outcome[r] = "none"
    /\ Unhandled(r)
    /\ Pass(l, "place", r)
    /\ UNCHANGED <<config, runtime, outcome, user, position, changes, leaked,
                   lowered, requeued>>

\* The worker proposes the quantity and no symbol, and the snapshot it is
\* measured against already counts its own pending row.
WorkerCheck(l, r) ==
    /\ lane[l] = Idle /\ runtime[r] = "pending" /\ outcome[r] = "none"
    /\ Unhandled(r)
    /\ IF Allowed(Booked[r], r, FALSE)
         THEN Pass(l, "place", r) /\ UNCHANGED outcome
         ELSE /\ outcome' = [outcome EXCEPT ![r] = "blocked"]
              /\ UNCHANGED <<lane, raced>>
    /\ UNCHANGED <<config, runtime, user, position, changes, leaked, lowered,
                   requeued>>

\* History: an execution of what the gate let through leaks while trading is
\* off.
Executed == leaked' = IF config.trading_enabled THEN 0 ELSE leaked + 1

\* The paper exchange answers with one of three lifecycles.
WorkerPlace(l, r) ==
    /\ At(l, "place", r)
    /\ \E final \in Finals \ {"blocked"} :
         outcome' = [outcome EXCEPT ![r] = final]
    /\ Executed
    /\ Leave(l)
    /\ UNCHANGED <<config, runtime, user, position, changes, lowered, requeued>>
----------------------------------------------------------------------------
(* The user path: submit asks, then commits SUBMITTED, QUEUED, APPROVED    *)
(* and RELEASED one after the other, asking no more because the automatic  *)
(* release approves with allow_override.                                   *)

\* A refused submit raises and leaves the row PREVIEWED.
SubmitCheck(l, u) ==
    /\ lane[l] = Idle /\ user[u] = "PREVIEWED" /\ Unhandled(u)
    /\ Allowed(Asked[u], u, TRUE)
    /\ Pass(l, "commit", u)
    /\ UNCHANGED <<config, runtime, outcome, user, position, changes, leaked,
                   lowered, requeued>>

\* A transaction that moves the status of the lane's intent.
Write(l, u, step, status, next) ==
    /\ At(l, step, u)
    /\ user' = [user EXCEPT ![u] = status]
    /\ IF next = "idle" THEN Leave(l) ELSE Goto(l, next, u) /\ UNCHANGED raced
    /\ UNCHANGED <<config, runtime, outcome, changes, lowered, requeued>>

\* validate_order_precheck may still refuse the order.
SubmitCommit(l, u) ==
    /\ \/ Write(l, u, "commit", "SUBMITTED", "enqueue")
       \/ Write(l, u, "commit", "REJECTED", "idle")
    /\ UNCHANGED <<position, leaked>>

Enqueue(l, u) ==
    Write(l, u, "enqueue", "QUEUED", "approve") /\ UNCHANGED <<position, leaked>>

Approve(l, u) ==
    /\ user[u] = "QUEUED"
    /\ Write(l, u, "approve", "APPROVED", "release")
    /\ UNCHANGED <<position, leaked>>

Release(l, u) ==
    /\ user[u] = "APPROVED"
    /\ Write(l, u, "release", "RELEASED", "idle")
    /\ position' = [position EXCEPT ![u] = "open"]
    /\ Executed

\* The release fails after the position was flushed: the audit entry of the
\* failure commits the position and leaves the row APPROVED.
ReleaseBreaksOff(l, u) ==
    /\ At(l, "release", u) /\ user[u] = "APPROVED"
    /\ position' = [position EXCEPT ![u] = "open"]
    /\ Executed
    /\ Leave(l)
    /\ UNCHANGED <<config, runtime, outcome, user, changes, lowered, requeued>>

\* The handler raises or its process dies between two of its transactions;
\* of a failed release submit answers with the row as it is.
LaneFails(l) ==
    /\ lane[l] # Idle
    /\ Leave(l)
    /\ UNCHANGED <<config, runtime, outcome, user, position, changes, leaked,
                   lowered, requeued>>

\* The user cancels; a submit under way writes its next status all the same.
Cancel(u) ==
    /\ user[u] \notin {"RELEASED", "REJECTED", "CANCELLED"}
    /\ user' = [user EXCEPT ![u] = "CANCELLED"]
    /\ UNCHANGED <<config, runtime, outcome, position, lane, changes, leaked,
                   raced, lowered, requeued>>

\* A CLOSE_POSITION intent, a stop or a target; also the first leg of a
\* reverse whose second leg fails.
ClosePosition(p) ==
    /\ position[p] = "open"
    /\ position' = [position EXCEPT ![p] = "closed"]
    /\ UNCHANGED <<config, runtime, outcome, user, lane, changes, leaked,
                   raced, lowered, requeued>>
----------------------------------------------------------------------------
(* What opens a position or queues an intent without asking.               *)

\* open_paper_position of the pipeline.
OpenOutside(p) ==
    /\ position[p] = "none"
    /\ position' = [position EXCEPT ![p] = "open"]
    /\ UNCHANGED <<config, runtime, outcome, user, lane, changes, leaked,
                   raced, lowered, requeued>>

\* A REVERSE_POSITION intent is released: submit asks the gate for
\* OPEN_POSITION only.
Reverse(old, new) ==
    /\ position[old] = "open" /\ position[new] = "none"
    /\ position' = [position EXCEPT ![old] = "closed", ![new] = "open"]
    /\ UNCHANGED <<config, runtime, outcome, user, lane, changes, leaked,
                   raced, lowered, requeued>>

\* close_next_actions and requeue-timeout-intents, for a row whose rejection
\* they take for a timeout.
Requeue(u) ==
    /\ user[u] = "REJECTED"
    /\ user' = [user EXCEPT ![u] = "QUEUED"]
    /\ requeued' = requeued \cup {u}
    /\ UNCHANGED <<config, runtime, outcome, position, lane, changes, leaked,
                   raced, lowered>>

\* The admin's emergency stop closes every position and rejects every row that
\* is not final; the configuration row keeps its switch.
EmergencyStop ==
    /\ position' = [p \in Positions |->
                      IF position[p] = "open" THEN "closed" ELSE position[p]]
    /\ user' = [u \in UIntents |->
                  IF user[u] \in {"RELEASED", "CANCELLED"}
                    THEN user[u] ELSE "REJECTED"]
    /\ UNCHANGED <<config, runtime, outcome, lane, changes, leaked, raced,
                   lowered, requeued>>
----------------------------------------------------------------------------
(* The switch.                                                             *)

LimitsOf(c) == [exposure |-> c.exposure, positions |-> c.positions]

\* A limit a that is tighter than b, and limits of which one is.
Below(a, b) == a # 0 /\ (b = 0 \/ a < b)
Tighter(new, old) ==
    Below(new.exposure, old.exposure) \/ Below(new.positions, old.positions)

\* Faulty: a limit that is not given is written as well.
UpdateStateWritesMissing(enabled, bounds) ==
    /\ changes < MaxChanges
    /\ changes' = changes + 1
    /\ config' = [config EXCEPT !.trading_enabled = enabled,
                                !.exposure = bounds.exposure,
                                !.positions = bounds.positions]
    /\ UNCHANGED <<runtime, outcome, user, position, lane, leaked, raced,
                   lowered, requeued>>

\* update_execution_safety_state: a limit is written when it is given.
UpdateState(enabled, bounds) ==
    /\ changes < MaxChanges
    /\ changes' = changes + 1
    /\ LET new == IF bounds = Keep THEN LimitsOf(config) ELSE bounds
       IN  /\ config' = [config EXCEPT !.trading_enabled = enabled,
                                      !.exposure = new.exposure,
                                      !.positions = new.positions]
           /\ lowered' = (lowered \/ Tighter(new, LimitsOf(config)))
    /\ leaked' = IF config.trading_enabled \/ enabled THEN 0 ELSE leaked
    /\ UNCHANGED <<runtime, outcome, user, position, lane, raced, requeued>>

\* The kill-switch route and the toggles of the admin dashboards.
SetKillSwitch == \E enabled \in BOOLEAN, bounds \in LimitRequests \cup {Keep} :
    UpdateState(enabled, bounds)

\* The risk orchestrator always passes limits: those of its context, or 0.
ControlKill == \E bounds \in KillContexts : UpdateState(FALSE, bounds)

Init ==
    /\ \E limits \in Limits, canary \in Canaries :
         config = [trading_enabled |-> FALSE, exposure |-> limits.exposure,
                   positions |-> limits.positions, canary |-> canary]
    /\ runtime = [r \in RIntents |-> "none"]
    /\ outcome = [r \in RIntents |-> "none"]
    /\ user = [u \in UIntents |-> "PREVIEWED"]
    /\ position = [p \in Positions |-> "none"]
    /\ lane = [l \in Lanes |-> Idle]
    /\ changes = 0 /\ leaked = 0 /\ raced = FALSE /\ lowered = FALSE
    /\ requeued = {}

RuntimeStep(l, r) == \/ DispatchCheck(l, r) \/ DispatchInsert(l, r)
                     \/ WorkerCheck(l, r) \/ WorkerPlace(l, r)

UserStep(l, u) == \/ SubmitCheck(l, u) \/ SubmitCommit(l, u) \/ Enqueue(l, u)
                  \/ Approve(l, u) \/ Release(l, u) \/ ReleaseBreaksOff(l, u)

UngatedStep(p) == \/ OpenOutside(p)
                  \/ \E old \in Positions : Reverse(old, p)

Next == \/ \E l \in Lanes, r \in RIntents : RuntimeStep(l, r)
        \/ \E l \in Lanes, u \in UIntents : UserStep(l, u)
        \/ \E l \in Lanes : LaneFails(l)
        \/ \E u \in UIntents : Cancel(u) \/ Requeue(u)
        \/ \E p \in Positions : ClosePosition(p)
        \/ \E p \in Outside : UngatedStep(p)
        \/ SetKillSwitch \/ ControlKill \/ EmergencyStop

Spec == Init /\ [][Next]_vars
----------------------------------------------------------------------------
(* Properties.                                                             *)

\* The type of the state.
TypeOK ==
    /\ config \in [trading_enabled : BOOLEAN, exposure : Nat, positions : Nat,
                   canary : Canaries]
    /\ runtime \in [RIntents -> {"none", "pending"}]
    /\ outcome \in [RIntents -> Finals \cup {"none"}]
    /\ user \in [UIntents -> UserStates]
    /\ position \in [Positions -> {"none", "open", "closed"}]
    /\ lane \in [Lanes -> [step : Steps, intent : Intents \cup {NoIntent}]]
    /\ changes \in 0..MaxChanges /\ leaked \in Nat
    /\ raced \in BOOLEAN /\ lowered \in BOOLEAN /\ requeued \subseteq UIntents

\* What the tables count is within the limits that stand, but for what the
\* gate was never asked about.
WithinLimits ==
    /\ config.exposure > 0 => Exposure <= config.exposure + Unasked
    /\ config.positions > 0 =>
         ActivePositions <= config.positions + UnaskedEntries

\* So are the open canary positions, for those of the canary configuration.
CanaryHolds ==
    Canary.enabled =>
        /\ Cardinality(CanaryOpen \ Ungated) <= Canary.positions
        /\ Canary.capital > 0 =>
             (Amount(Worth, CanaryOpen) - UnaskedCanary) * CapitalPct
               <= Canary.capital * 100

\* As long as no lane was let through while another was at work, what the
\* tables count passes max_total_exposure and max_active_positions by no more
\* than was opened, queued or booked without asking, unless an operator set
\* them below what stood; nor do open canary positions pass
\* canary_max_positions and canary_max_capital_usdt by more
\* (assert_execution_open_allowed).
GateHolds == raced \/ (CanaryHolds /\ (lowered \/ WithinLimits))

\* Lanes that race past the gate add to that at most one proposal for every
\* lane but the last to ask (the check of assert_execution_open_allowed and
\* the write are two transactions).
OvershootBounded ==
    lowered \/ (config.exposure > 0 =>
        Exposure <= config.exposure + Unasked
                      + (Cardinality(Lanes) - 1) * MaxSize)

\* Of the work that asks the gate, at most what was already past it is executed
\* while trading is switched off, one execution for every lane (the worker asks
\* again before it places an order, and a user intent, queued again or not, is
\* released by the lane that asked).
KillSwitchDrains == leaked <= Cardinality(Lanes)
=============================================================================
