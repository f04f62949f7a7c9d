------------------------ MODULE IncidentRemediation ------------------------
(***************************************************************************)
(* Automatic and manual remediation of incidents                           *)
(* (services/incident_intelligence_service.py).  A background cycle turns  *)
(* the anomalies of the last window into incidents and executes the action *)
(* of an incident's policy when its approval mode is auto; operators run   *)
(* cycles too, execute actions, roll the latest one back and edit states   *)
(* and policies over HTTP.  Nothing keeps them apart: each copies the      *)
(* incident's details, commits the trading switch or the leverage cap, and *)
(* writes the copied remediation_history back with its entry.              *)
(***************************************************************************)
EXTENDS Integers, FiniteSets

CONSTANTS
    Fingerprints, \* anomaly signatures
    Incidents,    \* incident rows
    Fingerprint,  \* the signature a row is for
    Operators,    \* request threads of operators
    Policies,     \* what the policy configuration may say of an incident
    StartPolicies,\* the configurations it may start from
    MaxCooldown,  \* bound: the longest cooldown_seconds, in ticks
    InitLeverage, \* leverage cap at the start
    MaxRequests,  \* bound: operator requests
    MaxFailures,  \* bound: handlers that fail
    MaxSlips,     \* bound: overlaps and failures an incident sees
    NoIncident

Handlers == Operators \cup {"cycle"}
\* restart_worker stands for reconcile_trigger too: neither can be undone.
Undoable == {"block_trading", "reduce_leverage"}
Actions == Undoable \cup {"restart_worker"}

\* A rollback payload: a leverage cap, trading enabled, or none.
EnableTrading == 0
NoPayload == -1
Payloads == NoPayload..InitLeverage

\* An incident without a policy has a cooldown of 0 and is never automatic.
Choices == [action : Actions, auto : BOOLEAN, cooldown : 0..MaxCooldown]

ASSUME RemediationConstants ==
    /\ Fingerprint \in [Incidents -> Fingerprints]
    /\ IsFiniteSet(Operators) /\ "cycle" \notin Operators
    /\ Policies \subseteq Choices
    /\ StartPolicies \subseteq [Incidents -> Policies]
    /\ {InitLeverage, MaxRequests} \subseteq Nat \ {0}
    /\ {MaxCooldown, MaxFailures, MaxSlips} \subseteq Nat
    /\ NoIncident \notin Incidents

VARIABLES
    trading,    \* trading_enabled of the configuration row
    leverage,   \* leverage_cap of the same row
    anomalous,  \* fingerprints with an anomaly in the window
    policy,     \* the policy that matches an incident now
    row,        \* the incident rows
    task,       \* what every handler is doing
    todo,       \* fingerprints the cycle of a handler has still to visit
    requests,   \* operator requests so far
    failures,   \* handlers that failed so far
    since,      \* history: ticks since an action was last applied
    slips,      \* history: overlaps and failures that hit an incident
    repeats     \* history: actions applied within the cooldown of the last

switches == <<trading, leverage>>
bounds == <<requests, failures>>
history == <<since, slips, repeats>>
vars == <<switches, anomalous, policy, row, task, todo, bounds, history>>

\* What details hold of remediation_history.  age[a]: ticks since the latest
\* entry of a, MaxCooldown when it no longer matters or there is none;
\* payload: rollback_payload of the latest entry; missing: actions applied
\* for the incident that have no entry in it.  OPEN stands for INVESTIGATING
\* too and RESOLVED for FALSE_POSITIVE.
Rows == [status : {"none", "OPEN", "MITIGATED", "RESOLVED"},
         age : [Actions -> 0..MaxCooldown], payload : Payloads, missing : Nat]

NeverApplied == [a \in Actions |-> MaxCooldown]
Fresh(status) == [status |-> status, age |-> NeverApplied,
                  payload |-> NoPayload, missing |-> 0]

\* seen is the copy of the row a handler works on.
Idle == [step |-> "idle", incident |-> NoIncident, action |-> "restart_worker",
         seen |-> Fresh("none"), payload |-> NoPayload, cooldown |-> 0]

Working(i) == {h \in Handlers : task[h].incident = i}

\* Handler h copies row r of i.  Another at work on i makes it a slip.
Begin(h, i, step, a, r) ==
    /\ Working(i) = {} \/ slips[i] < MaxSlips
    /\ slips' = [slips EXCEPT ![i] = IF Working(i) = {} THEN @ ELSE @ + 1]
    /\ task' = [task EXCEPT ![h] = [step |-> step, incident |-> i, action |-> a,
                  seen |-> r, payload |-> r.payload, cooldown |-> 0]]

Finish(h) == task' = [task EXCEPT ![h] = Idle]

\* Only what changed is written: the copied details, or none of them, and the
\* status when it is another than the one copied.
Written(h, status) ==
    LET i == task[h].incident
        seen == task[h].seen
        s == IF status = seen.status THEN row[i].status ELSE status
    IN  {[r EXCEPT !.status = s] : r \in {seen, row[i]}}
----------------------------------------------------------------------------
(* execute_incident_action, from the copy on.                              *)

\* Faulty: the entries of an incident that was opened again do not count.
CoolingDownIfMitigated(h) ==
    task[h].seen.age[task[h].action] < policy[task[h].incident].cooldown
    /\ task[h].seen.status = "MITIGATED"

CoolingDown(h) ==
    task[h].seen.age[task[h].action] < policy[task[h].incident].cooldown

\* The cooldown raises: the request fails, and a cycle is given up.
CheckCooldown(h) ==
    /\ task[h].step = "check"
    /\ \/ /\ CoolingDown(h)
          /\ Finish(h) /\ todo' = [todo EXCEPT ![h] = {}]
       \/ /\ ~ CoolingDown(h)
          /\ task' = [task EXCEPT ![h].step = "apply",
                        ![h].cooldown = policy[task[h].incident].cooldown]
          /\ UNCHANGED todo
    /\ UNCHANGED <<switches, anomalous, policy, row, bounds, history>>

\* Faulty: the cap is not kept at one.
ReducedToZero(cap) == cap - 1

Reduced(cap) == IF cap > 1 THEN cap - 1 ELSE 1

\* An action is applied for i: no copy of its details has the entry yet.
Unrecorded(r) == [r EXCEPT !.missing = @ + 1]

\* What an action commits, and what undoes it.
Effect(a, payload) ==
    \/ /\ a = "block_trading" /\ payload = EnableTrading
       /\ trading' = FALSE /\ UNCHANGED leverage
    \/ /\ a = "reduce_leverage" /\ payload = leverage
       /\ leverage' = Reduced(leverage) /\ UNCHANGED trading
    \/ /\ a \notin Undoable /\ payload = NoPayload
       /\ UNCHANGED switches

ApplyAction(h) ==
    LET i == task[h].incident
        a == task[h].action
    IN  /\ task[h].step = "apply"
        /\ \E payload \in Payloads :
             /\ Effect(a, payload)
             /\ task' = [g \in Handlers |->
                  LET t == IF g = h THEN [task[h] EXCEPT !.step = "record",
                                                         !.payload = payload]
                                    ELSE task[g]
                  IN  IF g \in Working(i) THEN [t EXCEPT !.seen = Unrecorded(@)]
                                          ELSE t]
        /\ row' = [row EXCEPT ![i] = Unrecorded(@)]
        /\ since' = [since EXCEPT ![i][a] = 0]
        /\ repeats' = [repeats EXCEPT ![i] =
                         IF since[i][a] < task[h].cooldown THEN @ + 1 ELSE @]
        /\ UNCHANGED <<anomalous, policy, todo, bounds, slips>>

\* Faulty: the entry is not appended when the incident is MITIGATED already.
RecordFirstOnly(h) ==
    LET i == task[h].incident
        mitigated == task[h].seen.status = "MITIGATED"
    IN  /\ task[h].step = "record"
        /\ row' = [row EXCEPT ![i] = IF mitigated THEN @ ELSE
                     [task[h].seen EXCEPT !.status = "MITIGATED",
                        !.age[task[h].action] = 0, !.missing = @ - 1,
                        !.payload = task[h].payload]]
        /\ Finish(h)
        /\ UNCHANGED <<switches, anomalous, policy, todo, bounds, history>>

\* The copied history with the new entry replaces the row's.
RecordAction(h) ==
    LET i == task[h].incident
    IN  /\ task[h].step = "record"
        /\ row' = [row EXCEPT ![i] =
                     [task[h].seen EXCEPT !.status = "MITIGATED",
                        !.age[task[h].action] = 0, !.missing = @ - 1,
                        !.payload = task[h].payload]]
        /\ Finish(h)
        /\ UNCHANGED <<switches, anomalous, policy, todo, bounds, history>>
----------------------------------------------------------------------------
(* Requests of operators.                                                  *)

Request(o) == /\ requests < MaxRequests /\ task[o] = Idle /\ todo[o] = {}
              /\ requests' = requests + 1
              /\ UNCHANGED <<switches, anomalous, row, failures, since, repeats>>

\* An operator works on a row as it is, open or closed.
Open(o, i, step, a) == /\ row[i].status # "none"
                       /\ Request(o) /\ Begin(o, i, step, a, row[i])
                       /\ UNCHANGED <<policy, todo>>

ExecuteAction(o, i) == \E a \in Actions : Open(o, i, "check", a)

UpdateIncident(o, i) == Open(o, i, "update", "restart_worker")

\* rollback_incident_action: the latest entry, which stays the latest.
Rollback(o, i) == /\ row[i].payload # NoPayload
                  /\ Open(o, i, "undo", "restart_worker")

RunEngine(o) == /\ Request(o)
                /\ todo' = [todo EXCEPT ![o] = anomalous]
                /\ UNCHANGED <<policy, task, slips>>

\* The configuration is replaced, or the incident's severity or recurrence
\* selects another of its policies.
ChangePolicy(o, i) == /\ Request(o)
                      /\ \E p \in Policies : policy' = [policy EXCEPT ![i] = p]
                      /\ UNCHANGED <<task, todo, slips>>

ApplyRollback(h) ==
    LET payload == task[h].payload
    IN  /\ task[h].step = "undo"
        /\ IF payload = EnableTrading
             THEN trading' = TRUE /\ UNCHANGED leverage
             ELSE leverage' = payload /\ UNCHANGED trading
        /\ task' = [task EXCEPT ![h].step = "undone"]
        /\ UNCHANGED <<anomalous, policy, row, todo, bounds, history>>

\* rollback_history grows; remediation_history is written back as copied.
RecordRollback(h) ==
    LET i == task[h].incident
    IN  /\ task[h].step = "undone"
        /\ row' = [row EXCEPT ![i] = [task[h].seen EXCEPT
                                        !.status = row[i].status]]
        /\ Finish(h)
        /\ UNCHANGED <<switches, anomalous, policy, todo, bounds, history>>

\* update_incident_intelligence_state.
WriteState(h) ==
    LET i == task[h].incident
    IN  /\ task[h].step = "update"
        /\ \E s \in {"OPEN", "MITIGATED", "RESOLVED"} : \E r \in Written(h, s) :
             row' = [row EXCEPT ![i] = r]
        /\ Finish(h)
        /\ UNCHANGED <<switches, anomalous, policy, todo, bounds, history>>
----------------------------------------------------------------------------
(* run_incident_intelligence_cycle.                                        *)

StartCycle ==
    /\ todo["cycle"] = {} /\ task["cycle"] = Idle /\ anomalous # {}
    /\ todo' = [todo EXCEPT !["cycle"] = anomalous]
    /\ UNCHANGED <<switches, anomalous, policy, row, task, bounds, history>>

IsOpen(i) == row[i].status \in {"OPEN", "MITIGATED"}

\* The cycle finds the incident row that is open for a fingerprint.
VisitOpen(h, i) ==
    /\ task[h] = Idle /\ Fingerprint[i] \in todo[h] /\ IsOpen(i)
    /\ Begin(h, i, "upsert", "restart_worker", row[i])
    /\ todo' = [todo EXCEPT ![h] = @ \ {Fingerprint[i]}]
    /\ UNCHANGED <<switches, anomalous, policy, row, bounds, since, repeats>>

\* It finds none and will add a row, which has no history: a closed one is
\* forgotten for it.
VisitNew(h, i) ==
    /\ task[h] = Idle /\ Fingerprint[i] \in todo[h]
    /\ \A j \in Incidents : Fingerprint[j] = Fingerprint[i] => ~ IsOpen(j)
    /\ Working(i) = {}
    /\ row' = [row EXCEPT ![i] = Fresh("none")]
    /\ since' = [since EXCEPT ![i] = NeverApplied]
    /\ slips' = [slips EXCEPT ![i] = 0]
    /\ repeats' = [repeats EXCEPT ![i] = 0]
    /\ task' = [task EXCEPT ![h] = [Idle EXCEPT !.step = "upsert",
                                                !.incident = i]]
    /\ todo' = [todo EXCEPT ![h] = @ \ {Fingerprint[i]}]
    /\ UNCHANGED <<switches, anomalous, policy, bounds>>

\* Faulty: a MITIGATED incident ends the cycle.
UpsertStopsAtMitigated(h) ==
    LET i == task[h].incident
        p == policy[i]
    IN  /\ task[h].step = "upsert"
        /\ row' = [row EXCEPT ![i].status = IF @ = "none" THEN "OPEN" ELSE @]
        /\ IF p.auto /\ row[i].status # "MITIGATED"
             THEN /\ task' = [task EXCEPT ![h].step = "check",
                                ![h].action = p.action, ![h].seen = row'[i]]
                  /\ UNCHANGED todo
             ELSE Finish(h) /\ todo' = [todo EXCEPT ![h] = {}]
        /\ UNCHANGED <<switches, anomalous, policy, bounds, history>>

\* The merged details are committed and read again; an auto policy acts.
Upsert(h) ==
    LET i == task[h].incident
        p == policy[i]
    IN  /\ task[h].step = "upsert"
        /\ IF row[i].status = "none"
             THEN row' = [row EXCEPT ![i] = Fresh("OPEN")]
             ELSE \E r \in Written(h, task[h].seen.status) :
                    row' = [row EXCEPT ![i] = r]
        /\ IF p.auto
             THEN task' = [task EXCEPT ![h].step = "check",
                             ![h].action = p.action, ![h].seen = row'[i]]
             ELSE Finish(h)
        /\ UNCHANGED <<switches, anomalous, policy, todo, bounds, history>>

\* A handler ends with an exception, or with its process: a connector refuses
\* after the commit, an audit entry or a commit fails.  A cycle is given up.
Fail(h) ==
    LET i == task[h].incident
    IN  /\ failures < MaxFailures /\ failures' = failures + 1
        /\ task[h] # Idle
        /\ slips' = IF task[h].step = "record"
                      THEN [slips EXCEPT ![i] = @ + 1] ELSE slips
        /\ Finish(h) /\ todo' = [todo EXCEPT ![h] = {}]
        /\ UNCHANGED <<switches, anomalous, policy, row, requests, since, repeats>>

\* Events of the repository's domains make a fingerprint anomalous, until
\* they have left the window.
Anomaly(f) ==
    /\ anomalous' = IF f \in anomalous THEN anomalous \ {f}
                                       ELSE anomalous \cup {f}
    /\ UNCHANGED <<switches, policy, row, task, todo, bounds, history>>

Older(age) == [a \in Actions |-> IF age[a] < MaxCooldown THEN age[a] + 1
                                                         ELSE MaxCooldown]

Tick ==
    /\ row' = [i \in Incidents |-> [row[i] EXCEPT !.age = Older(@)]]
    /\ task' = [h \in Handlers |-> [task[h] EXCEPT !.seen.age = Older(@)]]
    /\ since' = [i \in Incidents |-> Older(since[i])]
    /\ UNCHANGED <<switches, anomalous, policy, todo, bounds, slips, repeats>>

Init ==
    /\ trading = TRUE /\ leverage = InitLeverage /\ anomalous = {}
    /\ policy \in StartPolicies
    /\ row = [i \in Incidents |-> Fresh("none")]
    /\ task = [h \in Handlers |-> Idle]
    /\ todo = [h \in Handlers |-> {}]
    /\ requests = 0 /\ failures = 0
    /\ since = [i \in Incidents |-> NeverApplied]
    /\ slips = [i \in Incidents |-> 0] /\ repeats = [i \in Incidents |-> 0]

Visit(h) == \E i \in Incidents : VisitOpen(h, i) \/ VisitNew(h, i)

HandlerStep(h) == \/ Visit(h) \/ Upsert(h)
                  \/ CheckCooldown(h) \/ ApplyAction(h) \/ RecordAction(h)
                  \/ ApplyRollback(h) \/ RecordRollback(h) \/ WriteState(h)

OperatorStep(o) ==
    \/ RunEngine(o)
    \/ \E i \in Incidents : \/ ExecuteAction(o, i) \/ UpdateIncident(o, i)
                            \/ Rollback(o, i) \/ ChangePolicy(o, i)

Next == \/ StartCycle \/ Tick
        \/ \E h \in Handlers : HandlerStep(h) \/ Fail(h)
        \/ \E o \in Operators : OperatorStep(o)
        \/ \E f \in Fingerprints : Anomaly(f)

Spec == Init /\ [][Next]_vars

\* The cycle is a loop that sleeps and runs again, a handler that started
\* runs to its end, and time passes.
Fairness == /\ WF_vars(StartCycle) /\ WF_vars(Tick)
            /\ \A h \in Handlers : WF_vars(HandlerStep(h))

FairSpec == Spec /\ Fairness
----------------------------------------------------------------------------
(* Properties.                                                             *)

\* The type of the state.
TypeOK ==
    /\ trading \in BOOLEAN /\ leverage \in 1..InitLeverage
    /\ anomalous \subseteq Fingerprints /\ policy \in [Incidents -> Policies]
    /\ row \in [Incidents -> Rows]
    /\ \A h \in Handlers :
         /\ task[h].step \in {"idle", "upsert", "check", "apply", "record",
                              "undo", "undone", "update"}
         /\ task[h].incident \in Incidents \cup {NoIncident}
         /\ task[h].seen \in Rows /\ task[h].payload \in Payloads
         /\ task[h].cooldown \in 0..MaxCooldown
         /\ todo[h] \subseteq Fingerprints
    /\ requests \in 0..MaxRequests /\ failures \in 0..MaxFailures
    /\ \A i \in Incidents : {slips[i], repeats[i]} \subseteq Nat

\* Each handler that fails after its commit, or starts on an incident another
\* is at work on, costs remediation_history one entry at most: an incident at
\* rest shows every other action applied for it, whatever the cycles, requests
\* and state edits did with their copies.
EntryKept == \A i \in Incidents :
    Working(i) = {} => row[i].missing <= slips[i]

\* The cooldown is passed at most once for each of them: without an overlap
\* or a failure no action is applied for an incident within the cooldown its
\* policy gave when it was checked, by whomever and after whatever rollback.
CooldownRespected == \A i \in Incidents : repeats[i] <= slips[i]

\* While some fingerprint stays anomalous under auto policies, the cycle
\* mitigates again and again, though a cooling incident it visits first ends
\* it, events of others come and leave, and operators run cycles beside it.
RemediationGoesOn == \A f \in Fingerprints :
    <>[](f \in anomalous /\ \A i \in Incidents :
           Fingerprint[i] = f => policy[i].auto)
    => []<>(task["cycle"].step = "record")
=============================================================================
