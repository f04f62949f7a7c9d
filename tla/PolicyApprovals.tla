-------------------------- MODULE PolicyApprovals --------------------------
(***************************************************************************)
(* The risk policy and its approval requests                               *)
(* (backend/services/risk_orchestrator_service.py): a simulated change is  *)
(* applied at once, or, when it is CRITICAL, after a request was voted on  *)
(* by administrators.  Every call works in its own database session; a     *)
(* step ends at a commit, or where a row is read that a later step of the  *)
(* same call writes back.  with_for_update holds a request from the vote   *)
(* that reaches the quorum to the first commit of the apply only.          *)
(***************************************************************************)
EXTENDS Integers, Sequences, FiniteSets

CONSTANTS Actors,        \* active or inactive administrators
          Role,          \* the role of each
          Sims,          \* risk_orchestrator_policy_simulations, one candidate each
          Class,         \* classification of each simulation
          Keys,          \* request keys
          SimOf, By,     \* the simulation and the requester of a key
          Calls,         \* API calls that may be in progress at once
          Overlap,       \* which of "calls overlap" are explored
          PendingLimit,  \* APPROVER_PENDING_LIMIT
          MaxCalls, MaxCrashes, MaxDeactivations

LOCAL Sum == INSTANCE FiniteSetsExt

None == "none"
NoSim == "default"
Roles == {"super_admin", "admin", "ops"}
Classes == {"SAFE", "WARNING", "CRITICAL"}
Operations == {"apply", "approve", "reject", "assign", "force", "sweep"}

ASSUME ConstantsAssumption ==
    /\ Role \in [Actors -> Roles]
    /\ Class \in [Sims -> Classes]
    /\ SimOf \in [Keys -> Sims]
    /\ By \in [Keys -> Actors]
    /\ Overlap \subseteq BOOLEAN
    /\ {PendingLimit, MaxCalls, MaxCrashes, MaxDeactivations} \subseteq Nat
    /\ None \notin Actors /\ NoSim \notin Sims

VARIABLES
    policy,        \* the row "global": what it holds and policy_version
    baseline,      \* baseline_policy_version of a simulation, 0 before it ran
    approval,      \* approval requests by request_key
    late,          \* requests whose expires_at has passed
    trace,         \* decision_state of the latest trace of a derived key
    changes,       \* risk_orchestrator_policy_change_requests, oldest first
    versions,      \* risk_orchestrator_policy_versions, oldest first
    active,        \* administrators with is_active
    call,          \* the calls in progress
    overlap, started, crashes, deactivated

vars == <<policy, baseline, approval, late, trace, changes, versions, active,
          call, overlap, started, crashes, deactivated>>
tables == <<policy, baseline, approval, trace, changes, versions>>
world == <<late, active, overlap, started, crashes, deactivated>>

RequestStates == {"pending", "assigned", "approved", "rejected", "expired"}
Row == [state : RequestStates \cup {None}, owner : Actors \cup {None},
        votes : SUBSET Actors]
NoRow == [state |-> None, owner |-> None, votes |-> {}]

\* Where a call is, and what its session has read and not yet written.
Steps == {"idle", "look", "block", "insert", "own", "assign", "sweep", "expire",
          "owned", "escalate", "done", "act", "values", "version", "finish", "decide"}
Session == [pc : Steps, op : Operations, actor : Actors, key : Keys, todo : SUBSET Keys,
            item : Keys, back : Steps, copy : Row, owner : Actors \cup {None},
            read : [value : Sims \cup {NoSim}, version : Nat]]
Idle == [pc |-> "idle"]

Vias == {"direct", "finalize", "force"}

-----------------------------------------------------------------------------
(* Rules of the code *)

IsOpen(k) == approval[k].state \in {"pending", "assigned"}

GOVERNANCE_ROLE_WEIGHTS(a) == IF Role[a] = "super_admin" THEN 2 ELSE 1
Weight(votes) == Sum!MapThenSumSet(GOVERNANCE_ROLE_WEIGHTS, votes)

\* Faulty: one vote of an administrator too few.
QuorumTooLow(votes) ==
    /\ Weight(votes) >= 2
    /\ Cardinality(votes) >= 2

\* The requester's own entry ("proposed") counts like any other.
QuorumReached(votes) ==
    /\ Weight(votes) >= 3
    /\ Cardinality(votes) >= 2

PendingCount(a) == Cardinality({k \in Keys : IsOpen(k) /\ approval[k].owner = a})

\* _select_auto_assignee: the least loaded administrator who is neither the
\* requester nor the present owner (ties are broken by assigned_at), else the
\* requester.
AutoAssignees(k, row) ==
    LET others == active \ {By[k], row.owner}
    IN  IF others = {} THEN {By[k]} \cap active
        ELSE {a \in others : \A b \in others : PendingCount(a) <= PendingCount(b)}

NeedsOwner(row) ==
    \/ row.owner = None
    \/ row.owner \notin active
    \/ PendingCount(row.owner) > PendingLimit + 2

\* A row lock is held from the vote to the commit of the policy's values.
Locked(k) == \E h \in Calls : /\ call[h].pc = "values"
                              /\ call[h].op \in {"approve", "force"}
                              /\ call[h].key = k

\* Faulty: a simulation is applied to whatever policy there is now.
FreshAlways(s) == baseline[s] # 0

\* "stale_simulation_requires_resimulate" otherwise.
Fresh(s) == policy.version = baseline[s]

\* Faulty: the state of the request is not looked at.
MayDecideAnyState(h, row) ==
    /\ row.state # None
    /\ call[h].actor # By[call[h].key]
    /\ row.owner = call[h].actor \/ Role[call[h].actor] = "super_admin"

\* What approve and reject ask of the locked request.
MayDecide(h, row) ==
    /\ row.state = "assigned"
    /\ call[h].actor # By[call[h].key]
    /\ row.owner = call[h].actor \/ Role[call[h].actor] = "super_admin"

-----------------------------------------------------------------------------
Init ==
    /\ policy = [value |-> NoSim, version |-> 1]
    /\ baseline = [s \in Sims |-> 0]
    /\ approval = [k \in Keys |-> NoRow]
    /\ late = {}
    /\ trace = [k \in Keys |-> [v \in Vias |-> None]]
    /\ changes = <<>> /\ versions = <<>>
    /\ active = Actors
    /\ call = [h \in Calls |-> Idle]
    /\ overlap \in Overlap
    /\ started = 0 /\ crashes = 0 /\ deactivated = 0

Finish(h) == call' = [call EXCEPT ![h] = Idle]
Goto(h, pc) == call' = [call EXCEPT ![h].pc = pc]

\* simulate_policy_change.
Simulate(s) ==
    /\ baseline[s] = 0
    /\ baseline' = [baseline EXCEPT ![s] = policy.version]
    /\ UNCHANGED <<policy, approval, trace, changes, versions, call, world>>

Start(h, op, a, k) ==
    /\ call[h].pc = "idle" /\ started < MaxCalls
    /\ overlap \/ \A g \in Calls : call[g].pc = "idle"
    /\ a \in active
    /\ CASE op = "apply" -> a = By[k] /\ baseline[SimOf[k]] # 0
         [] op = "force" -> Role[a] = "super_admin" /\ approval[k].state # None
         [] OTHER        -> approval[k].state # None
    /\ call' = [call EXCEPT ![h] =
                  [pc |-> IF op = "apply" THEN "look" ELSE "sweep",
                   op |-> op, actor |-> a, key |-> k,
                   todo |-> {j \in late : IsOpen(j)}, item |-> k,
                   back |-> "done", copy |-> NoRow, owner |-> None,
                   read |-> [value |-> NoSim, version |-> 0]]]
    /\ started' = started + 1
    /\ UNCHANGED <<tables, late, active, overlap, crashes, deactivated>>

-----------------------------------------------------------------------------
(* apply_policy_from_simulation, called by the requester *)

\* A key seen before is answered from its request or trace; a stale
\* simulation and a missing confirmation are refused.
Answered(k) == approval[k].state # None \/ trace[k]["direct"] # None

Look(h, override, confirmed) ==
    LET k == call[h].key
        class == Class[SimOf[k]]
    IN  /\ call[h].pc = "look"
        /\ \/ /\ Answered(k) \/ ~Fresh(SimOf[k]) \/ (class # "SAFE" /\ ~confirmed)
              /\ Finish(h)
           \/ /\ ~Answered(k) /\ Fresh(SimOf[k]) /\ (class = "SAFE" \/ confirmed)
              /\ Goto(h, CASE class # "CRITICAL" -> "values"
                           [] override           -> "insert"
                           [] OTHER              -> "block")
        /\ UNCHANGED <<tables, world>>

Block(h) ==
    /\ call[h].pc = "block"
    /\ trace' = [trace EXCEPT ![call[h].key]["direct"] = "blocked"]
    /\ Finish(h)
    /\ UNCHANGED <<policy, baseline, approval, changes, versions, world>>

\* Faulty: the new request counts as assigned before anybody owns it.
InsertAssigned(h) ==
    LET k == call[h].key
    IN  /\ call[h].pc = "insert"
        /\ approval' = [approval EXCEPT ![k] = [state |-> "assigned", owner |-> None,
                                                votes |-> {call[h].actor}]]
        /\ Goto(h, "own")
        /\ UNCHANGED <<policy, baseline, trace, changes, versions, world>>

\* request_key is unique: the second insert is answered with the first row.
Insert(h) ==
    LET k == call[h].key
    IN  /\ call[h].pc = "insert"
        /\ \/ /\ approval[k].state = None
              /\ approval' = [approval EXCEPT ![k] = [state |-> "pending", owner |-> None,
                                                      votes |-> {call[h].actor}]]
              /\ Goto(h, "own")
           \/ /\ approval[k].state # None
              /\ Finish(h)
              /\ UNCHANGED approval
        /\ UNCHANGED <<policy, baseline, trace, changes, versions, world>>

-----------------------------------------------------------------------------
(* Ownership: _ensure_critical_queue_ownership and _assign_approval_request. *)
(* The request is read here and written in AssignCommit, without a lock; the *)
(* call then goes on at "back".                                              *)

EnsureOwnership(h) ==
    LET k == call[h].item
        row == approval[k]
    IN  /\ call[h].pc = "own"
        /\ \/ /\ IsOpen(k) /\ NeedsOwner(row)
              /\ \E a \in AutoAssignees(k, row) :
                    call' = [call EXCEPT ![h].pc = "assign", ![h].copy = row, ![h].owner = a]
           \/ /\ ~(IsOpen(k) /\ NeedsOwner(row)) \/ AutoAssignees(k, row) = {}
              /\ Goto(h, call[h].back)
        /\ UNCHANGED <<tables, world>>

AssignCommit(h) ==
    LET k == call[h].item
        copy == call[h].copy
    IN  /\ call[h].pc = "assign" /\ ~Locked(k)
        /\ approval' = [approval EXCEPT
              ![k].state = IF copy.state = "pending" THEN "assigned" ELSE @,
              ![k].owner = call[h].owner,
              ![k].votes = copy.votes]
        /\ Goto(h, call[h].back)
        /\ UNCHANGED <<policy, baseline, trace, changes, versions, world>>

-----------------------------------------------------------------------------
(* _expire_stale_approval_requests, with which every call on a request begins *)

\* A request that was decided meanwhile raises a conflict and ends the call.
SweepRow(h, k) ==
    LET row == approval[k]
    IN  /\ call[h].pc = "sweep" /\ k \in call[h].todo
        /\ call' = CASE row.state = "pending" ->
                          [call EXCEPT ![h].pc = "own", ![h].item = k, ![h].back = "owned"]
                     [] row.state \in {"assigned", "expired"} ->
                          [call EXCEPT ![h].pc = "expire", ![h].item = k, ![h].copy = row]
                     [] OTHER -> [call EXCEPT ![h] = Idle]
        /\ UNCHANGED <<tables, world>>

\* A pending request was given an owner first; without one it is passed over.
SweepOwned(h) ==
    LET k == call[h].item
    IN  /\ call[h].pc = "owned"
        /\ call' = IF approval[k].state = "assigned"
                   THEN [call EXCEPT ![h].pc = "expire", ![h].copy = approval[k]]
                   ELSE [call EXCEPT ![h].pc = "sweep", ![h].todo = @ \ {k}]
        /\ UNCHANGED <<tables, world>>

\* The state is written if the session read another one; the votes are those
\* it read.
ExpireCommit(h) ==
    LET k == call[h].item
    IN  /\ call[h].pc = "expire" /\ ~Locked(k)
        /\ approval' = [approval EXCEPT
              ![k].state = IF call[h].copy.state = "assigned" THEN "expired" ELSE @,
              ![k].votes = call[h].copy.votes]
        /\ call' = [call EXCEPT ![h].pc = "sweep", ![h].todo = @ \ {k}]
        /\ UNCHANGED <<policy, baseline, trace, changes, versions, world>>

SweepDone(h) ==
    /\ call[h].pc = "sweep" /\ call[h].todo = {}
    /\ call' = IF call[h].op = "sweep"
               THEN [call EXCEPT ![h].pc = "escalate", ![h].todo = {k \in Keys : IsOpen(k)}]
               ELSE [call EXCEPT ![h].pc = "act", ![h].item = call[h].key]
    /\ UNCHANGED <<tables, world>>

\* process_approval_escalations settles the ownership of every open request.
Escalate(h) ==
    /\ call[h].pc = "escalate"
    /\ \/ call[h].todo = {} /\ Finish(h)
       \/ \E k \in call[h].todo :
             call' = [call EXCEPT ![h].pc = "own", ![h].item = k, ![h].back = "escalate",
                                  ![h].todo = @ \ {k}]
    /\ UNCHANGED <<tables, world>>

\* apply_policy_from_simulation answers that a second approval is awaited.
Done(h) ==
    /\ call[h].pc = "done"
    /\ Finish(h)
    /\ UNCHANGED <<tables, world>>

-----------------------------------------------------------------------------
(* The calls on a request, after the sweep, with the row locked *)

\* The state, votes and owner of the locked request of h are saved as row.
Save(h, row) == approval' = [approval EXCEPT ![call[h].key] = row]

Conflict(h) ==
    /\ Finish(h)
    /\ UNCHANGED approval

\* Faulty: the request is approved although its apply was refused.
ApproveUnapplied(h) ==
    LET k == call[h].key
        row == [approval[k] EXCEPT !.votes = @ \cup {call[h].actor}]
    IN  /\ call[h].pc = "act" /\ call[h].op = "approve" /\ ~Locked(k)
        /\ IF MayDecide(h, approval[k]) /\ QuorumReached(row.votes) /\ ~Fresh(SimOf[k])
           THEN Save(h, [row EXCEPT !.state = "approved"]) /\ Finish(h)
           ELSE Conflict(h)
        /\ UNCHANGED <<policy, baseline, trace, changes, versions, world>>

\* The vote that reaches the quorum applies the policy under the key
\* "<key>:finalize": an apply that went through before is not repeated, and a
\* stale simulation refuses the vote too.
Approve(h) ==
    LET k == call[h].key
        row == [approval[k] EXCEPT !.votes = @ \cup {call[h].actor}]
    IN  /\ call[h].pc = "act" /\ call[h].op = "approve" /\ ~Locked(k)
        /\ \/ /\ ~MayDecide(h, approval[k]) \/ call[h].actor \in approval[k].votes
              /\ Conflict(h)
           \/ /\ MayDecide(h, approval[k]) /\ call[h].actor \notin approval[k].votes
              /\ \/ ~QuorumReached(row.votes) /\ Save(h, row) /\ Finish(h)
                 \/ /\ QuorumReached(row.votes)
                    /\ \/ /\ trace[k]["finalize"] = "applied"
                          /\ Save(h, [row EXCEPT !.state = "approved"])
                          /\ Finish(h)
                       \/ /\ trace[k]["finalize"] = None
                          /\ \/ ~Fresh(SimOf[k]) /\ Conflict(h)
                             \/ /\ Fresh(SimOf[k])
                                /\ call' = [call EXCEPT ![h].pc = "values", ![h].copy = row]
                                /\ UNCHANGED approval
        /\ UNCHANGED <<policy, baseline, trace, changes, versions, world>>

Reject(h) ==
    LET row == approval[call[h].key]
    IN  /\ call[h].pc = "act" /\ call[h].op = "reject" /\ ~Locked(call[h].key)
        /\ \/ ~MayDecide(h, row) /\ Conflict(h)
           \/ MayDecide(h, row) /\ Save(h, [row EXCEPT !.state = "rejected"]) /\ Finish(h)
        /\ UNCHANGED <<policy, baseline, trace, changes, versions, world>>

\* assignee_id is any administrator; auto_assign takes one of AutoAssignees.
Assign(h, a) ==
    LET k == call[h].key
    IN  /\ call[h].pc = "act" /\ call[h].op = "assign" /\ ~Locked(k)
        /\ \/ /\ IsOpen(k) /\ PendingCount(a) < PendingLimit
              /\ Save(h, [approval[k] EXCEPT !.state = "assigned", !.owner = a])
              /\ Finish(h)
           \/ /\ ~IsOpen(k) \/ PendingCount(a) >= PendingLimit
              /\ Conflict(h)
        /\ UNCHANGED <<policy, baseline, trace, changes, versions, world>>

ForceApply(h) ==
    LET k == call[h].key
    IN  /\ call[h].pc = "act" /\ call[h].op = "force" /\ ~Locked(k)
        /\ \/ /\ approval[k].state = "expired" /\ trace[k]["force"] = "applied"
              /\ Save(h, [approval[k] EXCEPT !.state = "approved"])
              /\ Finish(h)
           \/ /\ approval[k].state = "expired" /\ trace[k]["force"] = None
              /\ Fresh(SimOf[k])
              /\ call' = [call EXCEPT ![h].pc = "values", ![h].copy = approval[k]]
              /\ UNCHANGED approval
           \/ /\ \/ approval[k].state # "expired"
                 \/ trace[k]["force"] = None /\ ~Fresh(SimOf[k])
              /\ Conflict(h)
        /\ UNCHANGED <<policy, baseline, trace, changes, versions, world>>

-----------------------------------------------------------------------------
(* The apply itself: three commits *)

Via(h) == CASE call[h].op = "apply"   -> "direct"
            [] call[h].op = "approve" -> "finalize"
            [] OTHER                  -> "force"

\* update_policy commits the values, the change request and the vote, and
\* reads the policy again: the version is still the old one, the lock is gone.
CommitValues(h) ==
    LET k == call[h].key
    IN  /\ call[h].pc = "values"
        /\ policy' = [policy EXCEPT !.value = SimOf[k]]
        /\ changes' = Append(changes, [key |-> k, via |-> Via(h),
                                       votes |-> call[h].copy.votes])
        /\ approval' = IF Via(h) = "finalize"
                       THEN [approval EXCEPT ![k].votes = call[h].copy.votes]
                       ELSE approval
        /\ call' = [call EXCEPT ![h].pc = "version", ![h].read = policy']
        /\ UNCHANGED <<baseline, trace, versions, world>>

\* policy_version is raised from what the session read, and recorded.
CommitVersion(h) ==
    LET k == call[h].key
        no == call[h].read.version + 1
    IN  /\ call[h].pc = "version"
        /\ policy' = [policy EXCEPT !.version = no]
        /\ versions' = Append(versions, [no |-> no, value |-> call[h].read.value])
        /\ trace' = [trace EXCEPT ![k][Via(h)] = "applied"]
        /\ Goto(h, IF Via(h) = "direct" THEN "done" ELSE "finish")
        /\ UNCHANGED <<baseline, approval, changes, world>>

\* _transition_approval_state on the request as it is now, whatever the call
\* began with: assigned may become approved, expired only when forced.
Finalize(h) ==
    LET row == approval[call[h].key]
        forced == call[h].op # "approve"
    IN  /\ call[h].pc = "finish"
        /\ call' = IF \/ row.state \in {"assigned", "approved"}
                      \/ forced /\ row.state = "expired"
                   THEN [call EXCEPT ![h].pc = "decide", ![h].copy = row]
                   ELSE [call EXCEPT ![h] = Idle]
        /\ UNCHANGED <<tables, world>>

Decide(h) ==
    LET k == call[h].key
    IN  /\ call[h].pc = "decide" /\ ~Locked(k)
        /\ approval' = [approval EXCEPT
              ![k].state = IF call[h].copy.state = "approved" THEN @ ELSE "approved",
              ![k].votes = call[h].copy.votes]
        /\ Finish(h)
        /\ UNCHANGED <<policy, baseline, trace, changes, versions, world>>

-----------------------------------------------------------------------------
(* Surroundings *)

\* APPROVAL_TIMEOUT_MINUTES pass.
Timeout(k) ==
    /\ IsOpen(k) /\ k \notin late
    /\ late' = late \cup {k}
    /\ UNCHANGED <<tables, call, active, overlap, started, crashes, deactivated>>

\* A session ends without its next commit.
Crash(h) ==
    /\ call[h].pc # "idle" /\ crashes < MaxCrashes
    /\ Finish(h)
    /\ crashes' = crashes + 1
    /\ UNCHANGED <<tables, late, active, overlap, started, deactivated>>

Deactivate(a) ==
    /\ a \in active /\ deactivated < MaxDeactivations
    /\ active' = active \ {a}
    /\ deactivated' = deactivated + 1
    /\ UNCHANGED <<tables, call, late, overlap, started, crashes>>

CallStep(h) ==
    \/ \E override, confirmed \in BOOLEAN : Look(h, override, confirmed)
    \/ Block(h) \/ Insert(h) \/ EnsureOwnership(h) \/ AssignCommit(h) \/ Done(h)
    \/ \E k \in Keys : SweepRow(h, k)
    \/ SweepOwned(h) \/ ExpireCommit(h) \/ SweepDone(h) \/ Escalate(h)
    \/ Approve(h) \/ Reject(h) \/ ForceApply(h)
    \/ \E a \in Actors : Assign(h, a)
    \/ CommitValues(h) \/ CommitVersion(h) \/ Finalize(h) \/ Decide(h)

Next ==
    \/ \E s \in Sims : Simulate(s)
    \/ \E h \in Calls, op \in Operations, a \in Actors, k \in Keys : Start(h, op, a, k)
    \/ \E h \in Calls : CallStep(h) \/ Crash(h)
    \/ \E k \in Keys : Timeout(k)
    \/ \E a \in Actors : Deactivate(a)

Spec == Init /\ [][Next]_vars

-----------------------------------------------------------------------------
(* Properties *)

\* Every variable keeps its shape, and a request has an owner from the moment
\* it is no longer pending.
TypeOK ==
    /\ policy \in [value : Sims \cup {NoSim}, version : Nat]
    /\ baseline \in [Sims -> Nat]
    /\ approval \in [Keys -> Row]
    /\ \A k \in Keys : (approval[k].owner = None) <=> (approval[k].state \in {None, "pending"})
    /\ late \subseteq Keys /\ active \subseteq Actors
    /\ trace \in [Keys -> [Vias -> {None, "blocked", "applied"}]]
    /\ changes \in Seq([key : Keys, via : Vias, votes : SUBSET Actors])
    /\ versions \in Seq([no : Nat, value : Sims])
    /\ call \in [Calls -> Session \cup {Idle}]
    /\ overlap \in BOOLEAN /\ {started, crashes, deactivated} \subseteq Nat

\* However votes, sweeps, reassignments and crashes interleave, no CRITICAL
\* change reaches the policy without its request: a second administrator voted
\* and the weights reach the quorum, or the request had run out of time.
FourEyes ==
    \A i \in 1..Len(changes) :
        LET c == changes[i]
        IN  Class[SimOf[c.key]] = "CRITICAL" =>
              \/ /\ c.via = "finalize"
                 /\ c.votes \ {By[c.key]} # {}
                 /\ Weight(c.votes) >= 3
              \/ c.via = "force" /\ c.key \in late

\* A request is approved only when its change is in the policy's history: the
\* stale check, a crash between the commits and a second vote leave it open.
ApprovedWasApplied ==
    \A k \in Keys : approval[k].state = "approved" =>
        \E i \in 1..Len(changes) : changes[i].key = k

Undisturbed == ~overlap /\ crashes = 0

\* Calls one after the other apply a simulation once, also when two requests,
\* a finalize and a forced apply compete for it.
SerialAppliedOnce ==
    Undisturbed => \A i, j \in 1..Len(changes) :
        SimOf[changes[i].key] = SimOf[changes[j].key] => i = j

\* Between such calls every change has its version, numbered without a gap,
\* and its request says approved.
SerialChangesRecorded ==
    Undisturbed /\ (\A h \in Calls : call[h].pc = "idle") =>
        /\ Len(versions) = Len(changes)
        /\ policy.version = Len(changes) + 1
        /\ \A i \in 1..Len(versions) :
              versions[i] = [no |-> i + 1, value |-> SimOf[changes[i].key]]
        /\ \A i \in 1..Len(changes) :
              changes[i].via # "direct" => approval[changes[i].key].state = "approved"

=============================================================================
