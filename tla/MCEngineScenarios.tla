------------------------- MODULE MCEngineScenarios -------------------------
(* The scenarios of the engine's safety run: who takes part, what the      *)
(* exchange may report and what may go wrong is chosen once, in the        *)
(* initial state.                                                          *)
EXTENDS MCExecutionEngine, TLC

CONSTANTS d1, w2, g1, r1

VARIABLE scenario

WorkerSymmetry == Permutations(Workers)

Scenarios ==
    {[jobs |-> {j1, j2}, procs |-> {w1, w2}, recs |-> {},
      reported |-> {"NEW", "FILLED"}, crashes |-> 1, toggles |-> 0,
      orders |-> 4],
     [jobs |-> {j1, j3}, procs |-> {w1, w2}, recs |-> {},
      reported |-> {"NEW", "FILLED"}, crashes |-> 2, toggles |-> 1,
      orders |-> 4],
     [jobs |-> {j1}, procs |-> {w1}, recs |-> {r1},
      reported |-> Reported, crashes |-> 1, toggles |-> 2,
      orders |-> 4],
     [jobs |-> {d1}, procs |-> {w1, g1}, recs |-> {r1},
      reported |-> {"NEW", "FILLED"}, crashes |-> 0, toggles |-> 0,
      orders |-> 3]}

ScenarioInit == Init /\ scenario \in Scenarios

Within ==
    /\ UNCHANGED scenario
    /\ crashes' <= scenario.crashes
    /\ toggles' <= scenario.toggles
    /\ Len(exch') <= scenario.orders

Submits(j) == j \in scenario.jobs /\ Within
Acts(p) == p \in scenario.procs /\ Within
Reconciles(c) == c \in scenario.recs /\ Within

ScenarioNext ==
    \/ \E j \in Jobs :
          \/ InsertJob(j) /\ Submits(j)
          \/ RejectAudit(j) /\ Submits(j)
          \/ RejectJob(j) /\ Submits(j)
          \/ PushPayload(j) /\ Submits(j)
          \/ CommitEnqueue(j) /\ Submits(j)
          \/ AbortSubmit(j) /\ Submits(j)
    \/ \E p \in Procs :
          \/ Consume(p) /\ Acts(p)
          \/ ConsumeIgnored(p) /\ Acts(p)
          \/ ConsumeDeferred(p) /\ Acts(p)
          \/ ConsumeRefused(p) /\ Acts(p)
          \/ \E j \in Jobs : DirectExecute(p, j) /\ Acts(p)
          \/ BalanceCheckFails(p) /\ Acts(p)
          \/ \E s \in Reported : ExchangeAccepts(p, s) /\ Acts(p)
                                 /\ s \in scenario.reported
          \/ \E s \in Reported : ReplyLost(p, s) /\ Acts(p)
                                 /\ s \in scenario.reported
          \/ RequestLost(p) /\ Acts(p)
          \/ ExchangeRejects(p) /\ Acts(p)
          \/ LatencyAlert(p) /\ Acts(p)
          \/ ApplyResult(p) /\ Acts(p)
          \/ CommitResult(p) /\ Acts(p)
          \/ CommitResultConflict(p) /\ Acts(p)
          \/ AfterCommit(p) /\ Acts(p)
          \/ AfterCommitRaises(p) /\ Acts(p)
          \/ HandleFailure(p) /\ Acts(p)
          \/ Requeue(p) /\ Acts(p)
          \/ CloseFailed(p) /\ Acts(p)
          \/ Crash(p) /\ Acts(p)
    \/ \E c \in Reconcilers :
          \/ ReconcileRead(c) /\ Reconciles(c)
          \/ ReconcileCommit(c) /\ Reconciles(c)
    \/ \E e \in 1..Len(exch), s \in scenario.reported :
          ExchangeProgress(e, s) /\ Within
    \/ SetVenue /\ Within
    \/ ActivateKillSwitch /\ Within
    \/ DeactivateKillSwitch /\ Within

ScenarioSpec == ScenarioInit /\ [][ScenarioNext]_<<vars, scenario>>
=============================================================================
