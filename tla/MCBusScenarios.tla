-------------------------- MODULE MCBusScenarios --------------------------
(* The scenarios of the bus's safety run: restarts of the consumer without *)
(* operators, and two dispatches of one decision with them.                *)
EXTENDS MCRuntimeEventBus

CONSTANT i2

VARIABLE scenario

Scenarios ==
    {[intents |-> {i1, i2}, ops |-> 0, toggles |-> 1, crashes |-> 2],
     [intents |-> {i1, i3}, ops |-> 2, toggles |-> 1, crashes |-> 1]}

ScenarioInit == Init /\ scenario \in Scenarios

Within ==
    /\ UNCHANGED scenario
    /\ ops' <= scenario.ops
    /\ toggles' <= scenario.toggles
    /\ crashes' <= scenario.crashes

TakesPart(i) == i \in scenario.intents /\ Within

ScenarioNext ==
    \/ \E i \in Intents :
          \/ DispatchCheck(i) /\ TakesPart(i)
          \/ DispatchInsert(i) /\ TakesPart(i)
          \/ DispatchPublish(i) /\ TakesPart(i)
          \/ DispatchCommit(i) /\ TakesPart(i)
          \/ DispatchCrash(i) /\ TakesPart(i)
          \/ RecoveryRead(i) /\ TakesPart(i)
    \/ \E w \in Workers :
          \/ ReleaseRead(w) /\ Within
          \/ ReleaseTrim(w) /\ Within
          \/ ReleaseDue(w) /\ Within
          \/ ReleaseDefer(w) /\ Within
          \/ ReleaseDeferred(w) /\ Within
          \/ Consume(w) /\ Within
          \/ CheckProcessed(w) /\ Within
          \/ LoadIntent(w) /\ Within
          \/ ExecuteOrder(w) /\ Within
          \/ ExecuteFault(w) /\ Within
          \/ CommitOrder(w) /\ Within
          \/ MarkProcessed(w) /\ Within
          \/ Ack(w) /\ Within
          \/ FailAck(w) /\ Within
          \/ FailEnqueue(w) /\ Within
          \/ FailRecord(w) /\ Within
          \/ WorkerCrash(w) /\ Within
    \/ \E e \in Events :
          \/ QuarantineReplay(e) /\ Within
          \/ QuarantineClose(e) /\ Within
          \/ RowAction(e) /\ Within
          \/ RecoveryLoop(e) /\ Within
    \/ QuarantineReplayCommit /\ Within
    \/ RecoveryFinalize /\ Within
    \/ ToggleGate /\ Within

ScenarioSpec == ScenarioInit /\ [][ScenarioNext]_<<vars, scenario>>
=============================================================================
