------------------------- MODULE MCExecutionSafety -------------------------
(* The scenarios of the gate's safety run: one lane with limits that are   *)
(* raised and lowered, a canary configuration, and two lanes that race     *)
(* past the gate while the risk orchestrator may pull the switch.          *)
EXTENDS ExecutionSafety

CONSTANTS r1, r2, r3, u1, u2, u3, o, a, b, btc, eth

\* A runtime quantity above the notional proposed for it (r1), a user's
\* notional the precheck shrinks (u2), and positions worth more and less than
\* their rows (u2, u1).
AskedSizes == [i \in Intents |-> IF i \in {r2, u1, u2} THEN 2 ELSE 1]
BookedSizes == [i \in Intents |-> IF i \in {r1, r2, u1} THEN 2 ELSE 1]
Worths == [p \in Positions |-> IF p \in {u2, o} THEN 2 ELSE 1]
TwoSymbols == [i \in Intents \cup Outside |-> IF i \in {r3, u3} THEN eth ELSE btc]

Tight == [exposure |-> 3, positions |-> 2]
Narrow == [exposure |-> 2, positions |-> 0]
Raised == [exposure |-> 5, positions |-> 4]
Unlimited == [exposure |-> 0, positions |-> 0]
InitialLimits == {Tight, Narrow, Unlimited}
RequestedLimits == {Raised, Tight}
OrchestratorKill == {Unlimited}

NoCanary == [enabled |-> FALSE, symbols |-> {}, positions |-> 0, capital |-> 0]
CanaryBtc == [enabled |-> TRUE, symbols |-> {btc}, positions |-> 2,
              capital |-> 1]
BothCanaries == {NoCanary, CanaryBtc}

VARIABLE scenario

OneLane == [lanes |-> {a}, intents |-> {r1, r2, u1, u2},
            limits |-> {Tight, Raised}, canary |-> NoCanary]
CanaryLane == [lanes |-> {a}, intents |-> {r3, u1, u2, u3},
               limits |-> {Unlimited}, canary |-> CanaryBtc]
TwoLanes == [lanes |-> {a, b}, intents |-> {r1, r2, u1},
             limits |-> {Narrow, Unlimited}, canary |-> NoCanary]

\* Limits of the other scenarios are neither asked for nor written.
OtherLimits == (Limits \cup LimitRequests \cup KillContexts) \ scenario.limits

ScenarioInit ==
    /\ Init
    /\ scenario \in {OneLane, CanaryLane, TwoLanes}
    /\ LimitsOf(config) \in scenario.limits
    /\ config.canary = scenario.canary

Act == \/ \E l \in scenario.lanes, r \in RIntents \cap scenario.intents :
             RuntimeStep(l, r)
       \/ \E l \in scenario.lanes, u \in UIntents \cap scenario.intents :
             UserStep(l, u)
       \/ \E l \in scenario.lanes : LaneFails(l)
       \/ \E u \in UIntents \cap scenario.intents : Cancel(u) \/ Requeue(u)
       \/ \E p \in Positions : ClosePosition(p)
       \/ \E p \in Outside : UngatedStep(p)
       \/ SetKillSwitch \/ ControlKill \/ EmergencyStop

ScenarioNext ==
    /\ UNCHANGED scenario
    /\ Act
    /\ LimitsOf(config') \notin OtherLimits

ScenarioSpec == ScenarioInit /\ [][ScenarioNext]_<<vars, scenario>>
=============================================================================
