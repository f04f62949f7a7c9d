------------------------- MODULE MCIntentScenarios -------------------------
(* The scenarios of the intents' safety run: one client with every payload *)
(* and every route, and three clients that race on one payload.            *)
EXTENDS MCExecutionIntents

CONSTANTS i1, i2, i3, i4, r1, r2, r3

VARIABLE scenario

Alone == [clients |-> {r1}, keys |-> Keys, rows |-> Rows]
Racing == [clients |-> {r1, r2, r3}, keys |-> {k1}, rows |-> {i1, i2, i3}]

ScenarioInit == Init /\ scenario \in {Alone, Racing}

Act == \E r \in scenario.clients :
    \/ \E k \in scenario.keys : PreviewRead(r, k)
    \/ PreviewWrite(r)
    \/ Submit(r)
    \/ \E i \in Rows : CancelRead(r, i)
    \/ CancelWrite(r)
    \/ Fail(r)

ScenarioNext ==
    /\ UNCHANGED scenario
    /\ Act
    /\ \A i \in Rows \ scenario.rows : intent'[i] = intent[i]

ScenarioSpec == ScenarioInit /\ [][ScenarioNext]_<<vars, scenario>>

=============================================================================
