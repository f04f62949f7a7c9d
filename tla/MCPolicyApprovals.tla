------------------------ MODULE MCPolicyApprovals ------------------------
EXTENDS PolicyApprovals, TLC

CONSTANTS c1, c2, OverlappingCalls

CallSymmetry == Permutations(Calls)

\* A super administrator s, an administrator a, an operator o.
RoleOf == [x \in Actors |-> CASE x = "s" -> "super_admin" [] x = "a" -> "admin" [] OTHER -> "ops"]

\* Two requests for one critical simulation and one for a harmless one.
ClassOf == [x \in Sims |-> IF x = "risky" THEN "CRITICAL" ELSE "WARNING"]
SimOfKey == [k \in Keys |-> IF k = "plain" THEN "mild" ELSE "risky"]
Requester == [k \in Keys |-> IF k = "first" THEN "a" ELSE "s"]

\* Calls that overlap are all about the first request; calls one after the
\* other are about all three, and are more.
ScenarioNext ==
    /\ Next
    /\ IF overlap
       THEN /\ \A h \in Calls : call'[h].pc # "idle" => call'[h].key = "first"
            /\ baseline'["mild"] = 0
            /\ started' <= OverlappingCalls
       ELSE deactivated' = 0 /\ crashes' = 0

ScenarioSpec == Init /\ [][ScenarioNext]_vars
=============================================================================
