----------------------- MODULE MCIncidentRemediation -----------------------
(* The instance of IncidentRemediation for TLC. *)
EXTENDS IncidentRemediation

CONSTANTS x, y, x1, y1

RowsOfTwo == [i \in Incidents |-> IF i = y1 THEN y ELSE x]

Block == [action |-> "block_trading", auto |-> TRUE, cooldown |-> 1]
Reduce == [action |-> "reduce_leverage", auto |-> TRUE, cooldown |-> 1]
NoPolicy == [action |-> "restart_worker", auto |-> FALSE, cooldown |-> 0]
ThreePolicies == {Block, Reduce, NoPolicy}

\* One automatic incident; a request may make the other automatic too.
OneAutomatic == {[i \in Incidents |-> IF i = y1 THEN NoPolicy ELSE p] :
                   p \in {Block, Reduce}}
=============================================================================
