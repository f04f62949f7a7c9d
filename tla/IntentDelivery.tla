--------------------------- MODULE IntentDelivery ---------------------------
(***************************************************************************)
(* What the runtime event bus promises about an execution intent, with no  *)
(* queues, workers or retries: once its row is committed the intent is     *)
(* waiting for execution, and it stays so until it has exactly one final   *)
(* row or an operator has to look at it.  A parked intent is in the        *)
(* quarantine; an operator may put it back.  A final row is never followed *)
(* by a second one.                                                        *)
(***************************************************************************)
EXTENDS Naturals

CONSTANTS
    Intents,    \* execution_intents.intent_id
    FinalRows   \* what an execution.order.finalized row may say

VARIABLES
    stage,      \* [Intents -> Stages]
    finals      \* [Intents -> [FinalRows -> Nat]]: how many of each final row

vars == <<stage, finals>>

Stages == {"none", "pending", "parked", "final"}

NoRows == [r \in FinalRows |-> 0]
Once(row) == [r \in FinalRows |-> IF r = row THEN 1 ELSE 0]

Init ==
    /\ stage = [i \in Intents |-> "none"]
    /\ finals = [i \in Intents |-> NoRows]

\* The intent's row is committed.  Its event is published before that, so it
\* may already have been consumed, found no row, and gone to the quarantine.
Record(i) ==
    /\ stage[i] = "none"
    /\ \E s \in {"pending", "parked"} : stage' = [stage EXCEPT ![i] = s]
    /\ UNCHANGED finals

Finish(i) ==
    /\ stage[i] \in {"pending", "parked"}
    /\ stage' = [stage EXCEPT ![i] = "final"]
    /\ \E row \in FinalRows : finals' = [finals EXCEPT ![i] = Once(row)]

Park(i) ==
    /\ stage[i] = "pending"
    /\ stage' = [stage EXCEPT ![i] = "parked"]
    /\ UNCHANGED finals

Unpark(i) ==
    /\ stage[i] = "parked"
    /\ stage' = [stage EXCEPT ![i] = "pending"]
    /\ UNCHANGED finals

Next == \E i \in Intents : Record(i) \/ Finish(i) \/ Park(i) \/ Unpark(i)

\* A pending intent does not wait for ever; a parked one waits for an operator.
Settle(i) == stage[i] = "pending" /\ (Finish(i) \/ Park(i))
Fairness == \A i \in Intents : WF_vars(Settle(i))

\* What must never happen, apart from what must.
Safe == Init /\ [][Next]_vars

Spec == Safe /\ Fairness
=============================================================================
