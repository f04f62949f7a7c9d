------------------------- MODULE MCExecutionEngine -------------------------
(* Constant values for the runs of ExecutionEngine. *)
EXTENDS ExecutionEngine

CONSTANTS j1, j2, j3, k1, k2, u1, w1

\* j1 and j3 are two submissions with one key.
MCKeys == {k1, k2}
MCKeyOf == [j \in Jobs |-> IF j \in {j1, j3} THEN k1 ELSE k2]
MCUserOf == [j \in Jobs |-> u1]
MCSizeOf == [j \in Jobs |-> 1]

\* One worker, while no process dies, nobody reconciles and the venue stays
\* open: a retry that meets a closed venue is dropped for good.
AloneNext ==
    \/ \E j \in Jobs : \/ InsertJob(j) \/ RejectAudit(j) \/ RejectJob(j)
                      \/ PushPayload(j) \/ CommitEnqueue(j)
    \/ \E p \in Procs : \/ Consume(p) \/ ConsumeIgnored(p)
                       \/ ConsumeDeferred(p)
                       \/ Request(p) \/ LatencyAlert(p) \/ ApplyResult(p)
                       \/ CommitResult(p) \/ AfterCommit(p)
                       \/ AfterCommitRaises(p) \/ HandleFailure(p)
                       \/ Requeue(p) \/ CloseFailed(p)
    \/ \E e \in 1..Len(exch), s \in Reported : ExchangeProgress(e, s)
    \/ ActivateKillSwitch \/ DeactivateKillSwitch

AloneFairSpec == Init /\ [][AloneNext]_vars /\ Fairness
=============================================================================
