------------------------- MODULE MCRuntimeEventBus -------------------------
(* Constant values for the runs of RuntimeEventBus. *)
EXTENDS RuntimeEventBus

CONSTANTS i1, i3, h1, h2

\* i1 and i3 are two dispatches of one decision.
MCHashOf == [i \in Intents |-> IF i \in {i1, i3} THEN h1 ELSE h2]

\* No process dies, the gate stays open, and operators replay events.
AloneNext ==
    \/ \E i \in Intents : Dispatch(i) \/ RecoveryRead(i)
    \/ \E w \in Workers : WorkerStep(w)
    \/ \E e \in Events : QuarantineReplay(e) \/ QuarantineClose(e)
                         \/ RecoveryLoop(e)
    \/ QuarantineReplayCommit \/ RecoveryReplay

AloneFairSpec == Init /\ [][AloneNext]_vars /\ Fairness
=============================================================================
