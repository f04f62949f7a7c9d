------------------------- MODULE MCExecutionIntents -------------------------
(* Constant values for the runs of ExecutionIntents. *)
EXTENDS ExecutionIntents, TLC

CONSTANTS k1, k2, k3, k4, k5, k6

\* A payload that opens a position, and every action on a position.
MCActions == k1 :> "OPEN_POSITION" @@ k2 :> "PARTIAL_CLOSE"
             @@ k3 :> "REVERSE_POSITION" @@ k4 :> "MOVE_STOP"
             @@ k5 :> "CLOSE_POSITION" @@ k6 :> "PARTIAL_CLOSE"
=============================================================================
