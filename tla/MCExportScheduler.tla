------------------------- MODULE MCExportScheduler -------------------------
(* Schedules that are all new. *)
EXTENDS ExportScheduler

FreshSpec == Init /\ (\A s \in Schedules : row[s].active) /\ [][Next]_vars
=============================================================================
