------------------------- MODULE MCExportScenarios -------------------------
(* The scenarios of the scheduler's safety run: two processes whose cycles *)
(* overlap over one schedule, with a crash or with connections that close, *)
(* and one process with two schedules for several windows.                 *)
EXTENDS MCExportScheduler, TLC

CONSTANTS p1, p2, s1, s2

VARIABLE scenario

Swaps == Permutations(Procs) \cup Permutations(Schedules)

Overlap == [procs |-> {p1, p2}, schedules |-> {s1}, time |-> 5,
            crashes |-> 1, failures |-> 1, lost |-> 0]
Unlocked == [procs |-> {p1, p2}, schedules |-> {s1}, time |-> 4,
             crashes |-> 1, failures |-> 1, lost |-> 1]
Steady == [procs |-> {p1}, schedules |-> {s1, s2}, time |-> MaxTime,
           crashes |-> 0, failures |-> 0, lost |-> 0]

ScenarioInit ==
    /\ Init
    /\ scenario \in {Overlap, Unlocked, Steady}
    /\ scenario.schedules = {s \in Schedules : row[s].active}

Act ==
    \/ Tick
    \/ \E p \in scenario.procs :
          \/ ReadLock(p) \/ SetLock(p) \/ Recover(p)
          \/ \E s \in Schedules : Visit(p, s)
          \/ SkipLocked(p) \/ Disable(p) \/ Claim(p) \/ LoseClaim(p)
          \/ Run(p) \/ AlreadyExported(p)
          \/ FindFailed(p) \/ ReuseManifest(p)
          \/ CreateManifest(p) \/ SetKey(p) \/ KeyRefused(p) \/ Deliver(p)
          \/ ExportFails(p) \/ FailSchedule(p) \/ EndCycle(p)
          \/ Crash(p)
          \/ /\ scenario.lost > 0
             /\ \E s \in Schedules, w \in Windows : ConnectionClosed(p, s, w)

ScenarioNext ==
    /\ UNCHANGED scenario
    /\ Act
    /\ clock' <= scenario.time
    /\ crashes' <= scenario.crashes
    /\ \A s \in Schedules : failures'[s] <= scenario.failures
    /\ \A s \in Schedules, w \in Windows : lost'[s][w] <= scenario.lost

ScenarioSpec == ScenarioInit /\ [][ScenarioNext]_<<vars, scenario>>

=============================================================================
