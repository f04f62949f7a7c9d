--------------------------- MODULE ExportScheduler ---------------------------
(***************************************************************************)
(* The commercial export scheduler,                                        *)
(* services/commercial_export_scheduler_service.py: every server process   *)
(* runs a loop that, behind a Redis lock, recovers stale schedules, claims *)
(* the schedules that are due and delivers one export for each schedule    *)
(* and execution window.                                                   *)
(*                                                                         *)
(* One step is what a cycle does between two commits.  A schedule's fields *)
(* assigned after the last commit of a cycle live in the session only:     *)
(* they reach the row with the next commit of the session, if there is     *)
(* one, and db.close() rolls them back otherwise (autoflush is off).       *)
(*                                                                         *)
(* The advisory lock belongs to a pooled connection.  A commit returns the *)
(* connection, so the unlock may run on another one and leave the lock     *)
(* with the pool of the process, and the pool may close the connection     *)
(* (pool_recycle, max_overflow) while the cycle that took the lock is      *)
(* still at work.  A pooler in front of the database that hands one server *)
(* connection to two processes loses the lock in the same way.             *)
(*                                                                         *)
(* The periods weekly and monthly differ from daily in length only; a user *)
(* row is never missing (a foreign key holds it), so that branch is left   *)
(* out.  Time counts ticks; only the order of the delays matters.          *)
(***************************************************************************)
EXTENDS Integers, FiniteSets, FiniteSetsExt

CONSTANTS
    Procs,          \* server processes, each with one scheduler loop
    Schedules,      \* rows of commercial_export_schedules
    Free,           \* nobody holds the advisory lock
    NoSchedule,     \* the cycle works on no schedule
    Period,         \* length of schedule_period and of its window
    ClaimTTL,       \* claim_expires_at - now
    StaleAfter,     \* stale_minutes
    LockTTL,        \* expiry of the Redis lock
    ConfiguredRetry,\* max_retry as the schedule was created with it
    MaxTime,        \* bound: the clock stops here
    MaxCrashes,     \* bound: process crashes
    MaxFailures,    \* bound: exports that raise
    MaxLost         \* bound: locks lost by cycles at work, in each window

ASSUME SchedulerConstants ==
    /\ Free \notin Procs /\ NoSchedule \notin Schedules
    /\ Period \in Nat \ {0}
    /\ {ClaimTTL, StaleAfter, LockTTL, MaxTime, MaxCrashes, MaxFailures,
        MaxLost} \subseteq Nat
    /\ IsFiniteSet(Procs)
    /\ 0 < LockTTL /\ LockTTL <= ClaimTTL /\ ClaimTTL < StaleAfter
    /\ ConfiguredRetry \in 0 .. 10

VARIABLES
    clock,          \* wall clock of every process
    row,            \* [Schedules -> ScheduleRow]
    manifest,       \* [Schedules -> [Windows -> manifest with that key]]
    redis,          \* when the Redis lock expires, NoTime when it is free
    advisory,       \* [Schedules -> [Windows -> Procs or Free]]
    cycle,          \* [Procs -> Cycle]: where each loop is
    crashes,        \* bounded by MaxCrashes
    failures,       \* history: [Schedules -> Nat], exports that raised
    delivered,      \* history: [Schedules -> [Windows -> Nat]], deliveries
    lost            \* history: [Schedules -> [Windows -> Nat]], locks lost

vars == <<clock, row, manifest, redis, advisory, cycle, crashes, failures,
          delivered, lost>>

NoTime == -1

Times == 0 .. MaxTime
Windows == 0 .. MaxTime \div Period

ScheduleRow ==
    [active : BOOLEAN,
     status : {"pending", "due", "running", "success", "failed", "disabled"},
     lastRun : Times \cup {NoTime}, started : Times \cup {NoTime},
     claim : Int, retries : Nat, nextRetry : Int,
     window : Windows \cup {NoTime}]

\* at is the cycle's now, todo the schedules still to visit, on the one it
\* works on, retries its loaded copy of retry_count, unsaved the schedules
\* whose success is assigned but not committed.
Cycle == [pc : {"idle", "lock", "recover", "scan", "claim", "run", "lookup",
                "reuse", "key", "export", "failed", "ended"},
          at : Times, todo : SUBSET Schedules,
          on : Schedules \cup {NoSchedule}, retries : Nat,
          unsaved : SUBSET Schedules]

Idle == [pc |-> "idle", at |-> 0, todo |-> {}, on |-> NoSchedule,
         retries |-> 0, unsaved |-> {}]

NewSchedule ==
    [active |-> TRUE, status |-> "pending", lastRun |-> NoTime,
     started |-> NoTime, claim |-> NoTime, retries |-> 0,
     nextRetry |-> NoTime, window |-> NoTime]

\* int(max_retry or 3): zero means three.
MaxRetry == IF ConfiguredRetry = 0 THEN 3 ELSE ConfiguredRetry

\* What Disable has left of a schedule before this process was started.
SwitchedOff == [NewSchedule EXCEPT !.active = FALSE, !.status = "disabled",
                                   !.retries = MaxRetry + 1]

Init ==
    /\ clock = 0
    /\ row \in [Schedules -> {NewSchedule, SwitchedOff}]
    /\ manifest = [s \in Schedules |-> [w \in Windows |-> "none"]]
    /\ redis = NoTime
    /\ advisory = [s \in Schedules |-> [w \in Windows |-> Free]]
    /\ cycle = [p \in Procs |-> Idle]
    /\ crashes = 0
    /\ failures = [s \in Schedules |-> 0]
    /\ delivered = [s \in Schedules |-> [w \in Windows |-> 0]]
    /\ lost = [s \in Schedules |-> [w \in Windows |-> 0]]

-----------------------------------------------------------------------------

Backoff(retries, cap) == Min({cap, 2 ^ Max({1, retries})})

ExecutionWindow(at) == at \div Period

IsDue(r, at) ==
    /\ r.active
    /\ r.nextRetry = NoTime \/ r.nextRetry <= at
    /\ r.lastRun = NoTime \/ at - r.lastRun >= Period

Claimable(r, at) == r.claim = NoTime \/ r.claim <= at

IsStale(r, at) ==
    /\ r.status = "running"
    /\ \/ r.claim # NoTime /\ r.claim <= at
       \/ r.started # NoTime /\ at - r.started >= StaleAfter

\* Faulty: the recovery writes a status no other code knows.
RecoveredAsStale(r, at) ==
    [r EXCEPT !.status = "stale", !.claim = NoTime, !.started = NoTime]

Recovered(r, at) ==
    [r EXCEPT !.status = "failed", !.claim = NoTime, !.started = NoTime,
              !.retries = @ + 1,
              !.nextRetry = at + Backoff(r.retries + 1, 30)]

\* What the cycle of p assigns to a schedule whose export was delivered.
Succeeded(r, p) ==
    [r EXCEPT !.lastRun = cycle[p].at, !.status = "success", !.retries = 0,
              !.nextRetry = NoTime, !.window = ExecutionWindow(cycle[p].at),
              !.claim = NoTime, !.started = NoTime]

\* The rows once the session of p has committed what it holds unsaved.
Saved(p) ==
    [s \in Schedules |->
        IF s \in cycle[p].unsaved THEN Succeeded(row[s], p) ELSE row[s]]

Commit(p, s, r) == row' = [Saved(p) EXCEPT ![s] = r]

Window(p) == ExecutionWindow(cycle[p].at)
KeyedManifest(p) == manifest[cycle[p].on][Window(p)]
SetManifest(p, m) ==
    manifest' = [manifest EXCEPT ![cycle[p].on][Window(p)] = m]

Goto(p, pc) == cycle' = [cycle EXCEPT ![p].pc = pc]
Committed(p, pc) ==
    cycle' = [cycle EXCEPT ![p].pc = pc, ![p].unsaved = {}]

\* The cycle of p is done with its schedule; its session holds unsaved.
NextSchedule(p, unsaved) ==
    cycle' = [cycle EXCEPT ![p].pc = "scan", ![p].on = NoSchedule,
                           ![p].todo = @ \ {cycle[p].on},
                           ![p].retries = 0, ![p].unsaved = unsaved]

\* The unlock finds the lock on its connection, or leaves it with the pool; a
\* lock that is another's by now is not its to free.
Unlock(p) ==
    \/ /\ advisory[cycle[p].on][Window(p)] = p
       /\ advisory' = [advisory EXCEPT ![cycle[p].on][Window(p)] = Free]
    \/ UNCHANGED advisory

-----------------------------------------------------------------------------

\* GET of the lock key finds nothing.
ReadLock(p) ==
    /\ cycle[p].pc = "idle" /\ redis = NoTime
    /\ Goto(p, "lock")
    /\ UNCHANGED <<clock, row, manifest, redis, advisory, crashes, failures,
                   delivered, lost>>

\* SET and EXPIRE of the lock key, whoever has set it meanwhile.
SetLock(p) ==
    /\ cycle[p].pc = "lock"
    /\ redis' = clock + LockTTL
    /\ Goto(p, "recover")
    /\ UNCHANGED <<clock, row, manifest, advisory, crashes, failures,
                   delivered, lost>>

Recover(p) ==
    /\ cycle[p].pc = "recover"
    /\ row' = [s \in Schedules |-> IF IsStale(row[s], clock)
                                    THEN Recovered(row[s], clock) ELSE row[s]]
    /\ cycle' = [cycle EXCEPT ![p].pc = "scan", ![p].at = clock,
                     ![p].todo = {s \in Schedules : row[s].active}]
    /\ UNCHANGED <<clock, manifest, redis, advisory, crashes, failures,
                   delivered, lost>>

\* The schedule was already handled in this window.
Handled(r, window) ==
    r.window = window /\ r.status \in {"success", "running", "due"}

\* A cycle reads the row of a schedule and decides whether to work on it.
Visit(p, s) ==
    /\ cycle[p].pc = "scan" /\ s \in cycle[p].todo
    /\ LET go == /\ Claimable(row[s], cycle[p].at)
                 /\ IsDue(row[s], cycle[p].at)
                 /\ ~Handled(row[s], Window(p))
       IN cycle' = IF go
                   THEN [cycle EXCEPT ![p].pc = "claim", ![p].on = s,
                                      ![p].retries = row[s].retries]
                   ELSE [cycle EXCEPT ![p].todo = @ \ {s}]
    /\ UNCHANGED <<clock, row, manifest, redis, advisory, crashes, failures,
                   delivered, lost>>

\* Faulty: the cycle goes on whoever holds the advisory lock.
TryWindowLockIgnored(p) ==
    advisory' = [advisory EXCEPT ![cycle[p].on][Window(p)] = p]

TryWindowLock(p) ==
    /\ advisory[cycle[p].on][Window(p)] \in {Free, p}
    /\ advisory' = [advisory EXCEPT ![cycle[p].on][Window(p)] = p]

\* The lock is held by another connection, of this pool or another's.
SkipLocked(p) ==
    /\ cycle[p].pc = "claim"
    /\ advisory[cycle[p].on][Window(p)] # Free
    /\ NextSchedule(p, cycle[p].unsaved)
    /\ UNCHANGED <<clock, row, manifest, redis, advisory, crashes, failures,
                   delivered, lost>>

\* More retries than max_retry: the schedule is switched off.
Disable(p) ==
    /\ cycle[p].pc = "claim" /\ cycle[p].retries > MaxRetry
    /\ advisory[cycle[p].on][Window(p)] \in {Free, p}
    /\ Commit(p, cycle[p].on, [Saved(p)[cycle[p].on] EXCEPT
                                  !.status = "disabled", !.active = FALSE])
    /\ \/ advisory' = [advisory EXCEPT ![cycle[p].on][Window(p)] = Free]
       \/ advisory' = [advisory EXCEPT ![cycle[p].on][Window(p)] = p]
    /\ NextSchedule(p, {})
    /\ UNCHANGED <<clock, manifest, redis, crashes, failures, delivered, lost>>

\* The condition of the claim's UPDATE, on the row as it is now.
ClaimHolds(p) ==
    LET r == Saved(p)[cycle[p].on]
    IN r.active /\ Claimable(r, cycle[p].at)

Claim(p) ==
    /\ cycle[p].pc = "claim" /\ cycle[p].retries <= MaxRetry
    /\ ClaimHolds(p)
    /\ TryWindowLock(p)
    /\ Commit(p, cycle[p].on, [Saved(p)[cycle[p].on] EXCEPT
                 !.claim = cycle[p].at + ClaimTTL, !.status = "due"])
    /\ Committed(p, "run")
    /\ UNCHANGED <<clock, manifest, redis, crashes, failures, delivered, lost>>

LoseClaim(p) ==
    /\ cycle[p].pc = "claim" /\ cycle[p].retries <= MaxRetry
    /\ ~ClaimHolds(p)
    /\ advisory[cycle[p].on][Window(p)] \in {Free, p}
    /\ row' = Saved(p)
    /\ \/ advisory' = [advisory EXCEPT ![cycle[p].on][Window(p)] = Free]
       \/ advisory' = [advisory EXCEPT ![cycle[p].on][Window(p)] = p]
    /\ NextSchedule(p, {})
    /\ UNCHANGED <<clock, manifest, redis, crashes, failures, delivered, lost>>

Run(p) ==
    /\ cycle[p].pc = "run"
    /\ Commit(p, cycle[p].on, [row[cycle[p].on] EXCEPT
                 !.status = "running", !.started = cycle[p].at])
    /\ cycle' = [cycle EXCEPT ![p].pc = "lookup",
                              ![p].retries = row[cycle[p].on].retries]
    /\ UNCHANGED <<clock, manifest, redis, advisory, crashes, failures,
                   delivered, lost>>

\* Faulty: a failed manifest is taken for a finished export, too.
FailedCountsAsDone == {"running", "delivered", "failed"}

\* Manifests under the key that the cycle takes for a finished export.
CountsAsDone == {"running", "delivered"}

\* A manifest for this window exists: the schedule is done with it.
AlreadyExported(p) ==
    /\ cycle[p].pc = "lookup" /\ KeyedManifest(p) \in CountsAsDone
    /\ Commit(p, cycle[p].on, [row[cycle[p].on] EXCEPT
                 !.lastRun = cycle[p].at, !.status = "success",
                 !.window = Window(p), !.claim = NoTime, !.started = NoTime])
    /\ Unlock(p)
    /\ NextSchedule(p, {})
    /\ UNCHANGED <<clock, manifest, redis, crashes, failures, delivered, lost>>

\* The failed manifest of this window is found, to be taken up again.
FindFailed(p) ==
    /\ cycle[p].pc = "lookup" /\ KeyedManifest(p) = "failed"
    /\ Goto(p, "reuse")
    /\ UNCHANGED <<clock, row, manifest, redis, advisory, crashes, failures,
                   delivered, lost>>

\* Its running state is committed, whatever another cycle has made of it.
ReuseManifest(p) ==
    /\ cycle[p].pc = "reuse"
    /\ SetManifest(p, "running")
    /\ Goto(p, "export")
    /\ UNCHANGED <<clock, row, redis, advisory, crashes, failures, delivered,
                   lost>>

\* A manifest is inserted and committed, without its key.
CreateManifest(p) ==
    /\ cycle[p].pc = "lookup" /\ KeyedManifest(p) = "none"
    /\ Goto(p, "key")
    /\ UNCHANGED <<clock, row, manifest, redis, advisory, crashes, failures,
                   delivered, lost>>

\* The key and the running state are committed.
SetKey(p) ==
    /\ cycle[p].pc = "key" /\ KeyedManifest(p) = "none"
    /\ SetManifest(p, "running")
    /\ Goto(p, "export")
    /\ UNCHANGED <<clock, row, redis, advisory, crashes, failures, delivered,
                   lost>>

\* The unique index refuses a second manifest with the key.  The session is
\* of no use after the failed flush, so the handler raises as well: the loop
\* ends, and its process holds on to the lock.
KeyRefused(p) ==
    /\ cycle[p].pc = "key" /\ KeyedManifest(p) # "none"
    /\ redis' = NoTime
    /\ cycle' = [cycle EXCEPT ![p] = [Idle EXCEPT !.pc = "ended"]]
    /\ UNCHANGED <<clock, row, manifest, advisory, crashes, failures, delivered,
                   lost>>

\* The artifact is stored, then the manifest committed; the schedule's
\* fields are assigned after that commit.
Deliver(p) ==
    /\ cycle[p].pc = "export"
    /\ SetManifest(p, "delivered")
    /\ delivered' = [delivered EXCEPT ![cycle[p].on][Window(p)] = @ + 1]
    /\ Unlock(p)
    /\ NextSchedule(p, {cycle[p].on})
    /\ UNCHANGED <<clock, row, redis, crashes, failures, lost>>

\* The payload, the storage or the manifest's creation raises.
ExportFails(p) ==
    /\ cycle[p].pc \in {"lookup", "export"}
    /\ cycle[p].pc = "lookup" => KeyedManifest(p) = "none"
    /\ failures[cycle[p].on] < MaxFailures
    /\ failures' = [failures EXCEPT ![cycle[p].on] = @ + 1]
    /\ IF cycle[p].pc = "export" THEN SetManifest(p, "failed")
                                 ELSE UNCHANGED manifest
    /\ cycle' = [cycle EXCEPT ![p].pc = "failed",
                     ![p].retries = IF cycle[p].pc = "export"
                                    THEN row[cycle[p].on].retries ELSE @]
    /\ UNCHANGED <<clock, row, redis, advisory, crashes, delivered, lost>>

FailSchedule(p) ==
    /\ cycle[p].pc = "failed"
    /\ LET r == row[cycle[p].on]
           n == cycle[p].retries + 1
           spent == n > MaxRetry
       IN Commit(p, cycle[p].on,
             [r EXCEPT !.lastRun = cycle[p].at, !.retries = n,
                       !.status = IF spent THEN "disabled" ELSE "failed",
                       !.active = @ /\ ~spent,
                       !.nextRetry = IF spent THEN @
                                     ELSE cycle[p].at + Backoff(n, 60),
                       !.claim = NoTime, !.started = NoTime])
    /\ Unlock(p)
    /\ NextSchedule(p, {})
    /\ UNCHANGED <<clock, manifest, redis, crashes, failures, delivered, lost>>

\* cleanup_expired_export_artifacts commits when it finds a row to clean;
\* db.close() rolls back what is left, and the lock key is deleted.
EndCycle(p) ==
    /\ cycle[p].pc = "scan" /\ cycle[p].todo = {}
    /\ row' \in {row, Saved(p)}
    /\ redis' = NoTime
    /\ cycle' = [cycle EXCEPT ![p] = Idle]
    /\ UNCHANGED <<clock, manifest, advisory, crashes, failures, delivered,
                   lost>>

Crash(p) ==
    /\ crashes < MaxCrashes /\ cycle[p].pc # "idle"
    /\ crashes' = crashes + 1
    /\ cycle' = [cycle EXCEPT ![p] = Idle]
    /\ advisory' = [s \in Schedules |-> [w \in Windows |->
           IF advisory[s][w] = p THEN Free ELSE advisory[s][w]]]
    /\ UNCHANGED <<clock, row, manifest, redis, failures, delivered, lost>>

\* From its claim to the end of its export a cycle needs the lock.
NeedsLock(p, s, w) ==
    /\ cycle[p].pc \in {"run", "lookup", "reuse", "key", "export"}
    /\ cycle[p].on = s /\ Window(p) = w

\* The pool of p closes the connection that holds a lock, which frees it.
ConnectionClosed(p, s, w) ==
    /\ advisory[s][w] = p
    /\ advisory' = [advisory EXCEPT ![s][w] = Free]
    /\ IF NeedsLock(p, s, w)
       THEN lost[s][w] < MaxLost /\ lost' = [lost EXCEPT ![s][w] = @ + 1]
       ELSE UNCHANGED lost
    /\ UNCHANGED <<clock, row, manifest, redis, cycle, crashes, failures,
                   delivered>>

Tick ==
    /\ clock < MaxTime
    /\ clock' = clock + 1
    /\ redis' = IF redis # NoTime /\ redis <= clock' THEN NoTime ELSE redis
    /\ UNCHANGED <<row, manifest, advisory, cycle, crashes, failures,
                   delivered, lost>>

Next ==
    \/ Tick
    \/ \E p \in Procs :
          \/ ReadLock(p) \/ SetLock(p) \/ Recover(p)
          \/ \E s \in Schedules : Visit(p, s)
          \/ SkipLocked(p) \/ Disable(p) \/ Claim(p) \/ LoseClaim(p)
          \/ Run(p) \/ AlreadyExported(p)
          \/ FindFailed(p) \/ ReuseManifest(p)
          \/ CreateManifest(p) \/ SetKey(p) \/ KeyRefused(p) \/ Deliver(p)
          \/ ExportFails(p) \/ FailSchedule(p) \/ EndCycle(p)
          \/ Crash(p)
          \/ \E s \in Schedules, w \in Windows : ConnectionClosed(p, s, w)

Spec == Init /\ [][Next]_vars

-----------------------------------------------------------------------------

TypeOK ==
    /\ clock \in Times /\ redis \in Times \cup (MaxTime .. MaxTime + LockTTL)
                                          \cup {NoTime}
    /\ row \in [Schedules -> ScheduleRow]
    /\ manifest \in [Schedules ->
          [Windows -> {"none", "running", "failed", "delivered"}]]
    /\ advisory \in [Schedules -> [Windows -> Procs \cup {Free}]]
    /\ cycle \in [Procs -> Cycle]
    /\ crashes \in 0 .. MaxCrashes
    /\ failures \in [Schedules -> 0 .. MaxFailures]
    /\ delivered \in [Schedules -> [Windows -> Nat]]
    /\ lost \in [Schedules -> [Windows -> 0 .. MaxLost]]

\* A schedule is delivered at most once for each execution window, and once
\* more for each cycle that loses its window lock with its connection, whatever
\* cycles overlap, crash and retry: the advisory lock and the manifest found
\* under its key (run_commercial_export_scheduler_cycle) let no other delivery
\* through.
OneDeliveryPerWindow ==
    \A s \in Schedules, w \in Windows : delivered[s][w] <= 1 + lost[s][w]

\* As long as no process has died, a schedule that reports success for a
\* window has a delivered manifest for that window, unless a cycle has lost the
\* lock of that window: the status never runs ahead of the export, also when
\* two cycles overlap.
SuccessHasArtifact ==
    crashes = 0 =>
        \A s \in Schedules :
            row[s].status = "success" =>
               \/ manifest[s][row[s].window] = "delivered"
               \/ lost[s][row[s].window] > 0

\* A schedule is switched off only after one of its exports has failed.
HealthyStaysEnabled ==
    \A s \in Schedules : ~row[s].active => failures[s] > 0

=============================================================================
