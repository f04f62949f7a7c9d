----------------------- MODULE ExportSchedulerProofs -----------------------
(***************************************************************************)
(* Safety of ExportScheduler for every set of processes and schedules,     *)
(* every period and delay, and any number of crashes, failures and locks   *)
(* lost with their connections.                                            *)
(***************************************************************************)
EXTENDS ExportScheduler, FiniteSetTheorems, TLAPS

-----------------------------------------------------------------------------
(* The inductive invariant *)

\* From the claim to the end of its schedule a cycle has it in hand.
Busy == {"run", "lookup", "reuse", "key", "export", "failed"}

HandSound ==
    \A p \in Procs :
        cycle[p].pc \in Busy \cup {"claim"} => cycle[p].on \in Schedules

\* The cycles at work on a window whose lock they have lost.
Loose(s, w) == {p \in Procs : NeedsLock(p, s, w) /\ advisory[s][w] # p}

\* The window may yet be delivered under its lock: by the cycle that is about
\* to, or by one that finds the manifest missing or failed.
Open(s, w) ==
    \/ manifest[s][w] \in {"none", "failed"}
    \/ \E p \in Procs :
          /\ advisory[s][w] = p /\ NeedsLock(p, s, w)
          /\ cycle[p].pc \in {"reuse", "export"}

\* Who may deliver the window: the cycles without its lock, and one under it.
Chances(s, w) == Loose(s, w) \cup {x \in {Free} : Open(s, w)}

\* A delivery uses up a chance, and only a lost lock adds one.
DeliveriesBounded ==
    \A s \in Schedules, w \in Windows :
        delivered[s][w] + Cardinality(Chances(s, w)) <= 1 + lost[s][w]

Guarded ==
    \A p \in Procs, s \in Schedules, w \in Windows :
        NeedsLock(p, s, w) => advisory[s][w] = p \/ lost[s][w] > 0

\* Under its lock a cycle finds the manifest as it has left it.
LeftAs(pc, m) ==
    /\ pc = "key" => m = "none"
    /\ pc = "reuse" => m = "failed"
    /\ pc = "export" => m = "running"

ManifestKept ==
    \A p \in Procs, s \in Schedules, w \in Windows :
        NeedsLock(p, s, w) /\ lost[s][w] = 0 =>
            LeftAs(cycle[p].pc, manifest[s][w])

Inv == TypeOK /\ HandSound /\ DeliveriesBounded /\ Guarded /\ ManifestKept

\* The windows of s that are delivered, and those whose lock was lost.
Done(s) == {w \in Windows : manifest[s][w] = "delivered" \/ lost[s][w] > 0}

\* A success waiting for a commit has its artifact; a cycle begins with none.
UnsavedDelivered ==
    \A p \in Procs :
        /\ \A s \in cycle[p].unsaved : Window(p) \in Done(s)
        /\ cycle[p].pc \in {"idle", "lock", "recover"} => cycle[p].unsaved = {}

\* Only a crash leaves a running manifest behind that nobody exports.
Exporting(p, s, w) ==
    cycle[p].pc = "export" /\ cycle[p].on = s /\ Window(p) = w

RunningExported ==
    crashes = 0 =>
        \A s \in Schedules, w \in Windows :
            manifest[s][w] = "running" /\ lost[s][w] = 0 =>
                \E p \in Procs : Exporting(p, s, w)

\* What a row that says success must show.
Shows(r, windows) == r.status = "success" => r.window \in windows

SuccessShown == crashes = 0 => \A s \in Schedules : Shows(row[s], Done(s))

SuccessInv == Inv /\ UnsavedDelivered /\ RunningExported /\ SuccessShown

-----------------------------------------------------------------------------
(* The operators the actions are built from *)

LEMMA WindowTyped == \A at \in Times : ExecutionWindow(at) \in Windows
  BY SchedulerConstants DEF Times, Windows, ExecutionWindow

LEMMA BackoffTyped ==
  ASSUME NEW n \in Nat, NEW cap \in Nat
  PROVE  Backoff(n, cap) \in Int
<1>1. Max({1, n}) \in Nat
  BY DEF Max
<1>2. PICK m \in Nat : m = Max({1, n})
  BY <1>1
<1>3. PICK d \in Int : d = 2 ^ m
  OBVIOUS
<1>4. Min({cap, d}) \in Int
  BY DEF Min
<1> QED
  BY <1>2, <1>3, <1>4 DEF Backoff

LEMMA MaxRetryTyped == MaxRetry \in Nat
  BY SchedulerConstants DEF MaxRetry

\* A cell of a table of tables is set; the other cells stay.
LEMMA CellSet ==
  ASSUME NEW S, NEW W, NEW V, NEW f \in [S -> [W -> V]],
         NEW s \in S, NEW w \in W, NEW v \in V
  PROVE  /\ [f EXCEPT ![s][w] = v] \in [S -> [W -> V]]
         /\ [f EXCEPT ![s][w] = v][s][w] = v
         /\ \A t \in S, u \in W :
               t # s \/ u # w => [f EXCEPT ![s][w] = v][t][u] = f[t][u]
  OBVIOUS

LEMMA SucceededTyped ==
  ASSUME TypeOK, NEW p \in Procs, NEW r \in ScheduleRow
  PROVE  Succeeded(r, p) \in ScheduleRow
<1>1. PICK at \in Times : at = cycle[p].at
  BY DEF TypeOK, Cycle
<1>2. PICK w \in Windows : w = ExecutionWindow(cycle[p].at)
  BY <1>1, WindowTyped
<1> DEFINE s == [r EXCEPT !.lastRun = at, !.status = "success", !.retries = 0,
                          !.nextRetry = NoTime, !.window = w,
                          !.claim = NoTime, !.started = NoTime]
<1>n. NoTime \in Int
  BY DEF NoTime
<1>3. s \in ScheduleRow
  BY <1>n DEF ScheduleRow
<1> QED
  BY <1>1, <1>2, <1>3 DEF Succeeded

LEMMA SavedTyped ==
  ASSUME TypeOK, NEW p \in Procs
  PROVE  Saved(p) \in [Schedules -> ScheduleRow]
  BY SucceededTyped DEF Saved, TypeOK

LEMMA RecoveredTyped ==
  ASSUME NEW r \in ScheduleRow, NEW at \in Times
  PROVE  Recovered(r, at) \in ScheduleRow
<1>1. r.retries + 1 \in Nat /\ at \in Nat
  BY SchedulerConstants DEF ScheduleRow, Times
<1>2. PICK b \in Int : b = Backoff(r.retries + 1, 30)
  BY <1>1, BackoffTyped
<1>3. PICK c \in Int : c = at + b
  BY <1>1
<1>4. PICK n \in Nat : n = r.retries + 1
  BY <1>1
<1> DEFINE s == [r EXCEPT !.status = "failed", !.claim = NoTime,
                          !.started = NoTime, !.retries = n, !.nextRetry = c]
<1>n. NoTime \in Int
  BY DEF NoTime
<1>5. s \in ScheduleRow
  BY <1>n DEF ScheduleRow
<1> QED
  BY <1>2, <1>3, <1>4, <1>5 DEF Recovered

\* What a cycle in hand works on.
LEMMA InHand ==
  ASSUME TypeOK, NEW p \in Procs
  PROVE  /\ cycle[p].at \in Times /\ Window(p) \in Windows
         /\ cycle[p].todo \subseteq Schedules
         /\ cycle[p].retries \in Nat
         /\ cycle[p].unsaved \subseteq Schedules
  BY WindowTyped DEF TypeOK, Cycle, Window

LEMMA IdleCycle == Idle \in Cycle /\ Idle.pc = "idle" /\ Idle.unsaved = {}
<1>1. 0 \in Times
  BY SchedulerConstants DEF Times
<1> QED
  BY <1>1 DEF Idle, Cycle

\* The chances to deliver a window are finitely many.
LEMMA ChancesFinite ==
  ASSUME NEW s, NEW w
  PROVE  IsFiniteSet(Chances(s, w)) /\ Cardinality(Chances(s, w)) \in Nat
<1>1. IsFiniteSet(Procs \cup {Free})
  BY SchedulerConstants, FS_AddElement
<1>2. Chances(s, w) \subseteq Procs \cup {Free}
  BY DEF Chances, Loose
<1> QED
  BY <1>1, <1>2, FS_Subset, FS_CardinalityType

\* A set that gives up one member and takes in at most one has not grown.
LEMMA Exchanged ==
  ASSUME NEW S, IsFiniteSet(S), NEW x \in S, NEW y, NEW T,
         T \subseteq (S \ {x}) \cup {y}
  PROVE  Cardinality(T) <= Cardinality(S)
<1>1. /\ IsFiniteSet(S \ {x}) /\ Cardinality(S \ {x}) = Cardinality(S) - 1
      /\ Cardinality(S) \in Nat
  BY FS_RemoveElement, FS_CardinalityType
<1>2. /\ IsFiniteSet((S \ {x}) \cup {y})
      /\ Cardinality((S \ {x}) \cup {y}) <= Cardinality(S)
      /\ Cardinality((S \ {x}) \cup {y}) \in Nat
  BY <1>1, FS_AddElement, FS_CardinalityType
<1>3. Cardinality(T) <= Cardinality((S \ {x}) \cup {y}) /\ Cardinality(T) \in Nat
  BY <1>2, FS_Subset, FS_CardinalityType
<1> QED
  BY <1>1, <1>2, <1>3

LEMMA Removed ==
  ASSUME NEW S, IsFiniteSet(S), NEW x \in S, NEW T, T \subseteq S \ {x}
  PROVE  Cardinality(T) + 1 <= Cardinality(S)
<1>1. /\ IsFiniteSet(S \ {x}) /\ Cardinality(S \ {x}) = Cardinality(S) - 1
      /\ Cardinality(S) \in Nat
  BY FS_RemoveElement, FS_CardinalityType
<1>2. Cardinality(T) <= Cardinality(S \ {x}) /\ Cardinality(T) \in Nat
  BY <1>1, FS_Subset, FS_CardinalityType
<1> QED
  BY <1>1, <1>2

LEMMA Added ==
  ASSUME NEW S, IsFiniteSet(S), NEW x, NEW T, T \subseteq S \cup {x}
  PROVE  Cardinality(T) <= Cardinality(S) + 1
<1>1. /\ IsFiniteSet(S \cup {x}) /\ Cardinality(S \cup {x}) <= Cardinality(S) + 1
      /\ Cardinality(S \cup {x}) \in Nat /\ Cardinality(S) \in Nat
  BY FS_AddElement, FS_CardinalityType
<1>2. Cardinality(T) <= Cardinality(S \cup {x}) /\ Cardinality(T) \in Nat
  BY <1>1, FS_Subset, FS_CardinalityType
<1> QED
  BY <1>1, <1>2

-----------------------------------------------------------------------------
(* A step of one cycle *)

LEMMA InitInv == Init => Inv
<1> SUFFICES ASSUME Init PROVE Inv
  OBVIOUS
<1>1. \A p \in Procs : cycle[p] = Idle
  BY DEF Init
<1>2. Idle \in Cycle /\ Idle.pc = "idle" /\ Idle.unsaved = {}
  BY IdleCycle
<1>3. NewSchedule \in ScheduleRow
  <2>1. NoTime \in Int
    BY DEF NoTime
  <2> QED
    BY <2>1 DEF NewSchedule, ScheduleRow
<1>4. SwitchedOff \in ScheduleRow
  <2>1. PICK n \in Nat : n = MaxRetry + 1
    BY MaxRetryTyped
  <2> QED
    BY <1>3, <2>1 DEF SwitchedOff, ScheduleRow
<1>5. TypeOK
  <2>1. clock \in Times /\ redis \in {NoTime}
    BY SchedulerConstants DEF Init, Times
  <2>2. /\ crashes \in 0 .. MaxCrashes
        /\ failures \in [Schedules -> 0 .. MaxFailures]
        /\ lost \in [Schedules -> [Windows -> 0 .. MaxLost]]
    BY SchedulerConstants DEF Init
  <2>3. cycle \in [Procs -> Cycle]
    BY <1>2 DEF Init
  <2>4. row \in [Schedules -> ScheduleRow]
    BY <1>3, <1>4 DEF Init
  <2> QED
    BY <2>1, <2>2, <2>3, <2>4 DEF Init, TypeOK
<1>6. \A p \in Procs, s \in Schedules, w \in Windows : ~NeedsLock(p, s, w)
  BY <1>1, <1>2 DEF NeedsLock
<1>7. HandSound /\ Guarded /\ ManifestKept
  BY <1>1, <1>2, <1>6 DEF HandSound, Guarded, ManifestKept, Busy
<1>8. ASSUME NEW s \in Schedules, NEW w \in Windows
      PROVE  delivered[s][w] + Cardinality(Chances(s, w)) <= 1 + lost[s][w]
  <2>1. Chances(s, w) = {Free}
    BY <1>6 DEF Chances, Loose, Open, Init
  <2>2. Cardinality({Free}) = 1
    BY FS_Singleton
  <2>3. delivered[s][w] = 0 /\ lost[s][w] = 0
    BY DEF Init
  <2> QED
    BY <2>1, <2>2, <2>3
<1> QED
  BY <1>5, <1>7, <1>8 DEF Inv, DeliveriesBounded

\* Only p takes or gives back a lock, only p moves on, and it goes without
\* the lock of a window only where it has been without it before.
OwnStep(p, c) ==
    /\ cycle' = [cycle EXCEPT ![p] = c]
    /\ \A q \in Procs \ {p}, s \in Schedules, w \in Windows :
          advisory'[s][w] = q <=> advisory[s][w] = q
    /\ \A s \in Schedules, w \in Windows :
          NeedsLock(p, s, w)' => advisory'[s][w] = p \/ p \in Loose(s, w)
    /\ c.pc \in Busy \cup {"claim"} => c.on \in Schedules
    /\ UNCHANGED lost

LEMMA OthersStay ==
  ASSUME TypeOK, NEW p \in Procs, NEW c \in Cycle, OwnStep(p, c)
  PROVE  /\ cycle'[p] = c /\ Window(p)' = ExecutionWindow(c.at)
         /\ \A q \in Procs \ {p} : cycle'[q] = cycle[q]
         /\ \A q \in Procs \ {p}, s \in Schedules, w \in Windows :
               /\ NeedsLock(q, s, w)' => NeedsLock(q, s, w)
               /\ advisory'[s][w] = q <=> advisory[s][w] = q
<1>1. cycle'[p] = c /\ \A q \in Procs \ {p} : cycle'[q] = cycle[q]
  BY DEF TypeOK, OwnStep
<1>2. \A q \in Procs \ {p}, s \in Schedules, w \in Windows :
         NeedsLock(q, s, w)' => NeedsLock(q, s, w)
  BY <1>1 DEF Window, NeedsLock
<1> QED
  BY <1>1, <1>2 DEF Window, OwnStep

LEMMA LooseShrinks ==
  ASSUME TypeOK, NEW p \in Procs, NEW c \in Cycle, OwnStep(p, c),
         NEW s \in Schedules, NEW w \in Windows
  PROVE  Loose(s, w)' \subseteq Loose(s, w)
<1> SUFFICES ASSUME NEW q \in Procs, NeedsLock(q, s, w)', advisory'[s][w] # q
             PROVE  q \in Loose(s, w)
  BY DEF Loose
<1>1. CASE q = p
  BY <1>1 DEF OwnStep
<1>2. CASE q # p
  <2>1. NeedsLock(q, s, w) /\ advisory[s][w] # q
    BY <1>2, OthersStay
  <2> QED
    BY <2>1 DEF Loose
<1> QED
  BY <1>1, <1>2

\* What p finds and leaves under the locks it holds.
Tidy(p, c) ==
    /\ \A s \in Schedules, w \in Windows :
          lost[s][w] = 0 /\ advisory[s][w] \in Procs \ {p} =>
             manifest'[s][w] = manifest[s][w]
    /\ \A s \in Schedules, w \in Windows :
          NeedsLock(p, s, w)' /\ lost[s][w] = 0 => LeftAs(c.pc, manifest'[s][w])

LEMMA StepInv ==
  ASSUME Inv, TypeOK', DeliveriesBounded', NEW p \in Procs, NEW c \in Cycle,
         OwnStep(p, c), Tidy(p, c)
  PROVE  Inv'
<1> USE DEF Inv
<1>1. HandSound'
  <2> SUFFICES ASSUME NEW q \in Procs, cycle'[q].pc \in Busy \cup {"claim"}
               PROVE  cycle'[q].on \in Schedules
    BY DEF HandSound
  <2>1. CASE q = p
    <3>1. cycle'[q] = c
      BY <2>1, OthersStay
    <3> QED
      BY <3>1 DEF OwnStep
  <2>2. CASE q # p
    <3>1. cycle'[q] = cycle[q]
      BY <2>2, OthersStay
    <3> QED
      BY <3>1 DEF HandSound
  <2> QED
    BY <2>1, <2>2
<1>2. Guarded'
  <2> SUFFICES ASSUME NEW q \in Procs, NEW s \in Schedules, NEW w \in Windows,
                      NeedsLock(q, s, w)', advisory'[s][w] # q
               PROVE  lost'[s][w] > 0
    BY DEF Guarded
  <2>1. q \in Loose(s, w)
    BY LooseShrinks DEF Loose
  <2> QED
    BY <2>1 DEF Loose, Guarded, OwnStep
<1>3. ManifestKept'
  <2> SUFFICES ASSUME NEW q \in Procs, NEW s \in Schedules, NEW w \in Windows,
                      NeedsLock(q, s, w)', lost[s][w] = 0
               PROVE  LeftAs(cycle'[q].pc, manifest'[s][w])
    BY DEF ManifestKept, OwnStep
  <2>1. CASE q = p
    BY <2>1, OthersStay DEF Tidy
  <2>2. CASE q # p
    <3>1. NeedsLock(q, s, w) /\ cycle'[q] = cycle[q]
      BY <2>2, OthersStay
    <3>2. advisory[s][w] = q
      BY <3>1 DEF Guarded
    <3>3. manifest'[s][w] = manifest[s][w]
      BY <2>2, <3>2 DEF Tidy
    <3> QED
      BY <3>1, <3>3 DEF ManifestKept
  <2> QED
    BY <2>1, <2>2
<1> QED
  BY <1>1, <1>2, <1>3

\* Without a delivery, no chance is to be added.
LEMMA StillBounded ==
  ASSUME Inv, NEW p \in Procs, NEW c \in Cycle, OwnStep(p, c),
         UNCHANGED delivered,
         \A s \in Schedules, w \in Windows : Open(s, w)' => Open(s, w)
  PROVE  DeliveriesBounded'
<1> SUFFICES ASSUME NEW s \in Schedules, NEW w \in Windows
             PROVE  delivered'[s][w] + Cardinality(Chances(s, w)') <= 1 + lost'[s][w]
  BY DEF DeliveriesBounded
<1>1. Loose(s, w)' \subseteq Loose(s, w)
  BY LooseShrinks DEF Inv
<1>2. Chances(s, w)' \subseteq Chances(s, w)
  BY <1>1 DEF Chances
<1>3. /\ Cardinality(Chances(s, w)') \in Nat /\ Cardinality(Chances(s, w)) \in Nat
      /\ Cardinality(Chances(s, w)') <= Cardinality(Chances(s, w))
  BY <1>2, ChancesFinite, FS_Subset, FS_CardinalityType
<1>4. /\ delivered[s][w] \in Nat /\ lost[s][w] \in Nat
      /\ delivered[s][w] + Cardinality(Chances(s, w)) <= 1 + lost[s][w]
  BY SchedulerConstants DEF Inv, TypeOK, DeliveriesBounded
<1> QED
  BY <1>3, <1>4 DEF OwnStep

\* The manifests stay, and p is in none of its exporting stages.
LEMMA NotOpened ==
  ASSUME Inv, NEW p \in Procs, NEW c \in Cycle, OwnStep(p, c),
         UNCHANGED manifest, c.pc \notin {"reuse", "export"},
         NEW s \in Schedules, NEW w \in Windows, Open(s, w)'
  PROVE  Open(s, w)
<1>1. CASE manifest'[s][w] \in {"none", "failed"}
  BY <1>1 DEF Open
<1>2. ASSUME NEW q \in Procs, advisory'[s][w] = q, NeedsLock(q, s, w)',
             cycle'[q].pc \in {"reuse", "export"}
      PROVE  Open(s, w)
  <2>1. q # p
    BY <1>2, OthersStay DEF Inv
  <2>2. /\ cycle'[q] = cycle[q] /\ NeedsLock(q, s, w) /\ advisory[s][w] = q
    BY <1>2, <2>1, OthersStay DEF Inv
  <2> QED
    BY <1>2, <2>2 DEF Open
<1> QED
  BY <1>1, <1>2 DEF Open

\* The process leaves the manifests alone and has no schedule in hand.
LEMMA QuietInv ==
  ASSUME Inv, TypeOK', NEW p \in Procs, NEW c \in Cycle,
         cycle' = [cycle EXCEPT ![p] = c],
         \A q \in Procs \ {p}, s \in Schedules, w \in Windows :
             advisory'[s][w] = q <=> advisory[s][w] = q,
         UNCHANGED <<manifest, delivered, lost>>,
         c.pc \notin Busy,
         c.pc = "claim" => c.on \in Schedules
  PROVE  Inv'
<1>1. \A s \in Schedules, w \in Windows : ~NeedsLock(p, s, w)'
  BY DEF Inv, TypeOK, NeedsLock, Busy
<1>2. OwnStep(p, c)
  BY <1>1 DEF OwnStep
<1>3. Tidy(p, c)
  BY <1>1 DEF Tidy
<1>4. c.pc \notin {"reuse", "export"}
  BY DEF Busy
<1>5. DeliveriesBounded'
  BY <1>2, <1>4, NotOpened, StillBounded
<1> QED
  BY <1>2, <1>3, <1>5, StepInv

-----------------------------------------------------------------------------
(* The parts of a step *)

Stages == {"idle", "lock", "recover", "scan", "claim", "run", "lookup",
           "reuse", "key", "export", "failed", "ended"}

\* What an action sets of a cycle.
LEMMA CycleSet ==
  ASSUME NEW d \in Cycle, NEW pc \in Stages,
         NEW on \in Schedules \cup {NoSchedule}, NEW todo \in SUBSET Schedules,
         NEW n \in Nat, NEW u \in SUBSET Schedules
  PROVE  /\ [d EXCEPT !.pc = pc] \in Cycle
         /\ [d EXCEPT !.todo = todo] \in Cycle
         /\ [d EXCEPT !.pc = pc, !.retries = n] \in Cycle
         /\ [d EXCEPT !.pc = pc, !.on = on, !.retries = n] \in Cycle
         /\ \A at \in Times :
               [d EXCEPT !.pc = pc, !.at = at, !.todo = todo] \in Cycle
         /\ [d EXCEPT !.pc = pc, !.unsaved = u] \in Cycle
         /\ [d EXCEPT !.pc = pc, !.on = on, !.todo = todo, !.retries = n,
                      !.unsaved = u] \in Cycle
  BY DEF Cycle, Stages

LEMMA GotoMoves ==
  ASSUME TypeOK, NEW p \in Procs,
         NEW pc \in Stages,
         Goto(p, pc)
  PROVE  \E c \in Cycle :
            /\ cycle' = [cycle EXCEPT ![p] = c]
            /\ c.pc = pc /\ c.on = cycle[p].on /\ c.at = cycle[p].at
            /\ c.unsaved = cycle[p].unsaved
<1> DEFINE c == [cycle[p] EXCEPT !.pc = pc]
<1>1. c \in Cycle
  BY CycleSet DEF TypeOK
<1>2. cycle' = [cycle EXCEPT ![p] = c]
  BY DEF TypeOK, Cycle, Goto
<1>3. /\ c.pc = pc /\ c.on = cycle[p].on /\ c.at = cycle[p].at
      /\ c.unsaved = cycle[p].unsaved
  BY DEF TypeOK, Cycle
<1> HIDE DEF c
<1> QED
  BY <1>1, <1>2, <1>3

LEMMA NextMoves ==
  ASSUME TypeOK, NEW p \in Procs, NEW u \in SUBSET Schedules,
         NextSchedule(p, u)
  PROVE  \E c \in Cycle :
            /\ cycle' = [cycle EXCEPT ![p] = c]
            /\ c.pc = "scan" /\ c.at = cycle[p].at /\ c.unsaved = u
<1> DEFINE c == [cycle[p] EXCEPT !.pc = "scan", !.on = NoSchedule,
                     !.todo = @ \ {cycle[p].on}, !.retries = 0,
                     !.unsaved = u]
<1>1. c \in Cycle
  <2>1. PICK d \in Cycle : d = cycle[p]
    BY DEF TypeOK
  <2>2. PICK todo \in SUBSET Schedules : todo = d.todo \ {d.on}
    BY DEF Cycle
  <2> DEFINE e == [d EXCEPT !.pc = "scan", !.on = NoSchedule, !.todo = todo,
                            !.retries = 0, !.unsaved = u]
  <2>3. c = e
    BY <2>1, <2>2
  <2>4. e \in Cycle
    BY DEF Cycle
  <2> QED
    BY <2>3, <2>4 
<1>2. cycle' = [cycle EXCEPT ![p] = c]
  BY DEF TypeOK, Cycle, NextSchedule
<1>3. c.pc = "scan" /\ c.at = cycle[p].at /\ c.unsaved = u
  BY DEF TypeOK, Cycle
<1> HIDE DEF c
<1> QED
  BY <1>1, <1>2, <1>3

LEMMA CycleTyped ==
  ASSUME TypeOK, NEW p \in Procs, NEW c \in Cycle,
         cycle' = [cycle EXCEPT ![p] = c]
  PROVE  cycle' \in [Procs -> Cycle]
  BY DEF TypeOK

LEMMA CommitTyped ==
  ASSUME TypeOK, NEW p \in Procs, NEW s \in Schedules, NEW r \in ScheduleRow,
         Commit(p, s, r)
  PROVE  row' \in [Schedules -> ScheduleRow]
  BY SavedTyped DEF Commit

\* A process sets a lock that nobody else holds, for itself or free.
LEMMA AdvisorySet ==
  ASSUME TypeOK, NEW p \in Procs, NEW l \in {Free, p},
         cycle[p].on \in Schedules,
         advisory[cycle[p].on][Window(p)] \in {Free, p},
         advisory' = [advisory EXCEPT ![cycle[p].on][Window(p)] = l]
  PROVE  /\ advisory' \in [Schedules -> [Windows -> Procs \cup {Free}]]
         /\ advisory'[cycle[p].on][Window(p)] = l
         /\ \A q \in Procs \ {p}, s \in Schedules, w \in Windows :
               advisory'[s][w] = q <=> advisory[s][w] = q
<1>1. PICK s \in Schedules, w \in Windows : s = cycle[p].on /\ w = Window(p)
  BY InHand
<1>2. advisory' = [advisory EXCEPT ![s][w] = l]
  BY <1>1
<1>3. advisory[s][w] \in {Free, p}
  BY <1>1
<1> QED
  BY <1>1, <1>2, <1>3, SchedulerConstants, CellSet DEF TypeOK

LEMMA Unlocked ==
  ASSUME TypeOK, NEW p \in Procs, cycle[p].on \in Schedules, Unlock(p)
  PROVE  /\ advisory' \in [Schedules -> [Windows -> Procs \cup {Free}]]
         /\ \A q \in Procs \ {p}, s \in Schedules, w \in Windows :
               advisory'[s][w] = q <=> advisory[s][w] = q
<1>1. CASE UNCHANGED advisory
  BY <1>1 DEF TypeOK
<1>2. CASE /\ advisory[cycle[p].on][Window(p)] = p
           /\ advisory' = [advisory EXCEPT ![cycle[p].on][Window(p)] = Free]
  BY <1>2, AdvisorySet
<1> QED
  BY <1>1, <1>2 DEF Unlock

ManifestStates == {"none", "running", "failed", "delivered"}

LEMMA ManifestSet ==
  ASSUME Inv, NEW p \in Procs, NEW m \in ManifestStates,
         cycle[p].pc \in {"reuse", "key", "export"}, SetManifest(p, m)
  PROVE  /\ manifest' \in [Schedules -> [Windows -> ManifestStates]]
         /\ manifest'[cycle[p].on][Window(p)] = m
         /\ \A s \in Schedules, w \in Windows :
               s # cycle[p].on \/ w # Window(p) => manifest'[s][w] = manifest[s][w]
         /\ \A s \in Schedules, w \in Windows :
               lost[s][w] = 0 /\ advisory[s][w] \in Procs \ {p} =>
                  manifest'[s][w] = manifest[s][w]
<1>1. PICK s \in Schedules, w \in Windows : s = cycle[p].on /\ w = Window(p)
  BY InHand DEF Inv, HandSound, Busy
<1>2. manifest' = [manifest EXCEPT ![s][w] = m]
  BY <1>1 DEF SetManifest
<1>3. lost[s][w] = 0 => advisory[s][w] = p
  <2>1. NeedsLock(p, s, w)
    BY <1>1 DEF NeedsLock
  <2>2. lost[s][w] = 0 => ~(lost[s][w] > 0)
    OBVIOUS
  <2> QED
    BY <2>1, <2>2 DEF Inv, Guarded
<1>4. manifest \in [Schedules -> [Windows -> ManifestStates]]
  BY DEF Inv, TypeOK, ManifestStates
<1> QED
  BY <1>1, <1>2, <1>3, <1>4, CellSet

-----------------------------------------------------------------------------
(* The steps that hold no lock *)

LEMMA LocksStay ==
  ASSUME UNCHANGED advisory, NEW p
  PROVE  \A q \in Procs \ {p}, s \in Schedules, w \in Windows :
            advisory'[s][w] = q <=> advisory[s][w] = q
  OBVIOUS

\* The rest of the invariant looks at the cycles, locks and deliveries only.
LEMMA RestStays ==
  ASSUME HandSound, DeliveriesBounded, Guarded, ManifestKept,
         UNCHANGED <<manifest, advisory, cycle, delivered, lost>>
  PROVE  (HandSound /\ DeliveriesBounded /\ Guarded /\ ManifestKept)'
<1>1. \A p, s, w : NeedsLock(p, s, w)' <=> NeedsLock(p, s, w)
  BY DEF NeedsLock, Window
<1>2. \A s, w : Loose(s, w)' = Loose(s, w)
  BY <1>1 DEF Loose
<1>3. \A s, w : Open(s, w)' <=> Open(s, w)
  BY <1>1 DEF Open
<1>4. \A s, w : Chances(s, w)' = Chances(s, w)
  BY <1>2, <1>3 DEF Chances
<1>5. HandSound' /\ Guarded' /\ ManifestKept'
  BY <1>1 DEF HandSound, Guarded, ManifestKept
<1>6. DeliveriesBounded'
  BY <1>4 DEF DeliveriesBounded
<1> QED
  BY <1>5, <1>6

LEMMA TickInv == ASSUME Inv, Tick PROVE Inv'
<1>1. clock' \in Times
  BY SchedulerConstants DEF Inv, TypeOK, Tick, Times
<1>2. redis' \in Times \cup (MaxTime .. MaxTime + LockTTL) \cup {NoTime}
  BY DEF Inv, TypeOK, Tick
<1>3. TypeOK'
  BY <1>1, <1>2 DEF Inv, TypeOK, Tick
<1>4. UNCHANGED <<manifest, advisory, cycle, delivered, lost>>
  BY DEF Tick
<1> QED
  BY <1>3, <1>4, RestStays DEF Inv

LEMMA ReadLockInv == ASSUME Inv, NEW p \in Procs, ReadLock(p) PROVE Inv'
<1>1. PICK c \in Cycle : cycle' = [cycle EXCEPT ![p] = c] /\ c.pc = "lock"
  BY GotoMoves DEF Inv, ReadLock, Stages
<1>2. TypeOK'
  BY <1>1, CycleTyped DEF Inv, TypeOK, ReadLock
<1> QED
  BY <1>1, <1>2, QuietInv, LocksStay DEF Busy, ReadLock

LEMMA SetLockInv == ASSUME Inv, NEW p \in Procs, SetLock(p) PROVE Inv'
<1>1. PICK c \in Cycle : cycle' = [cycle EXCEPT ![p] = c] /\ c.pc = "recover"
  BY GotoMoves DEF Inv, SetLock, Stages
<1>2. redis' \in Times \cup (MaxTime .. MaxTime + LockTTL)
  BY SchedulerConstants DEF Inv, TypeOK, SetLock, Times
<1>3. TypeOK'
  BY <1>1, <1>2, CycleTyped DEF Inv, TypeOK, SetLock
<1> QED
  BY <1>1, <1>3, QuietInv, LocksStay DEF Busy, SetLock

LEMMA RecoverInv == ASSUME Inv, NEW p \in Procs, Recover(p) PROVE Inv'
<1>1. PICK t \in Times : t = clock
  BY DEF Inv, TypeOK
<1>2. PICK todo \in SUBSET Schedules : todo = {s \in Schedules : row[s].active}
  OBVIOUS
<1>3. PICK d \in Cycle : d = cycle[p]
  BY DEF Inv, TypeOK
<1> DEFINE c == [d EXCEPT !.pc = "scan", !.at = t, !.todo = todo]
<1>4. c \in Cycle /\ c.pc = "scan"
  BY DEF Cycle
<1>5. cycle' = [cycle EXCEPT ![p] = c]
  BY <1>1, <1>2, <1>3 DEF Inv, TypeOK, Recover
<1> HIDE DEF c
<1>6. row' \in [Schedules -> ScheduleRow]
  BY RecoveredTyped DEF Inv, TypeOK, Recover
<1>7. TypeOK'
  BY <1>4, <1>5, <1>6, CycleTyped DEF Inv, TypeOK, Recover
<1> QED
  BY <1>4, <1>5, <1>7, QuietInv, LocksStay DEF Busy, Recover

LEMMA VisitMoves ==
  ASSUME Inv, NEW p \in Procs, NEW s \in Schedules, Visit(p, s)
  PROVE  \E c \in Cycle :
            /\ cycle' = [cycle EXCEPT ![p] = c]
            /\ c.pc \in {"scan", "claim"} /\ (c.pc = "claim" => c.on = s)
            /\ c.at = cycle[p].at /\ c.unsaved = cycle[p].unsaved
<1>1. PICK d \in Cycle : d = cycle[p]
  BY DEF Inv, TypeOK
<1>2. PICK todo \in SUBSET Schedules : todo = d.todo \ {s}
  BY DEF Cycle
<1>3. PICK n \in Nat : n = row[s].retries
  BY DEF Inv, TypeOK, ScheduleRow
<1>4. CASE cycle' = [cycle EXCEPT ![p].pc = "claim", ![p].on = s,
                                  ![p].retries = row[s].retries]
  <2> DEFINE c == [d EXCEPT !.pc = "claim", !.on = s, !.retries = n]
  <2>1. c \in Cycle
    BY DEF Cycle
  <2>2. c.pc = "claim" /\ c.on = s /\ c.at = d.at /\ c.unsaved = d.unsaved
    BY DEF Cycle
  <2>3. cycle' = [cycle EXCEPT ![p] = c]
    BY <1>1, <1>3, <1>4 DEF Inv, TypeOK
  <2> HIDE DEF c
  <2> QED
    BY <2>1, <2>2, <2>3, <1>1
<1>5. CASE cycle' = [cycle EXCEPT ![p].todo = @ \ {s}]
  <2> DEFINE c == [d EXCEPT !.todo = todo]
  <2>1. c \in Cycle
    BY DEF Cycle
  <2>2. c.pc = d.pc /\ c.at = d.at /\ c.unsaved = d.unsaved
    BY DEF Cycle
  <2>3. cycle' = [cycle EXCEPT ![p] = c]
    BY <1>1, <1>2, <1>5 DEF Inv, TypeOK
  <2>4. d.pc = "scan"
    BY <1>1 DEF Visit
  <2> HIDE DEF c
  <2> QED
    BY <2>1, <2>2, <2>3, <2>4, <1>1
<1> QED
  BY <1>4, <1>5 DEF Visit

LEMMA VisitInv ==
  ASSUME Inv, NEW p \in Procs, NEW s \in Schedules, Visit(p, s)
  PROVE  Inv'
<1>1. PICK c \in Cycle :
         /\ cycle' = [cycle EXCEPT ![p] = c]
         /\ c.pc \in {"scan", "claim"} /\ (c.pc = "claim" => c.on = s)
  BY VisitMoves
<1>2. TypeOK'
  BY <1>1, CycleTyped DEF Inv, TypeOK, Visit
<1>3. UNCHANGED <<advisory, manifest, delivered, lost>>
  BY DEF Visit
<1> QED
  BY <1>1, <1>2, <1>3, QuietInv, LocksStay DEF Busy

LEMMA SkipLockedInv == ASSUME Inv, NEW p \in Procs, SkipLocked(p) PROVE Inv'
<1>1. cycle[p].unsaved \in SUBSET Schedules
  BY InHand DEF Inv
<1>2. PICK c \in Cycle : cycle' = [cycle EXCEPT ![p] = c] /\ c.pc = "scan"
  BY <1>1, NextMoves DEF Inv, SkipLocked
<1>3. TypeOK'
  BY <1>2, CycleTyped DEF Inv, TypeOK, SkipLocked
<1>4. UNCHANGED <<advisory, manifest, delivered, lost>>
  BY DEF SkipLocked
<1> QED
  BY <1>2, <1>3, <1>4, QuietInv, LocksStay DEF Busy

LEMMA EndCycleInv == ASSUME Inv, NEW p \in Procs, EndCycle(p) PROVE Inv'
<1>1. cycle' = [cycle EXCEPT ![p] = Idle]
  BY DEF EndCycle
<1>2. row' \in [Schedules -> ScheduleRow]
  BY SavedTyped DEF Inv, TypeOK, EndCycle
<1>3. TypeOK'
  BY <1>1, <1>2, IdleCycle, CycleTyped DEF Inv, TypeOK, EndCycle
<1>4. UNCHANGED <<advisory, manifest, delivered, lost>>
  BY DEF EndCycle
<1> QED
  BY <1>1, <1>3, <1>4, IdleCycle, QuietInv, LocksStay DEF Busy

-----------------------------------------------------------------------------
(* The claim *)

\* A cycle that gives up its claim may leave the advisory lock behind.
LEMMA GivesUp ==
  ASSUME Inv, NEW p \in Procs, cycle[p].pc = "claim",
         advisory[cycle[p].on][Window(p)] \in {Free, p},
         \/ advisory' = [advisory EXCEPT ![cycle[p].on][Window(p)] = Free]
         \/ advisory' = [advisory EXCEPT ![cycle[p].on][Window(p)] = p],
         row' \in [Schedules -> ScheduleRow],
         NextSchedule(p, {}),
         UNCHANGED <<clock, manifest, redis, crashes, failures, delivered, lost>>
  PROVE  Inv'
<1>1. PICK c \in Cycle : cycle' = [cycle EXCEPT ![p] = c] /\ c.pc = "scan"
  BY NextMoves DEF Inv
<1>2. PICK l \in {Free, p} :
         advisory' = [advisory EXCEPT ![cycle[p].on][Window(p)] = l]
  OBVIOUS
<1>3. cycle[p].on \in Schedules
  BY DEF Inv, HandSound
<1>4. /\ advisory' \in [Schedules -> [Windows -> Procs \cup {Free}]]
      /\ \A q \in Procs \ {p}, s \in Schedules, w \in Windows :
            advisory'[s][w] = q <=> advisory[s][w] = q
  BY <1>2, <1>3, AdvisorySet DEF Inv
<1>5. TypeOK'
  BY <1>1, <1>4, CycleTyped DEF Inv, TypeOK
<1> QED
  BY <1>1, <1>4, <1>5, QuietInv DEF Busy

LEMMA DisableInv == ASSUME Inv, NEW p \in Procs, Disable(p) PROVE Inv'
<1>1. PICK s \in Schedules : s = cycle[p].on
  BY DEF Inv, HandSound, Disable
<1>2. PICK r \in ScheduleRow : r = Saved(p)[s]
  BY SavedTyped DEF Inv
<1>3. [r EXCEPT !.status = "disabled", !.active = FALSE] \in ScheduleRow
  BY DEF ScheduleRow
<1>4. row' \in [Schedules -> ScheduleRow]
  BY <1>1, <1>2, <1>3, CommitTyped DEF Inv, Disable
<1> QED
  BY <1>4, GivesUp DEF Disable

LEMMA LoseClaimInv == ASSUME Inv, NEW p \in Procs, LoseClaim(p) PROVE Inv'
<1>1. row' \in [Schedules -> ScheduleRow]
  BY SavedTyped DEF Inv, LoseClaim
<1> QED
  BY <1>1, GivesUp DEF LoseClaim

LEMMA ClaimMoves ==
  ASSUME Inv, NEW p \in Procs, Claim(p)
  PROVE  \E c \in Cycle :
            /\ cycle' = [cycle EXCEPT ![p] = c]
            /\ c.pc = "run" /\ c.on = cycle[p].on /\ c.at = cycle[p].at
            /\ c.unsaved = {}
<1>1. PICK d \in Cycle : d = cycle[p]
  BY DEF Inv, TypeOK
<1> DEFINE c == [d EXCEPT !.pc = "run", !.unsaved = {}]
<1>2. c \in Cycle /\ c.pc = "run" /\ c.on = d.on /\ c.at = d.at /\ c.unsaved = {}
  BY DEF Cycle
<1>3. cycle' = [cycle EXCEPT ![p] = c]
  BY <1>1 DEF Inv, TypeOK, Claim, Committed
<1> HIDE DEF c
<1> QED
  BY <1>1, <1>2, <1>3

LEMMA ClaimTyped ==
  ASSUME Inv, NEW p \in Procs, Claim(p)
  PROVE  row' \in [Schedules -> ScheduleRow]
<1>1. PICK s \in Schedules : s = cycle[p].on
  BY DEF Inv, HandSound, Claim
<1>2. PICK r \in ScheduleRow : r = Saved(p)[s]
  BY SavedTyped DEF Inv
<1>3. PICK t \in Int : t = cycle[p].at + ClaimTTL
  BY SchedulerConstants DEF Inv, TypeOK, Cycle, Times
<1>4. [r EXCEPT !.claim = t, !.status = "due"] \in ScheduleRow
  BY DEF ScheduleRow
<1> QED
  BY <1>1, <1>2, <1>3, <1>4, CommitTyped DEF Inv, Claim

\* The claim takes the advisory lock: from here on the window is p's.
LEMMA ClaimInv == ASSUME Inv, NEW p \in Procs, Claim(p) PROVE Inv'
<1>1. PICK c \in Cycle :
         /\ cycle' = [cycle EXCEPT ![p] = c]
         /\ c.pc = "run" /\ c.on = cycle[p].on /\ c.at = cycle[p].at
  BY ClaimMoves
<1>2. cycle[p].on \in Schedules
  BY DEF Inv, HandSound, Claim
<1>3. /\ advisory[cycle[p].on][Window(p)] \in {Free, p}
      /\ advisory' = [advisory EXCEPT ![cycle[p].on][Window(p)] = p]
  BY DEF Claim, TryWindowLock
<1>4. /\ advisory' \in [Schedules -> [Windows -> Procs \cup {Free}]]
      /\ advisory'[cycle[p].on][Window(p)] = p
      /\ \A q \in Procs \ {p}, s \in Schedules, w \in Windows :
            advisory'[s][w] = q <=> advisory[s][w] = q
  BY <1>2, <1>3, AdvisorySet DEF Inv
<1>5. TypeOK'
  BY <1>1, <1>4, ClaimTyped, CycleTyped DEF Inv, TypeOK, Claim
<1>6. UNCHANGED <<manifest, delivered, lost>>
  BY DEF Claim
<1>7. cycle'[p] = c
  BY <1>1 DEF Inv, TypeOK
<1>8. \A s \in Schedules, w \in Windows :
         NeedsLock(p, s, w)' => advisory'[s][w] = p
  BY <1>1, <1>4, <1>7 DEF NeedsLock, Window
<1>9. OwnStep(p, c)
  BY <1>1, <1>2, <1>4, <1>6, <1>8 DEF OwnStep
<1>10. Tidy(p, c)
  BY <1>1, <1>6 DEF Tidy, LeftAs
<1>11. DeliveriesBounded'
  BY <1>1, <1>6, <1>9, NotOpened, StillBounded
<1> QED
  BY <1>5, <1>9, <1>10, <1>11, StepInv

-----------------------------------------------------------------------------
(* The export *)

\* A cycle goes on with its schedule, with the lock or without it.
LEMMA GoesOn ==
  ASSUME Inv, NEW p \in Procs, NEW c \in Cycle,
         cycle[p].pc \in {"run", "lookup", "reuse", "key", "export"},
         cycle' = [cycle EXCEPT ![p] = c],
         c.on = cycle[p].on, c.at = cycle[p].at,
         UNCHANGED <<advisory, lost>>
  PROVE  /\ OwnStep(p, c)
         /\ \A s \in Schedules, w \in Windows :
               NeedsLock(p, s, w)' => NeedsLock(p, s, w)
<1>1. cycle'[p] = c
  BY DEF Inv, TypeOK
<1>2. \A s \in Schedules, w \in Windows :
         NeedsLock(p, s, w)' => NeedsLock(p, s, w)
  BY <1>1 DEF NeedsLock, Window
<1>3. \A s \in Schedules, w \in Windows :
         NeedsLock(p, s, w)' => advisory'[s][w] = p \/ p \in Loose(s, w)
  BY <1>2 DEF Loose
<1>4. c.on \in Schedules
  BY DEF Inv, HandSound, Busy
<1> QED
  BY <1>2, <1>3, <1>4, LocksStay DEF OwnStep

\* It has looked, and found the manifest as it leaves it.
LEMMA GoesOnLooking ==
  ASSUME Inv, TypeOK', NEW p \in Procs, NEW c \in Cycle,
         cycle[p].pc \in {"run", "lookup"},
         cycle' = [cycle EXCEPT ![p] = c],
         c.on = cycle[p].on, c.at = cycle[p].at,
         UNCHANGED <<advisory, manifest, delivered, lost>>,
         c.pc # "export", LeftAs(c.pc, KeyedManifest(p))
  PROVE  Inv'
<1>1. /\ OwnStep(p, c)
      /\ \A s \in Schedules, w \in Windows :
            NeedsLock(p, s, w)' => NeedsLock(p, s, w)
  BY GoesOn
<1>2. Tidy(p, c)
  BY <1>1 DEF Tidy, NeedsLock, KeyedManifest
<1>3. ASSUME NEW s \in Schedules, NEW w \in Windows, Open(s, w)'
      PROVE  Open(s, w)
  <2>1. CASE c.pc # "reuse"
    BY <2>1, <1>1, <1>3, NotOpened
  <2>2. ASSUME c.pc = "reuse", NEW q \in Procs, advisory'[s][w] = q,
               NeedsLock(q, s, w)', cycle'[q].pc \in {"reuse", "export"}
        PROVE  Open(s, w)
    <3>1. CASE q = p
      <4>1. NeedsLock(p, s, w)
        BY <2>2, <3>1, <1>1
      <4>2. manifest[s][w] = "failed"
        BY <2>2, <4>1 DEF NeedsLock, LeftAs, KeyedManifest
      <4> QED
        BY <4>2 DEF Open
    <3>2. CASE q # p
      <4>1. cycle'[q] = cycle[q] /\ NeedsLock(q, s, w) /\ advisory[s][w] = q
        BY <2>2, <3>2, <1>1, OthersStay DEF Inv
      <4> QED
        BY <2>2, <4>1 DEF Open
    <3> QED
      BY <3>1, <3>2
  <2>3. CASE manifest'[s][w] \in {"none", "failed"}
    BY <2>3 DEF Open
  <2> QED
    BY <1>3, <2>1, <2>2, <2>3 DEF Open
<1>4. DeliveriesBounded'
  BY <1>1, <1>3, StillBounded
<1> QED
  BY <1>1, <1>2, <1>4, StepInv

\* A cycle is done with its schedule, and may have unlocked its window.
LEMMA Finishes ==
  ASSUME Inv, NEW p \in Procs, cycle[p].pc \in Busy,
         Unlock(p), NextSchedule(p, {}),
         row' \in [Schedules -> ScheduleRow],
         UNCHANGED <<clock, manifest, redis, crashes, failures, delivered, lost>>
  PROVE  Inv'
<1>1. PICK c \in Cycle : cycle' = [cycle EXCEPT ![p] = c] /\ c.pc = "scan"
  BY NextMoves DEF Inv
<1>2. /\ advisory' \in [Schedules -> [Windows -> Procs \cup {Free}]]
      /\ \A q \in Procs \ {p}, s \in Schedules, w \in Windows :
            advisory'[s][w] = q <=> advisory[s][w] = q
  BY Unlocked DEF Inv, HandSound
<1>3. TypeOK'
  BY <1>1, <1>2, CycleTyped DEF Inv, TypeOK
<1> QED
  BY <1>1, <1>2, <1>3, QuietInv DEF Busy

\* The row of the schedule the cycle has in hand, and that row written.
LEMMA RowInHand ==
  ASSUME Inv, NEW p \in Procs, cycle[p].pc \in Busy
  PROVE  cycle[p].on \in Schedules /\ row[cycle[p].on] \in ScheduleRow
  BY DEF Inv, HandSound, TypeOK

LEMMA RunMoves ==
  ASSUME Inv, NEW p \in Procs, Run(p)
  PROVE  \E c \in Cycle :
            /\ cycle' = [cycle EXCEPT ![p] = c]
            /\ c.pc = "lookup" /\ c.on = cycle[p].on /\ c.at = cycle[p].at
            /\ c.unsaved = cycle[p].unsaved
<1>1. PICK d \in Cycle : d = cycle[p]
  BY DEF Inv, TypeOK
<1>2. PICK n \in Nat : n = row[cycle[p].on].retries
  BY RowInHand DEF Run, Busy, ScheduleRow
<1> DEFINE c == [d EXCEPT !.pc = "lookup", !.retries = n]
<1>3. /\ c \in Cycle /\ c.pc = "lookup" /\ c.on = d.on /\ c.at = d.at
      /\ c.unsaved = d.unsaved
  BY DEF Cycle
<1>4. cycle' = [cycle EXCEPT ![p] = c]
  BY <1>1, <1>2 DEF Inv, TypeOK, Run
<1> HIDE DEF c
<1> QED
  BY <1>1, <1>3, <1>4

LEMMA RunTyped ==
  ASSUME Inv, NEW p \in Procs, Run(p)
  PROVE  row' \in [Schedules -> ScheduleRow]
<1>1. PICK s \in Schedules : s = cycle[p].on
  BY RowInHand DEF Run, Busy
<1>2. PICK r \in ScheduleRow : r = row[s]
  BY DEF Inv, TypeOK
<1>3. PICK t \in Times : t = cycle[p].at
  BY InHand DEF Inv
<1>4. [r EXCEPT !.status = "running", !.started = t] \in ScheduleRow
  BY DEF ScheduleRow
<1> QED
  BY <1>1, <1>2, <1>3, <1>4, CommitTyped DEF Inv, Run

LEMMA RunInv == ASSUME Inv, NEW p \in Procs, Run(p) PROVE Inv'
<1>1. PICK c \in Cycle :
         /\ cycle' = [cycle EXCEPT ![p] = c]
         /\ c.pc = "lookup" /\ c.on = cycle[p].on /\ c.at = cycle[p].at
  BY RunMoves
<1>2. cycle[p].pc \in {"run", "lookup"}
  BY DEF Run
<1>3. UNCHANGED <<advisory, manifest, delivered, lost>>
  BY DEF Run
<1>4. TypeOK'
  BY <1>1, RunTyped, CycleTyped DEF Inv, TypeOK, Run
<1>5. c.pc # "export" /\ LeftAs(c.pc, KeyedManifest(p))
  BY <1>1 DEF LeftAs
<1> QED
  BY <1>1, <1>2, <1>3, <1>4, <1>5, GoesOnLooking

LEMMA AlreadyExportedTyped ==
  ASSUME Inv, NEW p \in Procs, AlreadyExported(p)
  PROVE  row' \in [Schedules -> ScheduleRow]
<1>1. PICK s \in Schedules : s = cycle[p].on
  BY RowInHand DEF AlreadyExported, Busy
<1>2. PICK r \in ScheduleRow : r = row[s]
  BY DEF Inv, TypeOK
<1>3. PICK t \in Times, w \in Windows : t = cycle[p].at /\ w = Window(p)
  BY InHand DEF Inv
<1>4. NoTime \in Int
  BY DEF NoTime
<1>5. [r EXCEPT !.lastRun = t, !.status = "success", !.window = w,
                !.claim = NoTime, !.started = NoTime] \in ScheduleRow
  BY <1>4 DEF ScheduleRow
<1> QED
  BY <1>1, <1>2, <1>3, <1>5, CommitTyped DEF Inv, AlreadyExported

LEMMA AlreadyExportedInv ==
  ASSUME Inv, NEW p \in Procs, AlreadyExported(p) PROVE Inv'
<1>1. cycle[p].pc \in Busy
  BY DEF AlreadyExported, Busy
<1> QED
  BY <1>1, AlreadyExportedTyped, Finishes DEF AlreadyExported

LEMMA FindFailedInv == ASSUME Inv, NEW p \in Procs, FindFailed(p) PROVE Inv'
<1>1. PICK c \in Cycle :
         /\ cycle' = [cycle EXCEPT ![p] = c]
         /\ c.pc = "reuse" /\ c.on = cycle[p].on /\ c.at = cycle[p].at
  BY GotoMoves DEF Inv, FindFailed, Stages
<1>2. /\ cycle[p].pc \in {"run", "lookup"} /\ KeyedManifest(p) = "failed"
      /\ UNCHANGED <<advisory, manifest, delivered, lost>>
  BY DEF FindFailed
<1>3. TypeOK'
  BY <1>1, CycleTyped DEF Inv, TypeOK, FindFailed
<1>4. c.pc # "export" /\ LeftAs(c.pc, KeyedManifest(p))
  BY <1>1, <1>2 DEF LeftAs
<1> QED
  BY <1>1, <1>2, <1>3, <1>4, GoesOnLooking

LEMMA CreateManifestInv ==
  ASSUME Inv, NEW p \in Procs, CreateManifest(p) PROVE Inv'
<1>1. PICK c \in Cycle :
         /\ cycle' = [cycle EXCEPT ![p] = c]
         /\ c.pc = "key" /\ c.on = cycle[p].on /\ c.at = cycle[p].at
  BY GotoMoves DEF Inv, CreateManifest, Stages
<1>2. /\ cycle[p].pc \in {"run", "lookup"} /\ KeyedManifest(p) = "none"
      /\ UNCHANGED <<advisory, manifest, delivered, lost>>
  BY DEF CreateManifest
<1>3. TypeOK'
  BY <1>1, CycleTyped DEF Inv, TypeOK, CreateManifest
<1>4. c.pc # "export" /\ LeftAs(c.pc, KeyedManifest(p))
  BY <1>1, <1>2 DEF LeftAs
<1> QED
  BY <1>1, <1>2, <1>3, <1>4, GoesOnLooking

\* The manifest of the window is running, and the cycle exports: it had its
\* chance before, in the stage it comes from or from the missing manifest.
LEMMA StartsExport ==
  ASSUME Inv, NEW p \in Procs, cycle[p].pc \in {"reuse", "key"},
         cycle[p].pc = "key" => KeyedManifest(p) = "none",
         SetManifest(p, "running"), Goto(p, "export"),
         UNCHANGED <<clock, row, redis, advisory, crashes, failures, delivered,
                     lost>>
  PROVE  Inv'
<1>1. PICK c \in Cycle :
         /\ cycle' = [cycle EXCEPT ![p] = c]
         /\ c.pc = "export" /\ c.on = cycle[p].on /\ c.at = cycle[p].at
  BY GotoMoves DEF Inv, Stages
<1>2. "running" \in ManifestStates
  BY DEF ManifestStates
<1>3. /\ manifest' \in [Schedules -> [Windows -> ManifestStates]]
      /\ manifest'[cycle[p].on][Window(p)] = "running"
      /\ \A s \in Schedules, w \in Windows :
            s # cycle[p].on \/ w # Window(p) => manifest'[s][w] = manifest[s][w]
      /\ \A s \in Schedules, w \in Windows :
            lost[s][w] = 0 /\ advisory[s][w] \in Procs \ {p} =>
               manifest'[s][w] = manifest[s][w]
  BY <1>2, ManifestSet
<1>4. TypeOK'
  BY <1>1, <1>3, CycleTyped DEF Inv, TypeOK, ManifestStates
<1>5. /\ OwnStep(p, c)
      /\ \A s \in Schedules, w \in Windows :
            NeedsLock(p, s, w)' => NeedsLock(p, s, w)
  BY <1>1, GoesOn
<1>6. Tidy(p, c)
  BY <1>1, <1>3, <1>5 DEF Tidy, NeedsLock, LeftAs
<1>7. ASSUME NEW s \in Schedules, NEW w \in Windows, Open(s, w)'
      PROVE  Open(s, w)
  <2>1. CASE manifest'[s][w] \in {"none", "failed"}
    BY <2>1, <1>3 DEF Open
  <2>2. ASSUME NEW q \in Procs, advisory'[s][w] = q, NeedsLock(q, s, w)',
               cycle'[q].pc \in {"reuse", "export"}
        PROVE  Open(s, w)
    <3>1. CASE q = p
      <4>1. NeedsLock(p, s, w) /\ advisory[s][w] = p
        BY <2>2, <3>1, <1>5
      <4>2. CASE cycle[p].pc = "reuse"
        BY <4>1, <4>2 DEF Open
      <4>3. CASE cycle[p].pc = "key"
        BY <4>1, <4>3 DEF Open, NeedsLock, KeyedManifest
      <4> QED
        BY <4>2, <4>3
    <3>2. CASE q # p
      <4>1. cycle'[q] = cycle[q] /\ NeedsLock(q, s, w) /\ advisory[s][w] = q
        BY <2>2, <3>2, <1>5, OthersStay DEF Inv
      <4> QED
        BY <2>2, <4>1 DEF Open
    <3> QED
      BY <3>1, <3>2
  <2> QED
    BY <1>7, <2>1, <2>2 DEF Open
<1>8. DeliveriesBounded'
  BY <1>5, <1>7, StillBounded
<1> QED
  BY <1>4, <1>5, <1>6, <1>8, StepInv

LEMMA ReuseManifestInv ==
  ASSUME Inv, NEW p \in Procs, ReuseManifest(p) PROVE Inv'
  BY StartsExport DEF ReuseManifest

LEMMA SetKeyInv == ASSUME Inv, NEW p \in Procs, SetKey(p) PROVE Inv'
  BY StartsExport DEF SetKey

LEMMA EndedCycle ==
  /\ [Idle EXCEPT !.pc = "ended"] \in Cycle
  /\ [Idle EXCEPT !.pc = "ended"].pc = "ended"
  /\ [Idle EXCEPT !.pc = "ended"].unsaved = {}
  BY IdleCycle DEF Cycle

LEMMA KeyRefusedInv == ASSUME Inv, NEW p \in Procs, KeyRefused(p) PROVE Inv'
<1>1. PICK c \in Cycle : cycle' = [cycle EXCEPT ![p] = c] /\ c.pc = "ended"
  BY EndedCycle DEF KeyRefused
<1>2. UNCHANGED <<advisory, manifest, delivered, lost>>
  BY DEF KeyRefused
<1>3. TypeOK'
  BY <1>1, CycleTyped DEF Inv, TypeOK, KeyRefused
<1> QED
  BY <1>1, <1>2, <1>3, QuietInv, LocksStay DEF Busy

LEMMA ChancesPrimeFinite ==
  ASSUME NEW s, NEW w
  PROVE  Cardinality(Chances(s, w)') \in Nat
<1>1. IsFiniteSet(Procs \cup {Free})
  BY SchedulerConstants, FS_AddElement
<1>2. Chances(s, w)' \subseteq Procs \cup {Free}
  BY DEF Chances, Loose
<1> QED
  BY <1>1, <1>2, FS_Subset, FS_CardinalityType

\* The chance of a cycle that exports is its own once it has lost the lock.
ChanceOf(p, s, w) == IF advisory[s][w] = p THEN Free ELSE p

LEMMA HasChance ==
  ASSUME Inv, NEW p \in Procs, NEW s \in Schedules, NEW w \in Windows,
         NeedsLock(p, s, w), cycle[p].pc = "export"
  PROVE  ChanceOf(p, s, w) \in Chances(s, w)
<1>1. CASE advisory[s][w] = p
  BY <1>1 DEF ChanceOf, Chances, Open
<1>2. CASE advisory[s][w] # p
  BY <1>2 DEF ChanceOf, Chances, Loose
<1> QED
  BY <1>1, <1>2

\* The cycle of p is done with the export of w: whoever else had a chance has
\* it still, and a failed manifest opens the window again.
LEMMA ChanceSpent ==
  ASSUME Inv, NEW p \in Procs, NEW c \in Cycle, OwnStep(p, c),
         NEW s \in Schedules, NEW w \in Windows,
         NeedsLock(p, s, w), c.pc \in {"scan", "failed"}
  PROVE  /\ Chances(s, w)' \subseteq (Chances(s, w) \ {ChanceOf(p, s, w)})
                                        \cup {Free}
         /\ manifest'[s][w] = "delivered" =>
               Chances(s, w)' \subseteq Chances(s, w) \ {ChanceOf(p, s, w)}
<1>1. Loose(s, w)' \subseteq Loose(s, w)
  BY LooseShrinks DEF Inv
<1>2. cycle'[p] = c /\ ~NeedsLock(p, s, w)'
  BY OthersStay DEF Inv, NeedsLock
<1>3. p \notin Loose(s, w)'
  BY <1>2 DEF Loose
<1>4. Free \notin Loose(s, w)
  BY SchedulerConstants DEF Loose
<1>5. Chances(s, w)' \subseteq Loose(s, w)' \cup {Free}
  BY DEF Chances
<1>6. Loose(s, w)' \subseteq Chances(s, w) \ {ChanceOf(p, s, w)}
  BY <1>1, <1>3, <1>4 DEF Chances, ChanceOf
<1>7. ASSUME manifest'[s][w] = "delivered", Open(s, w)'
      PROVE  Open(s, w) /\ advisory[s][w] # p
  <2>1. PICK q \in Procs : /\ advisory'[s][w] = q /\ NeedsLock(q, s, w)'
                           /\ cycle'[q].pc \in {"reuse", "export"}
    BY <1>7 DEF Open
  <2>2. q # p
    BY <1>2, <2>1
  <2>3. cycle'[q] = cycle[q] /\ NeedsLock(q, s, w) /\ advisory[s][w] = q
    BY <2>1, <2>2, OthersStay DEF Inv
  <2> QED
    BY <2>1, <2>2, <2>3 DEF Open
<1>8. ASSUME manifest'[s][w] = "delivered", Free \in Chances(s, w)'
      PROVE  Free \in Chances(s, w) \ {ChanceOf(p, s, w)}
  <2>1. Open(s, w)'
    BY <1>1, <1>4, <1>8 DEF Chances
  <2>2. Open(s, w) /\ advisory[s][w] # p
    BY <1>7, <1>8, <2>1
  <2> QED
    BY <2>2, SchedulerConstants DEF Chances, ChanceOf
<1> QED
  BY <1>5, <1>6, <1>8

\* In the other windows nothing is opened.
LEMMA ElsewhereStays ==
  ASSUME Inv, NEW p \in Procs, NEW c \in Cycle, OwnStep(p, c),
         c.pc \in {"scan", "failed"},
         NEW s \in Schedules, NEW w \in Windows,
         manifest'[s][w] = manifest[s][w]
  PROVE  Chances(s, w)' \subseteq Chances(s, w)
<1>1. Loose(s, w)' \subseteq Loose(s, w)
  BY LooseShrinks DEF Inv
<1>2. ASSUME Open(s, w)' PROVE Open(s, w)
  <2>1. CASE manifest'[s][w] \in {"none", "failed"}
    BY <2>1 DEF Open
  <2>2. ASSUME NEW q \in Procs, advisory'[s][w] = q, NeedsLock(q, s, w)',
               cycle'[q].pc \in {"reuse", "export"}
        PROVE  Open(s, w)
    <3>1. q # p
      BY <2>2, OthersStay DEF Inv
    <3>2. cycle'[q] = cycle[q] /\ NeedsLock(q, s, w) /\ advisory[s][w] = q
      BY <2>2, <3>1, OthersStay DEF Inv
    <3> QED
      BY <2>2, <3>2 DEF Open
  <2> QED
    BY <1>2, <2>1, <2>2 DEF Open
<1> QED
  BY <1>1, <1>2 DEF Chances

\* The delivery uses up the chance of the cycle.
LEMMA DeliverInv == ASSUME Inv, NEW p \in Procs, Deliver(p) PROVE Inv'
<1>1. cycle[p].pc = "export" /\ cycle[p].on \in Schedules
  BY DEF Deliver, Inv, HandSound, Busy
<1>2. {cycle[p].on} \in SUBSET Schedules
  BY <1>1
<1>3. PICK c \in Cycle : cycle' = [cycle EXCEPT ![p] = c] /\ c.pc = "scan"
  BY <1>2, NextMoves DEF Inv, Deliver
<1>4. PICK s \in Schedules, w \in Windows : s = cycle[p].on /\ w = Window(p)
  BY <1>1, InHand DEF Inv
<1>5. SetManifest(p, "delivered") /\ "delivered" \in ManifestStates
  BY DEF Deliver, ManifestStates
<1>6. /\ manifest' \in [Schedules -> [Windows -> ManifestStates]]
      /\ manifest'[s][w] = "delivered"
      /\ \A t \in Schedules, u \in Windows :
            t # s \/ u # w => manifest'[t][u] = manifest[t][u]
      /\ \A t \in Schedules, u \in Windows :
            lost[t][u] = 0 /\ advisory[t][u] \in Procs \ {p} =>
               manifest'[t][u] = manifest[t][u]
  BY <1>1, <1>4, <1>5, ManifestSet
<1>7. PICK n \in Nat : n = delivered[s][w] + 1
  BY DEF Inv, TypeOK
<1>8. delivered' = [delivered EXCEPT ![s][w] = n]
  BY <1>4, <1>7 DEF Deliver, Inv, TypeOK
<1>9. /\ delivered' \in [Schedules -> [Windows -> Nat]]
      /\ delivered'[s][w] = n
      /\ \A t \in Schedules, u \in Windows :
            t # s \/ u # w => delivered'[t][u] = delivered[t][u]
  BY <1>8, CellSet DEF Inv, TypeOK
<1>10. /\ advisory' \in [Schedules -> [Windows -> Procs \cup {Free}]]
       /\ \A q \in Procs \ {p}, t \in Schedules, u \in Windows :
             advisory'[t][u] = q <=> advisory[t][u] = q
  BY <1>1, Unlocked DEF Inv, Deliver
<1>11. TypeOK'
  BY <1>3, <1>6, <1>9, <1>10, CycleTyped DEF Inv, TypeOK, Deliver, ManifestStates
<1>12. \A t \in Schedules, u \in Windows : ~NeedsLock(p, t, u)'
  BY <1>3 DEF Inv, TypeOK, NeedsLock
<1>13. OwnStep(p, c) /\ UNCHANGED lost
  BY <1>3, <1>10, <1>12 DEF OwnStep, Deliver, Busy
<1>14. Tidy(p, c)
  BY <1>6, <1>12 DEF Tidy
<1>15. ASSUME NEW t \in Schedules, NEW u \in Windows
       PROVE  delivered'[t][u] + Cardinality(Chances(t, u)') <= 1 + lost[t][u]
  <2>1. /\ delivered[t][u] \in Nat /\ lost[t][u] \in Nat
        /\ delivered[t][u] + Cardinality(Chances(t, u)) <= 1 + lost[t][u]
        /\ IsFiniteSet(Chances(t, u)) /\ Cardinality(Chances(t, u)) \in Nat
    BY SchedulerConstants, ChancesFinite DEF Inv, TypeOK, DeliveriesBounded
  <2>2. CASE t = s /\ u = w
    <3>1. NeedsLock(p, s, w)
      BY <1>1, <1>4 DEF NeedsLock
    <3>2. ChanceOf(p, s, w) \in Chances(s, w)
      BY <1>1, <3>1, HasChance
    <3>3. Chances(s, w)' \subseteq Chances(s, w) \ {ChanceOf(p, s, w)}
      BY <1>3, <1>6, <1>13, <3>1, ChanceSpent
    <3>4. Cardinality(Chances(s, w)') + 1 <= Cardinality(Chances(s, w))
      BY <2>1, <2>2, <3>2, <3>3, Removed
    <3>5. Chances(s, w)' \subseteq Chances(s, w)
      BY <3>3
    <3>6. Cardinality(Chances(s, w)') \in Nat
      BY <2>1, <2>2, <3>5, FS_Subset, FS_CardinalityType
    <3> QED
      BY <1>7, <1>9, <2>1, <2>2, <3>4, <3>6
  <2>3. CASE t # s \/ u # w
    <3>1. manifest'[t][u] = manifest[t][u] /\ delivered'[t][u] = delivered[t][u]
      BY <1>6, <1>9, <2>3
    <3>2. Chances(t, u)' \subseteq Chances(t, u)
      BY <1>3, <1>13, <3>1, ElsewhereStays
    <3>3. /\ Cardinality(Chances(t, u)') <= Cardinality(Chances(t, u))
          /\ Cardinality(Chances(t, u)') \in Nat
      BY <2>1, <3>2, FS_Subset, FS_CardinalityType
    <3> QED
      BY <2>1, <3>1, <3>3
  <2> QED
    BY <2>2, <2>3
<1>16. DeliveriesBounded'
  BY <1>13, <1>15 DEF DeliveriesBounded
<1> QED
  BY <1>11, <1>13, <1>14, <1>16, StepInv

LEMMA ExportFailsMoves ==
  ASSUME Inv, NEW p \in Procs, ExportFails(p)
  PROVE  \E c \in Cycle :
            /\ cycle' = [cycle EXCEPT ![p] = c]
            /\ c.pc = "failed" /\ c.on = cycle[p].on /\ c.at = cycle[p].at
            /\ c.unsaved = cycle[p].unsaved
<1>1. PICK d \in Cycle : d = cycle[p]
  BY DEF Inv, TypeOK
<1>2. PICK m \in Nat : m = row[cycle[p].on].retries
  BY RowInHand DEF ExportFails, Busy, ScheduleRow
<1>3. PICK n \in Nat : n = IF cycle[p].pc = "export" THEN m ELSE d.retries
  BY DEF Cycle
<1> DEFINE c == [d EXCEPT !.pc = "failed", !.retries = n]
<1>4. /\ c \in Cycle /\ c.pc = "failed" /\ c.on = d.on /\ c.at = d.at
      /\ c.unsaved = d.unsaved
  BY DEF Cycle
<1>5. cycle' = [cycle EXCEPT ![p] = c]
  BY <1>1, <1>2, <1>3 DEF Inv, TypeOK, ExportFails
<1> HIDE DEF c
<1> QED
  BY <1>1, <1>4, <1>5

LEMMA FailuresTyped ==
  ASSUME Inv, NEW p \in Procs, ExportFails(p)
  PROVE  failures' \in [Schedules -> 0 .. MaxFailures]
<1>1. PICK s \in Schedules : s = cycle[p].on
  BY RowInHand DEF ExportFails, Busy
<1>2. PICK n \in 0 .. MaxFailures : n = failures[s] + 1
  BY <1>1, SchedulerConstants DEF Inv, TypeOK, ExportFails
<1>3. failures' = [failures EXCEPT ![s] = n]
  BY <1>1, <1>2 DEF ExportFails, Inv, TypeOK
<1> QED
  BY <1>3 DEF Inv, TypeOK

\* An export that raises leaves the manifest to whoever comes next, in place
\* of its own chance.
LEMMA ExportFailsInv ==
  ASSUME Inv, NEW p \in Procs, ExportFails(p) PROVE Inv'
<1>1. PICK c \in Cycle :
         /\ cycle' = [cycle EXCEPT ![p] = c]
         /\ c.pc = "failed" /\ c.on = cycle[p].on /\ c.at = cycle[p].at
  BY ExportFailsMoves
<1>2. cycle[p].pc \in {"lookup", "export"} /\ UNCHANGED <<advisory, delivered, lost>>
  BY DEF ExportFails
<1>3. CASE cycle[p].pc # "export"
  <2>1. cycle[p].pc \in {"run", "lookup"} /\ UNCHANGED manifest
    BY <1>2, <1>3 DEF ExportFails
  <2>2. TypeOK'
    BY <1>1, <2>1, FailuresTyped, CycleTyped DEF Inv, TypeOK, ExportFails
  <2>3. c.pc # "export" /\ LeftAs(c.pc, KeyedManifest(p))
    BY <1>1 DEF LeftAs
  <2> QED
    BY <1>1, <1>2, <2>1, <2>2, <2>3, GoesOnLooking
<1>4. CASE cycle[p].pc = "export"
  <2>1. SetManifest(p, "failed") /\ "failed" \in ManifestStates
    BY <1>4 DEF ExportFails, ManifestStates
  <2>2. PICK s \in Schedules, w \in Windows : s = cycle[p].on /\ w = Window(p)
    BY <1>4, InHand, RowInHand DEF Inv, Busy
  <2>3. /\ manifest' \in [Schedules -> [Windows -> ManifestStates]]
        /\ \A t \in Schedules, u \in Windows :
              t # s \/ u # w => manifest'[t][u] = manifest[t][u]
        /\ \A t \in Schedules, u \in Windows :
              lost[t][u] = 0 /\ advisory[t][u] \in Procs \ {p} =>
                 manifest'[t][u] = manifest[t][u]
    BY <1>4, <2>1, <2>2, ManifestSet
  <2>4. TypeOK'
    BY <1>1, <2>3, FailuresTyped, CycleTyped
    DEF Inv, TypeOK, ExportFails, ManifestStates
  <2>5. OwnStep(p, c)
    BY <1>1, <1>2, GoesOn
  <2>6. Tidy(p, c)
    BY <1>1, <2>3 DEF Tidy, LeftAs
  <2>7. ASSUME NEW t \in Schedules, NEW u \in Windows
        PROVE  delivered'[t][u] + Cardinality(Chances(t, u)') <= 1 + lost[t][u]
    <3>1. /\ delivered[t][u] \in Nat /\ lost[t][u] \in Nat
          /\ delivered[t][u] + Cardinality(Chances(t, u)) <= 1 + lost[t][u]
          /\ IsFiniteSet(Chances(t, u)) /\ Cardinality(Chances(t, u)) \in Nat
      BY SchedulerConstants, ChancesFinite DEF Inv, TypeOK, DeliveriesBounded
    <3>2. Cardinality(Chances(t, u)') <= Cardinality(Chances(t, u))
      <4>1. CASE t = s /\ u = w
        <5>1. NeedsLock(p, s, w)
          BY <1>4, <2>2 DEF NeedsLock
        <5>2. ChanceOf(p, s, w) \in Chances(s, w)
          BY <1>4, <5>1, HasChance
        <5>3. Chances(s, w)' \subseteq (Chances(s, w) \ {ChanceOf(p, s, w)})
                                       \cup {Free}
          BY <1>1, <2>5, <5>1, ChanceSpent
        <5> QED
          BY <3>1, <4>1, <5>2, <5>3, Exchanged
      <4>2. CASE t # s \/ u # w
        <5>1. Chances(t, u)' \subseteq Chances(t, u)
          BY <1>1, <2>3, <2>5, <4>2, ElsewhereStays
        <5> QED
          BY <3>1, <5>1, FS_Subset
      <4> QED
        BY <4>1, <4>2
    <3>3. Cardinality(Chances(t, u)') \in Nat
      BY ChancesPrimeFinite
    <3> QED
      BY <1>2, <3>1, <3>2, <3>3
  <2>8. DeliveriesBounded'
    BY <1>2, <2>7 DEF DeliveriesBounded
  <2> QED
    BY <2>4, <2>5, <2>6, <2>8, StepInv
<1> QED
  BY <1>3, <1>4

LEMMA FailScheduleWrites ==
  ASSUME Inv, NEW p \in Procs, FailSchedule(p)
  PROVE  \E q \in ScheduleRow :
            q.status # "success" /\ Commit(p, cycle[p].on, q)
<1>1. PICK s \in Schedules : s = cycle[p].on
  BY RowInHand DEF FailSchedule, Busy
<1>2. PICK r \in ScheduleRow : r = row[s]
  BY DEF Inv, TypeOK
<1>3. PICK t \in Times : t = cycle[p].at
  BY InHand DEF Inv
<1>4. PICK n \in Nat : n = cycle[p].retries + 1
  BY InHand DEF Inv
<1>5. PICK spent \in BOOLEAN : spent = (n > MaxRetry)
  <2>1. (n > MaxRetry) \in BOOLEAN
    OBVIOUS
  <2> QED
    BY <2>1, Zenon
<1>6. PICK b \in Int : b = t + Backoff(n, 60)
  <2>1. PICK d \in Int : d = Backoff(n, 60)
    BY BackoffTyped
  <2> QED
    BY <2>1, SchedulerConstants DEF Times
<1>7. PICK active \in BOOLEAN : active = (r.active /\ ~spent)
  BY DEF ScheduleRow
<1>8. PICK next \in Int : next = IF spent THEN r.nextRetry ELSE b
  BY DEF ScheduleRow
<1>9. PICK status \in {"disabled", "failed"} :
         status = IF spent THEN "disabled" ELSE "failed"
  OBVIOUS
<1>10. NoTime \in Int
  BY DEF NoTime
<1> DEFINE q == [r EXCEPT !.lastRun = t, !.retries = n, !.status = status,
                          !.active = active, !.nextRetry = next,
                          !.claim = NoTime, !.started = NoTime]
<1>11. q \in ScheduleRow /\ q.status # "success"
  BY <1>10 DEF ScheduleRow
<1>12. Commit(p, cycle[p].on, q)
  BY <1>1, <1>2, <1>3, <1>4, <1>5, <1>6, <1>7, <1>8, <1>9 DEF FailSchedule
<1> HIDE DEF q
<1> QED
  BY <1>11, <1>12

LEMMA FailScheduleTyped ==
  ASSUME Inv, NEW p \in Procs, FailSchedule(p)
  PROVE  row' \in [Schedules -> ScheduleRow]
<1>1. cycle[p].on \in Schedules
  BY RowInHand DEF FailSchedule, Busy
<1> QED
  BY <1>1, FailScheduleWrites, CommitTyped DEF Inv

LEMMA FailScheduleInv ==
  ASSUME Inv, NEW p \in Procs, FailSchedule(p) PROVE Inv'
<1>1. cycle[p].pc \in Busy
  BY DEF FailSchedule, Busy
<1> QED
  BY <1>1, FailScheduleTyped, Finishes DEF FailSchedule

\* A crash gives back every lock of the process, and no other.
LEMMA CrashInv == ASSUME Inv, NEW p \in Procs, Crash(p) PROVE Inv'
<1>1. /\ cycle' = [cycle EXCEPT ![p] = Idle]
      /\ UNCHANGED <<clock, row, manifest, redis, failures, delivered, lost>>
  BY DEF Crash
<1>2. crashes' \in 0 .. MaxCrashes
  BY SchedulerConstants DEF Crash, Inv, TypeOK
<1>3. /\ advisory' \in [Schedules -> [Windows -> Procs \cup {Free}]]
      /\ \A q \in Procs \ {p}, s \in Schedules, w \in Windows :
            advisory'[s][w] = q <=> advisory[s][w] = q
  BY SchedulerConstants DEF Crash, Inv, TypeOK
<1>4. TypeOK'
  BY <1>1, <1>2, <1>3, IdleCycle, CycleTyped DEF Inv, TypeOK
<1> QED
  BY <1>1, <1>3, <1>4, IdleCycle, QuietInv DEF Busy

LEMMA LostSet ==
  ASSUME Inv, NEW p \in Procs, NEW s \in Schedules, NEW w \in Windows,
         ConnectionClosed(p, s, w)
  PROVE  /\ lost' \in [Schedules -> [Windows -> 0 .. MaxLost]]
         /\ \A t \in Schedules, u \in Windows :
               lost'[t][u] = IF t = s /\ u = w /\ NeedsLock(p, s, w)
                             THEN lost[t][u] + 1 ELSE lost[t][u]
<1>1. CASE NeedsLock(p, s, w)
  <2>1. PICK n \in 0 .. MaxLost : n = lost[s][w] + 1
    BY <1>1, SchedulerConstants DEF ConnectionClosed, Inv, TypeOK
  <2>2. lost' = [lost EXCEPT ![s][w] = n]
    BY <1>1, <2>1 DEF ConnectionClosed, Inv, TypeOK
  <2> QED
    BY <1>1, <2>1, <2>2, CellSet DEF Inv, TypeOK
<1>2. CASE ~NeedsLock(p, s, w)
  BY <1>2 DEF ConnectionClosed, Inv, TypeOK
<1> QED
  BY <1>1, <1>2

\* A connection that closes adds a chance, for the cycle that goes on without
\* its lock, and a lock to the lost ones.
LEMMA ConnectionClosedInv ==
  ASSUME Inv, NEW p \in Procs, NEW s \in Schedules, NEW w \in Windows,
         ConnectionClosed(p, s, w)
  PROVE  Inv'
<1>1. /\ UNCHANGED <<clock, row, manifest, redis, cycle, crashes, failures,
                     delivered>>
      /\ advisory[s][w] = p /\ advisory' = [advisory EXCEPT ![s][w] = Free]
  BY DEF ConnectionClosed
<1>2. /\ advisory' \in [Schedules -> [Windows -> Procs \cup {Free}]]
      /\ advisory'[s][w] = Free
      /\ \A t \in Schedules, u \in Windows :
            t # s \/ u # w => advisory'[t][u] = advisory[t][u]
  BY <1>1, CellSet DEF Inv, TypeOK
<1>3. \A q \in Procs, t \in Schedules, u \in Windows :
         NeedsLock(q, t, u)' <=> NeedsLock(q, t, u)
  BY <1>1 DEF NeedsLock, Window
<1>4. \A t \in Schedules, u \in Windows : Open(t, u)' => Open(t, u)
  BY <1>1, <1>2, <1>3, SchedulerConstants DEF Open
<1>5. /\ lost' \in [Schedules -> [Windows -> 0 .. MaxLost]]
      /\ \A t \in Schedules, u \in Windows :
            lost'[t][u] = IF t = s /\ u = w /\ NeedsLock(p, s, w)
                          THEN lost[t][u] + 1 ELSE lost[t][u]
  BY LostSet
<1>6. \A t \in Schedules, u \in Windows : lost[t][u] \in Nat
  BY SchedulerConstants DEF Inv, TypeOK
<1>7. TypeOK'
  BY <1>1, <1>2, <1>5 DEF Inv, TypeOK
<1>8. HandSound'
  BY <1>1 DEF Inv, HandSound
<1>9. Guarded'
  <2> SUFFICES ASSUME NEW q \in Procs, NEW t \in Schedules, NEW u \in Windows,
                      NeedsLock(q, t, u)
               PROVE  advisory'[t][u] = q \/ lost'[t][u] > 0
    BY <1>3 DEF Guarded
  <2>1. advisory[t][u] = q \/ lost[t][u] > 0
    BY DEF Inv, Guarded
  <2>2. CASE t # s \/ u # w
    BY <2>1, <2>2, <1>2, <1>5
  <2>3. CASE t = s /\ u = w
    BY <2>1, <2>3, <1>1, <1>5, <1>6
  <2> QED
    BY <2>2, <2>3
<1>10. ManifestKept'
  <2> SUFFICES ASSUME NEW q \in Procs, NEW t \in Schedules, NEW u \in Windows,
                      NeedsLock(q, t, u), lost'[t][u] = 0
               PROVE  LeftAs(cycle[q].pc, manifest[t][u])
    BY <1>1, <1>3 DEF ManifestKept
  <2>1. lost[t][u] = 0
    BY <1>5, <1>6
  <2> QED
    BY <2>1 DEF Inv, ManifestKept
<1>11. ASSUME NEW t \in Schedules, NEW u \in Windows
       PROVE  delivered[t][u] + Cardinality(Chances(t, u)') <= 1 + lost'[t][u]
  <2>1. /\ delivered[t][u] \in Nat
        /\ delivered[t][u] + Cardinality(Chances(t, u)) <= 1 + lost[t][u]
        /\ IsFiniteSet(Chances(t, u)) /\ Cardinality(Chances(t, u)) \in Nat
    BY ChancesFinite DEF Inv, TypeOK, DeliveriesBounded
  <2>2. Cardinality(Chances(t, u)') \in Nat
    BY ChancesPrimeFinite
  <2>3. CASE t = s /\ u = w /\ NeedsLock(p, s, w)
    <3>1. Loose(t, u)' \subseteq Loose(t, u) \cup {p}
      BY <1>1, <1>3, <2>3 DEF Loose
    <3>2. Chances(t, u)' \subseteq Chances(t, u) \cup {p}
      BY <1>4, <3>1 DEF Chances
    <3>3. Cardinality(Chances(t, u)') <= Cardinality(Chances(t, u)) + 1
      BY <2>1, <3>2, Added
    <3> QED
      BY <1>5, <1>6, <2>1, <2>2, <2>3, <3>3
  <2>4. CASE ~(t = s /\ u = w /\ NeedsLock(p, s, w))
    <3>1. Loose(t, u)' \subseteq Loose(t, u)
      BY <1>1, <1>2, <1>3, <2>4 DEF Loose
    <3>2. Chances(t, u)' \subseteq Chances(t, u)
      BY <1>4, <3>1 DEF Chances
    <3>3. Cardinality(Chances(t, u)') <= Cardinality(Chances(t, u))
      BY <2>1, <3>2, FS_Subset
    <3> QED
      BY <1>5, <1>6, <2>1, <2>2, <2>4, <3>3
  <2> QED
    BY <2>3, <2>4
<1>12. DeliveriesBounded'
  BY <1>1, <1>11 DEF DeliveriesBounded
<1> QED
  BY <1>7, <1>8, <1>9, <1>10, <1>12 DEF Inv

-----------------------------------------------------------------------------
(* The theorems about a delivery *)

LEMMA NextInv == Inv /\ [Next]_vars => Inv'
<1> SUFFICES ASSUME Inv, [Next]_vars PROVE Inv'
  OBVIOUS
<1>1. CASE Tick
  BY <1>1, TickInv
<1>2. ASSUME NEW p \in Procs, ReadLock(p) PROVE Inv'
  BY <1>2, ReadLockInv
<1>3. ASSUME NEW p \in Procs, SetLock(p) PROVE Inv'
  BY <1>3, SetLockInv
<1>4. ASSUME NEW p \in Procs, Recover(p) PROVE Inv'
  BY <1>4, RecoverInv
<1>5. ASSUME NEW p \in Procs, NEW s \in Schedules, Visit(p, s) PROVE Inv'
  BY <1>5, VisitInv
<1>6. ASSUME NEW p \in Procs, SkipLocked(p) PROVE Inv'
  BY <1>6, SkipLockedInv
<1>7. ASSUME NEW p \in Procs, Disable(p) PROVE Inv'
  BY <1>7, DisableInv
<1>8. ASSUME NEW p \in Procs, Claim(p) PROVE Inv'
  BY <1>8, ClaimInv
<1>9. ASSUME NEW p \in Procs, LoseClaim(p) PROVE Inv'
  BY <1>9, LoseClaimInv
<1>10. ASSUME NEW p \in Procs, Run(p) PROVE Inv'
  BY <1>10, RunInv
<1>11. ASSUME NEW p \in Procs, AlreadyExported(p) PROVE Inv'
  BY <1>11, AlreadyExportedInv
<1>12. ASSUME NEW p \in Procs, ReuseManifest(p) PROVE Inv'
  BY <1>12, ReuseManifestInv
<1>13. ASSUME NEW p \in Procs, CreateManifest(p) PROVE Inv'
  BY <1>13, CreateManifestInv
<1>14. ASSUME NEW p \in Procs, SetKey(p) PROVE Inv'
  BY <1>14, SetKeyInv
<1>15. ASSUME NEW p \in Procs, Deliver(p) PROVE Inv'
  BY <1>15, DeliverInv
<1>16. ASSUME NEW p \in Procs, ExportFails(p) PROVE Inv'
  BY <1>16, ExportFailsInv
<1>17. ASSUME NEW p \in Procs, FailSchedule(p) PROVE Inv'
  BY <1>17, FailScheduleInv
<1>18. ASSUME NEW p \in Procs, EndCycle(p) PROVE Inv'
  BY <1>18, EndCycleInv
<1>19. ASSUME NEW p \in Procs, Crash(p) PROVE Inv'
  BY <1>19, CrashInv
<1>20. ASSUME NEW p \in Procs, FindFailed(p) PROVE Inv'
  BY <1>20, FindFailedInv
<1>21. ASSUME NEW p \in Procs, KeyRefused(p) PROVE Inv'
  BY <1>21, KeyRefusedInv
<1>22. ASSUME NEW p \in Procs, NEW s \in Schedules, NEW w \in Windows,
              ConnectionClosed(p, s, w)
       PROVE  Inv'
  BY <1>22, ConnectionClosedInv
<1>23. CASE UNCHANGED vars
  <2>1. TypeOK'
    BY <1>23 DEF Inv, TypeOK, vars
  <2>2. UNCHANGED <<manifest, advisory, cycle, delivered, lost>>
    BY <1>23 DEF vars
  <2> QED
    BY <2>1, <2>2, RestStays DEF Inv
<1> QED
  BY <1>1, <1>2, <1>3, <1>4, <1>5, <1>6, <1>7, <1>8, <1>9, <1>10, <1>11, <1>12,
     <1>13, <1>14, <1>15, <1>16, <1>17, <1>18, <1>19, <1>20, <1>21, <1>22, <1>23
  DEF Next

THEOREM Invariance == Spec => []Inv
<1>1. Init => Inv
  BY InitInv
<1>2. Inv /\ [Next]_vars => Inv'
  BY NextInv
<1> QED
  BY <1>1, <1>2, PTL DEF Spec

\* The rows, manifests, locks and cycles keep their shape, whatever crashes,
\* fails, is recovered or overlaps.
THEOREM SchedulerTyped == Spec => []TypeOK
<1>1. Inv => TypeOK
  BY DEF Inv
<1> QED
  BY <1>1, Invariance, PTL

\* Whatever number of processes run cycles, however they overlap, crash, retry
\* and leave locks with their pool, a schedule is delivered at most once for
\* each window, and once more for each cycle that loses the lock at work.
THEOREM DeliveredOnce == Spec => []OneDeliveryPerWindow
<1>1. Inv => OneDeliveryPerWindow
  <2> SUFFICES ASSUME Inv, NEW s \in Schedules, NEW w \in Windows
               PROVE  delivered[s][w] <= 1 + lost[s][w]
    BY DEF OneDeliveryPerWindow
  <2>1. /\ delivered[s][w] \in Nat /\ lost[s][w] \in Nat
        /\ delivered[s][w] + Cardinality(Chances(s, w)) <= 1 + lost[s][w]
        /\ Cardinality(Chances(s, w)) \in Nat
    BY SchedulerConstants, ChancesFinite DEF Inv, TypeOK, DeliveriesBounded
  <2> QED
    BY <2>1
<1> QED
  BY <1>1, Invariance, PTL

-----------------------------------------------------------------------------
(* Success is not reported before the export *)

LEMMA InitSuccess == Init => SuccessInv
<1> SUFFICES ASSUME Init PROVE SuccessInv
  OBVIOUS
<1>1. \A p \in Procs : cycle[p].unsaved = {}
  BY IdleCycle DEF Init
<1>2. UnsavedDelivered
  BY <1>1 DEF UnsavedDelivered
<1>3. RunningExported
  BY DEF Init, RunningExported
<1>4. \A s \in Schedules : row[s].status # "success"
  <2>1. NewSchedule.status # "success"
    BY DEF NewSchedule
  <2>2. SwitchedOff.status # "success"
    BY DEF NewSchedule, SwitchedOff
  <2>3. \A s \in Schedules : row[s] \in {NewSchedule, SwitchedOff}
    BY DEF Init
  <2> QED
    BY <2>1, <2>2, <2>3
<1>5. SuccessShown
  BY <1>4 DEF SuccessShown, Shows
<1> QED
  BY <1>2, <1>3, <1>5, InitInv DEF SuccessInv

\* What a step to the cycle c of p owes to the manifests and to the rows.
Honest(p, c) ==
    /\ \A s \in Schedules : Done(s) \subseteq Done(s)'
    /\ \A s \in c.unsaved : ExecutionWindow(c.at) \in Done(s)'
    /\ c.pc \in {"idle", "lock", "recover"} => c.unsaved = {}
    /\ \A s \in Schedules, w \in Windows :
          manifest'[s][w] = "running" /\ lost[s][w] = 0 =>
             \/ c.pc = "export" /\ c.on = s /\ ExecutionWindow(c.at) = w
             \/ manifest[s][w] = "running" /\ ~Exporting(p, s, w)
    /\ crashes = 0 => \A s \in Schedules : Shows(row'[s], Done(s)')

LEMMA StepSuccess ==
  ASSUME SuccessInv, Inv', NEW p \in Procs, NEW c \in Cycle,
         cycle' = [cycle EXCEPT ![p] = c],
         UNCHANGED <<crashes, lost>>,
         Honest(p, c)
  PROVE  SuccessInv'
<1>1. cycle'[p] = c /\ \A q \in Procs \ {p} : cycle'[q] = cycle[q]
  BY DEF SuccessInv, Inv, TypeOK
<1>2. /\ Window(p)' = ExecutionWindow(c.at)
      /\ \A q \in Procs \ {p} : Window(q)' = Window(q)
  BY <1>1 DEF Window
<1>3. ASSUME NEW q \in Procs
      PROVE  /\ \A s \in cycle'[q].unsaved : Window(q)' \in Done(s)'
             /\ cycle'[q].pc \in {"idle", "lock", "recover"} =>
                   cycle'[q].unsaved = {}
  <2>1. CASE q = p
    BY <2>1, <1>1, <1>2 DEF Honest
  <2>2. CASE q # p
    <3>1. cycle'[q] = cycle[q] /\ Window(q)' = Window(q)
      BY <2>2, <1>1, <1>2
    <3>2. cycle[q].unsaved \subseteq Schedules
      BY InHand DEF SuccessInv, Inv
    <3>3. \A s \in Schedules : Done(s) \subseteq Done(s)'
      BY DEF Honest
    <3> QED
      BY <3>1, <3>2, <3>3 DEF SuccessInv, UnsavedDelivered
  <2> QED
    BY <2>1, <2>2
<1>4. UnsavedDelivered'
  BY <1>3 DEF UnsavedDelivered
<1>5. RunningExported'
  <2> SUFFICES ASSUME crashes = 0, NEW s \in Schedules, NEW w \in Windows,
                      manifest'[s][w] = "running", lost[s][w] = 0
               PROVE  \E q \in Procs : /\ cycle'[q].pc = "export"
                                       /\ cycle'[q].on = s
                                       /\ Window(q)' = w
    BY DEF RunningExported, Exporting
  <2>1. CASE c.pc = "export" /\ c.on = s /\ ExecutionWindow(c.at) = w
    BY <2>1, <1>1, <1>2
  <2>2. CASE manifest[s][w] = "running" /\ ~Exporting(p, s, w)
    <3>1. PICK q \in Procs : Exporting(q, s, w)
      BY <2>2 DEF SuccessInv, RunningExported
    <3>2. q # p
      BY <3>1, <2>2
    <3> QED
      BY <3>1, <3>2, <1>1, <1>2 DEF Exporting
  <2> QED
    BY <2>1, <2>2 DEF Honest
<1>6. SuccessShown'
  BY DEF SuccessShown, Honest
<1> QED
  BY <1>4, <1>5, <1>6 DEF SuccessInv

LEMMA DoneStays ==
  ASSUME UNCHANGED <<manifest, lost>>, NEW s
  PROVE  Done(s)' = Done(s)
  BY DEF Done

\* The step leaves the manifests alone, and its cycle was not exporting.
LEMMA QuietSuccess ==
  ASSUME SuccessInv, Inv', NEW p \in Procs, NEW c \in Cycle,
         cycle' = [cycle EXCEPT ![p] = c],
         UNCHANGED <<manifest, crashes, lost>>,
         cycle[p].pc # "export",
         c.unsaved = {} \/ (c.unsaved = cycle[p].unsaved /\ c.at = cycle[p].at),
         c.pc \in {"idle", "lock", "recover"} => c.unsaved = {},
         crashes = 0 => \A s \in Schedules : Shows(row'[s], Done(s))
  PROVE  SuccessInv'
<1>1. \A s \in c.unsaved : ExecutionWindow(c.at) \in Done(s)
  BY DEF SuccessInv, UnsavedDelivered, Window
<1>2. \A s \in Schedules, w \in Windows : ~Exporting(p, s, w)
  BY DEF Exporting
<1>3. \A s : Done(s)' = Done(s)
  BY DoneStays
<1>4. Honest(p, c)
  BY <1>1, <1>2, <1>3 DEF Honest
<1> QED
  BY <1>4, StepSuccess

LEMMA SavedShows ==
  ASSUME SuccessInv, NEW p \in Procs, crashes = 0
  PROVE  \A s \in Schedules : Shows(Saved(p)[s], Done(s))
<1> SUFFICES ASSUME NEW s \in Schedules PROVE Shows(Saved(p)[s], Done(s))
  OBVIOUS
<1>1. CASE s \in cycle[p].unsaved
  <2>1. Window(p) \in Done(s)
    BY <1>1 DEF SuccessInv, UnsavedDelivered
  <2>2. Saved(p)[s] = Succeeded(row[s], p)
    BY <1>1 DEF Saved
  <2>3. Succeeded(row[s], p).window = Window(p)
    <3>1. row[s] \in ScheduleRow
      BY DEF SuccessInv, Inv, TypeOK
    <3> QED
      BY <3>1 DEF Succeeded, Window, ScheduleRow
  <2> QED
    BY <2>1, <2>2, <2>3 DEF Shows
<1>2. CASE s \notin cycle[p].unsaved
  BY <1>2 DEF Saved, SuccessInv, SuccessShown
<1> QED
  BY <1>1, <1>2

LEMMA CommitShows ==
  ASSUME SuccessInv, NEW p \in Procs, NEW s \in Schedules, NEW r,
         crashes = 0, Commit(p, s, r), Shows(r, Done(s))
  PROVE  \A t \in Schedules : Shows(row'[t], Done(t))
<1>1. \A t \in Schedules : row'[t] = IF t = s THEN r ELSE Saved(p)[t]
  BY DEF Commit, Saved
<1> QED
  BY <1>1, SavedShows

LEMMA RowsShow ==
  ASSUME SuccessInv, UNCHANGED row, crashes = 0
  PROVE  \A s \in Schedules : Shows(row'[s], Done(s))
  BY DEF SuccessInv, SuccessShown

LEMMA TickSuccess == ASSUME SuccessInv, Tick PROVE SuccessInv'
<1>1. Inv'
  BY TickInv DEF SuccessInv
<1>2. UNCHANGED <<row, manifest, cycle, crashes, lost>>
  BY DEF Tick
<1> QED
  BY <1>1, <1>2 DEF SuccessInv, UnsavedDelivered, RunningExported, Exporting,
                    SuccessShown, Window, Done

LEMMA CrashSuccess ==
  ASSUME SuccessInv, NEW p \in Procs, Crash(p) PROVE SuccessInv'
<1>1. Inv'
  BY CrashInv DEF SuccessInv
<1>2. crashes' # 0
  BY DEF Crash, SuccessInv, Inv, TypeOK
<1>3. /\ cycle'[p] = Idle /\ \A q \in Procs \ {p} : cycle'[q] = cycle[q]
      /\ UNCHANGED <<manifest, lost>>
  BY DEF Crash, SuccessInv, Inv, TypeOK
<1>4. \A s : Done(s)' = Done(s)
  BY <1>3, DoneStays
<1>5. UnsavedDelivered'
  BY <1>3, <1>4, IdleCycle DEF SuccessInv, UnsavedDelivered, Window
<1> QED
  BY <1>1, <1>2, <1>5 DEF SuccessInv, RunningExported, SuccessShown

\* A lock lost excuses more, and what has its artifact has it still.
LEMMA ConnectionClosedSuccess ==
  ASSUME SuccessInv, NEW p \in Procs, NEW s \in Schedules, NEW w \in Windows,
         ConnectionClosed(p, s, w)
  PROVE  SuccessInv'
<1>1. Inv' /\ UNCHANGED <<row, manifest, cycle, crashes>>
  BY ConnectionClosedInv DEF SuccessInv, ConnectionClosed
<1>2. \A t \in Schedules, u \in Windows :
         lost[t][u] \in Nat /\ lost'[t][u] \in {lost[t][u], lost[t][u] + 1}
  BY LostSet, SchedulerConstants DEF SuccessInv, Inv, TypeOK
<1>3. \A t \in Schedules, u \in Windows :
         /\ lost[t][u] > 0 => lost'[t][u] > 0
         /\ lost'[t][u] = 0 => lost[t][u] = 0
  BY <1>2
<1>4. \A t \in Schedules : Done(t) \subseteq Done(t)'
  BY <1>1, <1>3 DEF Done
<1>5. UnsavedDelivered'
  <2> SUFFICES ASSUME NEW q \in Procs
               PROVE  /\ \A t \in cycle[q].unsaved : Window(q)' \in Done(t)'
                      /\ cycle[q].pc \in {"idle", "lock", "recover"} =>
                            cycle[q].unsaved = {}
    BY <1>1 DEF UnsavedDelivered
  <2>1. cycle[q].unsaved \subseteq Schedules /\ Window(q)' = Window(q)
    BY <1>1, InHand DEF SuccessInv, Inv, Window
  <2> QED
    BY <1>4, <2>1 DEF SuccessInv, UnsavedDelivered
<1>6. RunningExported'
  <2>1. \A q, t, u : Exporting(q, t, u)' <=> Exporting(q, t, u)
    BY <1>1 DEF Exporting, Window
  <2> QED
    BY <1>1, <1>3, <2>1 DEF SuccessInv, RunningExported
<1>7. SuccessShown'
  BY <1>1, <1>4 DEF SuccessInv, SuccessShown, Shows
<1> QED
  BY <1>1, <1>5, <1>6, <1>7 DEF SuccessInv

LEMMA ReadLockSuccess ==
  ASSUME SuccessInv, NEW p \in Procs, ReadLock(p) PROVE SuccessInv'
<1>1. PICK c \in Cycle :
         /\ cycle' = [cycle EXCEPT ![p] = c] /\ c.unsaved = cycle[p].unsaved
  BY GotoMoves DEF SuccessInv, Inv, ReadLock, Stages
<1>2. cycle[p].unsaved = {} /\ cycle[p].pc # "export"
  BY DEF ReadLock, SuccessInv, UnsavedDelivered
<1>3. Inv' /\ UNCHANGED <<row, manifest, crashes, lost>>
  BY ReadLockInv DEF SuccessInv, ReadLock
<1> QED
  BY <1>1, <1>2, <1>3, RowsShow, QuietSuccess

LEMMA SetLockSuccess ==
  ASSUME SuccessInv, NEW p \in Procs, SetLock(p) PROVE SuccessInv'
<1>1. PICK c \in Cycle :
         /\ cycle' = [cycle EXCEPT ![p] = c] /\ c.unsaved = cycle[p].unsaved
  BY GotoMoves DEF SuccessInv, Inv, SetLock, Stages
<1>2. cycle[p].unsaved = {} /\ cycle[p].pc # "export"
  BY DEF SetLock, SuccessInv, UnsavedDelivered
<1>3. Inv' /\ UNCHANGED <<row, manifest, crashes, lost>>
  BY SetLockInv DEF SuccessInv, SetLock
<1> QED
  BY <1>1, <1>2, <1>3, RowsShow, QuietSuccess

LEMMA RecoverSuccess ==
  ASSUME SuccessInv, NEW p \in Procs, Recover(p) PROVE SuccessInv'
<1>1. PICK c \in Cycle :
         /\ cycle' = [cycle EXCEPT ![p] = c] /\ c.unsaved = {}
  <2>1. cycle'[p] \in Cycle
    BY RecoverInv DEF SuccessInv, Inv, TypeOK
  <2>2. cycle' = [cycle EXCEPT ![p] = cycle'[p]]
    BY DEF Recover, SuccessInv, Inv, TypeOK
  <2>3. cycle'[p].unsaved = cycle[p].unsaved
    BY DEF Recover, SuccessInv, Inv, TypeOK, Cycle
  <2>4. cycle[p].unsaved = {}
    BY DEF Recover, SuccessInv, UnsavedDelivered
  <2> QED
    BY <2>1, <2>2, <2>3, <2>4
<1>2. ASSUME NEW s \in Schedules, crashes = 0
      PROVE  Shows(row'[s], Done(s))
  <2>1. CASE IsStale(row[s], clock)
    <3>1. row'[s] = Recovered(row[s], clock)
      BY <2>1 DEF Recover
    <3>2. row[s] \in ScheduleRow
      BY DEF SuccessInv, Inv, TypeOK
    <3>3. Recovered(row[s], clock).status = "failed"
      BY <3>2 DEF Recovered, ScheduleRow
    <3> QED
      BY <3>1, <3>3 DEF Shows
  <2>2. CASE ~IsStale(row[s], clock)
    BY <1>2, <2>2 DEF Recover, SuccessInv, SuccessShown
  <2> QED
    BY <2>1, <2>2
<1>3. cycle[p].pc # "export" /\ Inv' /\ UNCHANGED <<manifest, crashes, lost>>
  BY RecoverInv DEF SuccessInv, Recover
<1> QED
  BY <1>1, <1>2, <1>3, QuietSuccess

LEMMA VisitSuccess ==
  ASSUME SuccessInv, NEW p \in Procs, NEW s \in Schedules, Visit(p, s)
  PROVE  SuccessInv'
<1>1. PICK c \in Cycle :
         /\ cycle' = [cycle EXCEPT ![p] = c]
         /\ c.pc \in {"scan", "claim"}
         /\ c.at = cycle[p].at /\ c.unsaved = cycle[p].unsaved
  BY VisitMoves DEF SuccessInv
<1>2. cycle[p].pc # "export" /\ Inv' /\ UNCHANGED <<row, manifest, crashes, lost>>
  BY VisitInv DEF SuccessInv, Visit
<1> QED
  BY <1>1, <1>2, RowsShow, QuietSuccess

LEMMA SkipLockedSuccess ==
  ASSUME SuccessInv, NEW p \in Procs, SkipLocked(p) PROVE SuccessInv'
<1>1. cycle[p].unsaved \in SUBSET Schedules
  BY InHand DEF SuccessInv, Inv
<1>2. PICK c \in Cycle :
         /\ cycle' = [cycle EXCEPT ![p] = c] /\ c.pc = "scan"
         /\ c.at = cycle[p].at /\ c.unsaved = cycle[p].unsaved
  BY <1>1, NextMoves DEF SuccessInv, Inv, SkipLocked
<1>3. cycle[p].pc # "export" /\ Inv' /\ UNCHANGED <<row, manifest, crashes, lost>>
  BY SkipLockedInv DEF SuccessInv, SkipLocked
<1> QED
  BY <1>2, <1>3, RowsShow, QuietSuccess

LEMMA EndCycleSuccess ==
  ASSUME SuccessInv, NEW p \in Procs, EndCycle(p) PROVE SuccessInv'
<1>1. cycle' = [cycle EXCEPT ![p] = Idle] /\ Idle \in Cycle /\ Idle.unsaved = {}
  BY IdleCycle DEF EndCycle
<1>2. cycle[p].pc # "export" /\ Inv' /\ UNCHANGED <<manifest, crashes, lost>>
  BY EndCycleInv DEF SuccessInv, EndCycle
<1>3. row' = row \/ row' = Saved(p)
  BY DEF EndCycle
<1>4. crashes = 0 => \A s \in Schedules : Shows(row'[s], Done(s))
  BY <1>3, SavedShows, RowsShow
<1> QED
  BY <1>1, <1>2, <1>4, QuietSuccess

\* A row whose status is not success shows nothing.
LEMMA OtherStatus ==
  ASSUME NEW r \in ScheduleRow, NEW windows, r.status # "success"
  PROVE  Shows(r, windows)
  BY DEF Shows

LEMMA DisableSuccess ==
  ASSUME SuccessInv, NEW p \in Procs, Disable(p) PROVE SuccessInv'
<1>1. PICK c \in Cycle :
         /\ cycle' = [cycle EXCEPT ![p] = c] /\ c.unsaved = {}
  BY NextMoves DEF SuccessInv, Inv, Disable
<1>2. cycle[p].pc # "export" /\ Inv' /\ UNCHANGED <<manifest, crashes, lost>>
  BY DisableInv DEF SuccessInv, Disable
<1>3. PICK s \in Schedules : s = cycle[p].on
  BY DEF SuccessInv, Inv, HandSound, Disable
<1>4. PICK r \in ScheduleRow : r = Saved(p)[s]
  BY SavedTyped DEF SuccessInv, Inv
<1> DEFINE q == [r EXCEPT !.status = "disabled", !.active = FALSE]
<1>5. q \in ScheduleRow /\ q.status # "success" /\ Commit(p, s, q)
  BY <1>3, <1>4 DEF ScheduleRow, Disable
<1> HIDE DEF q
<1>6. crashes = 0 => \A t \in Schedules : Shows(row'[t], Done(t))
  BY <1>5, OtherStatus, CommitShows
<1> QED
  BY <1>1, <1>2, <1>6, QuietSuccess

LEMMA LoseClaimSuccess ==
  ASSUME SuccessInv, NEW p \in Procs, LoseClaim(p) PROVE SuccessInv'
<1>1. PICK c \in Cycle :
         /\ cycle' = [cycle EXCEPT ![p] = c] /\ c.unsaved = {}
  BY NextMoves DEF SuccessInv, Inv, LoseClaim
<1>2. cycle[p].pc # "export" /\ Inv' /\ UNCHANGED <<manifest, crashes, lost>>
  BY LoseClaimInv DEF SuccessInv, LoseClaim
<1>3. crashes = 0 => \A s \in Schedules : Shows(row'[s], Done(s))
  BY SavedShows DEF LoseClaim
<1> QED
  BY <1>1, <1>2, <1>3, QuietSuccess

LEMMA ClaimSuccess ==
  ASSUME SuccessInv, NEW p \in Procs, Claim(p) PROVE SuccessInv'
<1>1. PICK c \in Cycle :
         /\ cycle' = [cycle EXCEPT ![p] = c] /\ c.unsaved = {}
  BY ClaimMoves DEF SuccessInv
<1>2. cycle[p].pc # "export" /\ Inv' /\ UNCHANGED <<manifest, crashes, lost>>
  BY ClaimInv DEF SuccessInv, Claim
<1>3. PICK s \in Schedules : s = cycle[p].on
  BY DEF SuccessInv, Inv, HandSound, Claim
<1>4. PICK r \in ScheduleRow : r = Saved(p)[s]
  BY SavedTyped DEF SuccessInv, Inv
<1>5. PICK t \in Int : t = cycle[p].at + ClaimTTL
  BY SchedulerConstants DEF SuccessInv, Inv, TypeOK, Cycle, Times
<1> DEFINE q == [r EXCEPT !.claim = t, !.status = "due"]
<1>6. q \in ScheduleRow /\ q.status # "success" /\ Commit(p, s, q)
  BY <1>3, <1>4, <1>5 DEF ScheduleRow, Claim
<1> HIDE DEF q
<1>7. crashes = 0 => \A u \in Schedules : Shows(row'[u], Done(u))
  BY <1>6, OtherStatus, CommitShows
<1> QED
  BY <1>1, <1>2, <1>7, QuietSuccess

LEMMA RunSuccess ==
  ASSUME SuccessInv, NEW p \in Procs, Run(p) PROVE SuccessInv'
<1>1. PICK c \in Cycle :
         /\ cycle' = [cycle EXCEPT ![p] = c] /\ c.pc = "lookup"
         /\ c.at = cycle[p].at /\ c.unsaved = cycle[p].unsaved
  BY RunMoves DEF SuccessInv
<1>2. cycle[p].pc # "export" /\ Inv' /\ UNCHANGED <<manifest, crashes, lost>>
  BY RunInv DEF SuccessInv, Run
<1>3. PICK s \in Schedules : s = cycle[p].on
  BY RowInHand DEF SuccessInv, Run, Busy
<1>4. PICK r \in ScheduleRow : r = row[s]
  BY DEF SuccessInv, Inv, TypeOK
<1>5. PICK t \in Times : t = cycle[p].at
  BY InHand DEF SuccessInv, Inv
<1> DEFINE q == [r EXCEPT !.status = "running", !.started = t]
<1>6. q \in ScheduleRow /\ q.status # "success" /\ Commit(p, s, q)
  BY <1>3, <1>4, <1>5 DEF ScheduleRow, Run
<1> HIDE DEF q
<1>7. crashes = 0 => \A u \in Schedules : Shows(row'[u], Done(u))
  BY <1>6, OtherStatus, CommitShows
<1> QED
  BY <1>1, <1>2, <1>7, QuietSuccess

LEMMA FailScheduleSuccess ==
  ASSUME SuccessInv, NEW p \in Procs, FailSchedule(p) PROVE SuccessInv'
<1>1. PICK c \in Cycle :
         /\ cycle' = [cycle EXCEPT ![p] = c] /\ c.unsaved = {}
  BY NextMoves DEF SuccessInv, Inv, FailSchedule
<1>2. cycle[p].pc # "export" /\ Inv' /\ UNCHANGED <<manifest, crashes, lost>>
  BY FailScheduleInv DEF SuccessInv, FailSchedule
<1>3. PICK s \in Schedules : s = cycle[p].on
  BY RowInHand DEF SuccessInv, FailSchedule, Busy
<1>4. PICK r \in ScheduleRow : r.status # "success" /\ Commit(p, s, r)
  BY <1>3, FailScheduleWrites DEF SuccessInv
<1>5. crashes = 0 => \A u \in Schedules : Shows(row'[u], Done(u))
  BY <1>4, OtherStatus, CommitShows
<1> QED
  BY <1>1, <1>2, <1>5, QuietSuccess

\* Without a crash, the running manifest that a cycle finds under its lock, if
\* nobody has lost it, is
\* its own, and it exports nothing yet: what it finds is delivered.
LEMMA AlreadyExportedSuccess ==
  ASSUME SuccessInv, NEW p \in Procs, AlreadyExported(p) PROVE SuccessInv'
<1>1. PICK c \in Cycle :
         /\ cycle' = [cycle EXCEPT ![p] = c] /\ c.unsaved = {}
  BY NextMoves DEF SuccessInv, Inv, AlreadyExported
<1>2. cycle[p].pc = "lookup" /\ Inv' /\ UNCHANGED <<manifest, crashes, lost>>
  BY AlreadyExportedInv DEF SuccessInv, AlreadyExported
<1>3. PICK s \in Schedules, w \in Windows : s = cycle[p].on /\ w = Window(p)
  BY <1>2, RowInHand, InHand DEF SuccessInv, Inv, Busy
<1>4. ASSUME crashes = 0 PROVE w \in Done(s)
  <2>1. CASE lost[s][w] > 0
    BY <2>1 DEF Done
  <2>2. CASE manifest[s][w] = "delivered"
    BY <2>2 DEF Done
  <2>3. CASE manifest[s][w] = "running" /\ ~(lost[s][w] > 0)
    <3>1. lost[s][w] = 0
      BY <2>3, SchedulerConstants DEF SuccessInv, Inv, TypeOK
    <3>2. PICK q \in Procs : Exporting(q, s, w)
      BY <1>4, <2>3, <3>1 DEF SuccessInv, RunningExported
    <3>3. NeedsLock(q, s, w) /\ NeedsLock(p, s, w)
      BY <1>2, <1>3, <3>2 DEF Exporting, NeedsLock
    <3>4. advisory[s][w] = q /\ advisory[s][w] = p
      BY <2>3, <3>3 DEF SuccessInv, Inv, Guarded
    <3> QED
      BY <1>2, <3>2, <3>4 DEF Exporting
  <2> QED
    BY <1>3, <2>1, <2>2, <2>3 DEF AlreadyExported, CountsAsDone, KeyedManifest
<1>5. PICK r \in ScheduleRow : r = row[s]
  BY DEF SuccessInv, Inv, TypeOK
<1>6. PICK t \in Times : t = cycle[p].at
  BY InHand DEF SuccessInv, Inv
<1> DEFINE q == [r EXCEPT !.lastRun = t, !.status = "success", !.window = w,
                          !.claim = NoTime, !.started = NoTime]
<1>7. q.window = w /\ Commit(p, s, q)
  BY <1>3, <1>5, <1>6 DEF ScheduleRow, AlreadyExported
<1> HIDE DEF q
<1>8. crashes = 0 => \A u \in Schedules : Shows(row'[u], Done(u))
  BY <1>4, <1>7, CommitShows DEF Shows
<1>9. cycle[p].pc # "export"
  BY <1>2
<1> QED
  BY <1>1, <1>2, <1>8, <1>9, QuietSuccess

LEMMA CreateManifestSuccess ==
  ASSUME SuccessInv, NEW p \in Procs, CreateManifest(p) PROVE SuccessInv'
<1>1. PICK c \in Cycle :
         /\ cycle' = [cycle EXCEPT ![p] = c] /\ c.pc = "key"
         /\ c.at = cycle[p].at /\ c.unsaved = cycle[p].unsaved
  BY GotoMoves DEF SuccessInv, Inv, CreateManifest, Stages
<1>2. cycle[p].pc # "export" /\ Inv' /\ UNCHANGED <<row, manifest, crashes, lost>>
  BY CreateManifestInv DEF SuccessInv, CreateManifest
<1> QED
  BY <1>1, <1>2, RowsShow, QuietSuccess

LEMMA FindFailedSuccess ==
  ASSUME SuccessInv, NEW p \in Procs, FindFailed(p) PROVE SuccessInv'
<1>1. PICK c \in Cycle :
         /\ cycle' = [cycle EXCEPT ![p] = c] /\ c.pc = "reuse"
         /\ c.at = cycle[p].at /\ c.unsaved = cycle[p].unsaved
  BY GotoMoves DEF SuccessInv, Inv, FindFailed, Stages
<1>2. /\ cycle[p].pc # "export" /\ Inv'
      /\ UNCHANGED <<row, manifest, crashes, lost>>
  BY FindFailedInv DEF SuccessInv, FindFailed
<1> QED
  BY <1>1, <1>2, RowsShow, QuietSuccess

LEMMA KeyRefusedSuccess ==
  ASSUME SuccessInv, NEW p \in Procs, KeyRefused(p) PROVE SuccessInv'
<1>1. PICK c \in Cycle :
         /\ cycle' = [cycle EXCEPT ![p] = c] /\ c.unsaved = {}
  BY EndedCycle DEF KeyRefused
<1>2. /\ cycle[p].pc # "export" /\ Inv'
      /\ UNCHANGED <<row, manifest, crashes, lost>>
  BY KeyRefusedInv DEF SuccessInv, KeyRefused
<1> QED
  BY <1>1, <1>2, RowsShow, QuietSuccess

\* Under a lock that nobody has lost, the manifest that a cycle sets was not
\* delivered.
LEMMA DoneGrows ==
  ASSUME Inv, NEW p \in Procs, NEW m \in ManifestStates,
         cycle[p].pc \in {"reuse", "key", "export"}, SetManifest(p, m),
         UNCHANGED lost, NEW s \in Schedules
  PROVE  Done(s) \subseteq Done(s)'
<1> SUFFICES ASSUME NEW w \in Done(s) PROVE w \in Done(s)'
  OBVIOUS
<1>1. w \in Windows /\ (manifest[s][w] = "delivered" \/ lost[s][w] > 0)
  BY DEF Done
<1>2. CASE lost[s][w] > 0
  BY <1>1, <1>2 DEF Done
<1>3. CASE manifest[s][w] = "delivered" /\ ~(lost[s][w] > 0)
  <2>1. lost[s][w] = 0
    BY <1>1, <1>3, SchedulerConstants DEF Inv, TypeOK
  <2>2. s # cycle[p].on \/ w # Window(p)
    <3> SUFFICES ASSUME s = cycle[p].on, w = Window(p) PROVE FALSE
      OBVIOUS
    <3>1. NeedsLock(p, s, w)
      BY DEF NeedsLock
    <3>2. LeftAs(cycle[p].pc, manifest[s][w])
      BY <1>1, <2>1, <3>1 DEF Inv, ManifestKept
    <3> QED
      BY <1>3, <3>2 DEF LeftAs
  <2>3. manifest'[s][w] = "delivered"
    BY <1>1, <1>3, <2>2, ManifestSet
  <2> QED
    BY <1>1, <2>3 DEF Done
<1> QED
  BY <1>1, <1>2, <1>3

\* What the session holds unsaved stays delivered.
LEMMA UnsavedStays ==
  ASSUME SuccessInv, NEW p \in Procs, NEW m \in ManifestStates,
         cycle[p].pc \in {"reuse", "key", "export"}, SetManifest(p, m),
         UNCHANGED lost
  PROVE  \A s \in cycle[p].unsaved : ExecutionWindow(cycle[p].at) \in Done(s)'
<1>1. \A s \in cycle[p].unsaved : s \in Schedules /\ Window(p) \in Done(s)
  BY InHand DEF SuccessInv, Inv, UnsavedDelivered
<1> QED
  BY <1>1, DoneGrows DEF SuccessInv, Window

LEMMA SetSuccess ==
  ASSUME SuccessInv, Inv', NEW p \in Procs, NEW c \in Cycle,
         NEW m \in ManifestStates,
         cycle' = [cycle EXCEPT ![p] = c],
         UNCHANGED <<row, crashes, lost>>,
         cycle[p].pc \in {"reuse", "key", "export"}, SetManifest(p, m),
         m = "running" => /\ c.pc = "export" /\ c.on = cycle[p].on
                          /\ c.at = cycle[p].at,
         c.pc \in {"scan", "export", "failed"},
         \A s \in c.unsaved : ExecutionWindow(c.at) \in Done(s)'
  PROVE  SuccessInv'
<1>1. PICK s \in Schedules, w \in Windows : s = cycle[p].on /\ w = Window(p)
  BY RowInHand, InHand DEF SuccessInv, Inv, Busy
<1>2. /\ manifest'[s][w] = m
      /\ \A t \in Schedules, u \in Windows :
            t # s \/ u # w => manifest'[t][u] = manifest[t][u]
  BY <1>1, ManifestSet DEF SuccessInv
<1>3. \A t \in Schedules : Done(t) \subseteq Done(t)'
  BY DoneGrows DEF SuccessInv
<1>4. ASSUME NEW t \in Schedules, NEW u \in Windows, manifest'[t][u] = "running"
      PROVE  \/ c.pc = "export" /\ c.on = t /\ ExecutionWindow(c.at) = u
             \/ manifest[t][u] = "running" /\ ~Exporting(p, t, u)
  <2>1. CASE t = s /\ u = w
    BY <2>1, <1>1, <1>2, <1>4 DEF Window
  <2>2. CASE t # s \/ u # w
    BY <2>2, <1>1, <1>2, <1>4 DEF Exporting
  <2> QED
    BY <2>1, <2>2
<1>5. crashes = 0 => \A t \in Schedules : Shows(row'[t], Done(t)')
  BY <1>3 DEF SuccessInv, SuccessShown, Shows
<1>6. Honest(p, c)
  BY <1>3, <1>4, <1>5 DEF Honest
<1> QED
  BY <1>6, StepSuccess

LEMMA StartsExportSuccess ==
  ASSUME SuccessInv, Inv', NEW p \in Procs, cycle[p].pc \in {"reuse", "key"},
         SetManifest(p, "running"), Goto(p, "export"),
         UNCHANGED <<row, crashes, lost>>
  PROVE  SuccessInv'
<1>1. PICK c \in Cycle :
         /\ cycle' = [cycle EXCEPT ![p] = c] /\ c.pc = "export"
         /\ c.on = cycle[p].on /\ c.at = cycle[p].at
         /\ c.unsaved = cycle[p].unsaved
  BY GotoMoves DEF SuccessInv, Inv, Stages
<1>2. "running" \in ManifestStates
  BY DEF ManifestStates
<1>3. \A s \in c.unsaved : ExecutionWindow(c.at) \in Done(s)'
  BY <1>1, <1>2, UnsavedStays
<1> QED
  BY <1>1, <1>2, <1>3, SetSuccess

LEMMA ReuseManifestSuccess ==
  ASSUME SuccessInv, NEW p \in Procs, ReuseManifest(p) PROVE SuccessInv'
<1>1. Inv'
  BY ReuseManifestInv DEF SuccessInv
<1> QED
  BY <1>1, StartsExportSuccess DEF ReuseManifest

LEMMA SetKeySuccess ==
  ASSUME SuccessInv, NEW p \in Procs, SetKey(p) PROVE SuccessInv'
<1>1. Inv'
  BY SetKeyInv DEF SuccessInv
<1> QED
  BY <1>1, StartsExportSuccess DEF SetKey

LEMMA DeliverSuccess ==
  ASSUME SuccessInv, NEW p \in Procs, Deliver(p) PROVE SuccessInv'
<1>1. cycle[p].pc \in Busy /\ cycle[p].pc = "export" /\ Inv'
  BY DeliverInv DEF Deliver, Busy, SuccessInv
<1>2. {cycle[p].on} \in SUBSET Schedules
  BY <1>1, RowInHand DEF SuccessInv
<1>3. PICK c \in Cycle :
         /\ cycle' = [cycle EXCEPT ![p] = c] /\ c.pc = "scan"
         /\ c.at = cycle[p].at /\ c.unsaved = {cycle[p].on}
  BY <1>2, NextMoves DEF SuccessInv, Inv, Deliver
<1>4. "delivered" \in ManifestStates /\ SetManifest(p, "delivered")
  BY DEF ManifestStates, Deliver
<1>5. manifest'[cycle[p].on][Window(p)] = "delivered"
  BY <1>1, <1>4, ManifestSet DEF SuccessInv
<1>6. \A s \in c.unsaved : ExecutionWindow(c.at) \in Done(s)'
  BY <1>3, <1>5, InHand DEF Window, Done, SuccessInv, Inv
<1>7. UNCHANGED <<row, crashes, lost>>
  BY DEF Deliver
<1> QED
  BY <1>1, <1>3, <1>4, <1>6, <1>7, SetSuccess

LEMMA ExportFailsSuccess ==
  ASSUME SuccessInv, NEW p \in Procs, ExportFails(p) PROVE SuccessInv'
<1>1. PICK c \in Cycle :
         /\ cycle' = [cycle EXCEPT ![p] = c] /\ c.pc = "failed"
         /\ c.at = cycle[p].at /\ c.unsaved = cycle[p].unsaved
  BY ExportFailsMoves DEF SuccessInv
<1>2. Inv' /\ UNCHANGED <<row, crashes, lost>>
  BY ExportFailsInv DEF ExportFails, SuccessInv
<1>3. CASE cycle[p].pc = "export"
  <2>1. SetManifest(p, "failed") /\ "failed" \in ManifestStates
    BY <1>3 DEF ExportFails, ManifestStates
  <2>2. \A s \in c.unsaved : ExecutionWindow(c.at) \in Done(s)'
    BY <1>1, <1>2, <1>3, <2>1, UnsavedStays
  <2> QED
    BY <1>1, <1>2, <1>3, <2>1, <2>2, SetSuccess
<1>4. CASE cycle[p].pc # "export"
  BY <1>1, <1>2, <1>4, RowsShow, QuietSuccess DEF ExportFails
<1> QED
  BY <1>3, <1>4

LEMMA NextSuccess == SuccessInv /\ [Next]_vars => SuccessInv'
<1> SUFFICES ASSUME SuccessInv, [Next]_vars PROVE SuccessInv'
  OBVIOUS
<1>1. CASE UNCHANGED vars
  <2>1. Inv'
    BY <1>1, NextInv DEF SuccessInv
  <2> QED
    BY <1>1, <2>1 DEF SuccessInv, UnsavedDelivered, RunningExported, Exporting,
                      SuccessShown, Window, Done, vars
<1> QED
  BY <1>1, TickSuccess, ReadLockSuccess, SetLockSuccess, RecoverSuccess,
     VisitSuccess, SkipLockedSuccess, DisableSuccess, ClaimSuccess,
     LoseClaimSuccess, RunSuccess, AlreadyExportedSuccess, ReuseManifestSuccess,
     CreateManifestSuccess, FindFailedSuccess, SetKeySuccess, KeyRefusedSuccess,
     DeliverSuccess, ExportFailsSuccess, FailScheduleSuccess, EndCycleSuccess,
     CrashSuccess, ConnectionClosedSuccess, Zenon DEF Next

\* As long as no process has died, no status runs ahead of its export: a row
\* that says success has the delivered manifest of its window, unless a cycle
\* has lost the lock of that window.
THEOREM SuccessDelivered == Spec => []SuccessHasArtifact
<1>1. Init => SuccessInv
  BY InitSuccess
<1>2. SuccessInv /\ [Next]_vars => SuccessInv'
  BY NextSuccess
<1>3. SuccessInv => SuccessHasArtifact
  BY DEF SuccessInv, SuccessShown, Shows, Done, SuccessHasArtifact
<1> QED
  BY <1>1, <1>2, <1>3, PTL DEF Spec

=============================================================================
