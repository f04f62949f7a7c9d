--------------------- MODULE IncidentRemediationProofs ---------------------
(***************************************************************************)
(* Proofs about remediation, for any incidents, policies and operators and *)
(* any overlap of their handlers: remediation_history loses no more entries*)
(* of an incident, and its cooldown is passed no more often, than handlers *)
(* overlapped on it or failed after their commit.                          *)
(***************************************************************************)
EXTENDS IncidentRemediation, FiniteSetTheorems, TLAPS
----------------------------------------------------------------------------
(* The invariant.                                                          *)

Ages == [Actions -> 0..MaxCooldown]
TaskSteps == {"idle", "upsert", "check", "apply", "record", "undo", "undone",
              "update"}
Tasks == [step : TaskSteps, incident : Incidents \cup {NoIncident},
          action : Actions, seen : Rows, payload : Payloads,
          cooldown : 0..MaxCooldown]

\* What each step of a handler knows: who is at work has an incident, who
\* undoes has a payload, who applies was allowed to by its copy, and who
\* records misses the entry.
TaskSound(t) ==
    /\ t = Idle \/ (t.step # "idle" /\ t.incident \in Incidents)
    /\ t.step = "undo" => t.payload # NoPayload
    /\ t.step = "apply" => t.seen.age[t.action] >= t.cooldown
    /\ t.step = "record" => t.seen.missing >= 1

\* A row that is none yet has no history, and is only about to be added.
Unborn(i) == row[i].status = "none" =>
    /\ row[i].age = NeverApplied /\ row[i].missing = 0
    /\ \A h \in Working(i) : task[h].step = "upsert"

TypeInv ==
    /\ TypeOK
    /\ task \in [Handlers -> Tasks] /\ todo \in [Handlers -> SUBSET Fingerprints]
    /\ since \in [Incidents -> Ages]
    /\ slips \in [Incidents -> Nat] /\ repeats \in [Incidents -> Nat]
    /\ \A h \in Handlers : TaskSound(task[h])

Copies(i) == {row[i]} \cup {task[h].seen : h \in Working(i)}

\* Handlers at work that have applied nothing without its entry, but one.
Active(i) == {h \in Working(i) : task[h].step # "record"}
Spare(i) == Cardinality(Active(i)) - (IF Working(i) = {} THEN 0 ELSE 1)

\* Actions whose last application some copy does not show.
Recording(i) == {task[h].action : h \in {g \in Working(i) : task[g].step = "record"}}
Outdated(i, c) == {a \in Actions : c.age[a] > since[i][a]}
Stale(i) == Recording(i) \cup UNION {Outdated(i, c) : c \in Copies(i)}

CountInv(i) ==
    /\ \A c \in Copies(i) : c.missing + Spare(i) <= slips[i]
    /\ repeats[i] + Cardinality(Stale(i)) + Spare(i) <= slips[i]

RemediationInv ==
    /\ TypeInv
    /\ \A i \in Incidents : Unborn(i) /\ CountInv(i)
----------------------------------------------------------------------------
(* Constants, finite sets and types.                                       *)

LEMMA Constants ==
    /\ MaxCooldown \in Nat /\ InitLeverage \in Nat \ {0} /\ MaxRequests \in Nat
    /\ MaxFailures \in Nat /\ "cycle" \in Handlers
    /\ NoIncident \notin Incidents /\ Operators \subseteq Handlers
    /\ Policies \subseteq Choices
    /\ Fingerprint \in [Incidents -> Fingerprints]
  BY RemediationConstants DEF Handlers

\* Sets of handlers and of actions can be counted.
LEMMA Counted ==
    ASSUME NEW S, S \subseteq Handlers \/ S \subseteq Actions
    PROVE  IsFiniteSet(S) /\ Cardinality(S) \in Nat
  <1>1. IsFiniteSet(Handlers)
    BY RemediationConstants, FS_AddElement DEF Handlers
  <1>2. IsFiniteSet({"block_trading", "reduce_leverage", "restart_worker"})
    <2>1. IsFiniteSet({"block_trading"})
      BY FS_Singleton
    <2>2. IsFiniteSet({"block_trading"} \cup {"reduce_leverage"})
      BY <2>1, FS_AddElement
    <2>3. IsFiniteSet(({"block_trading"} \cup {"reduce_leverage"})
                        \cup {"restart_worker"})
      BY <2>2, FS_AddElement
    <2>4. ({"block_trading"} \cup {"reduce_leverage"}) \cup {"restart_worker"}
            = {"block_trading", "reduce_leverage", "restart_worker"}
      OBVIOUS
    <2>. QED  BY <2>3, <2>4
  <1>3. IsFiniteSet(Actions)
    <2>1. Actions = {"block_trading", "reduce_leverage", "restart_worker"}
      BY DEF Actions, Undoable
    <2>. QED  BY <1>2, <2>1
  <1>4. IsFiniteSet(S)
    BY <1>1, <1>3, FS_Subset
  <1>. QED  BY <1>4, FS_CardinalityType

LEMMA FreshTyped ==
    ASSUME NEW status \in {"none", "OPEN", "MITIGATED", "RESOLVED"}
    PROVE  /\ Fresh(status) \in Rows /\ Fresh(status).status = status
           /\ Fresh(status).age = NeverApplied /\ Fresh(status).missing = 0
           /\ Fresh(status).payload = NoPayload /\ NeverApplied \in Ages
           /\ \A a \in Actions : NeverApplied[a] = MaxCooldown
  BY Constants DEF Fresh, Rows, Ages, Payloads, NoPayload, NeverApplied

LEMMA IdleTyped ==
    /\ Idle \in Tasks /\ Idle.step = "idle" /\ Idle.incident = NoIncident
    /\ TaskSound(Idle)
  <1>1. /\ Idle.step = "idle" /\ Idle.incident = NoIncident
        /\ Idle.action = "restart_worker" /\ Idle.seen = Fresh("none")
        /\ Idle.payload = NoPayload /\ Idle.cooldown = 0
    BY DEF Idle
  <1>2. Fresh("none") \in Rows
    BY FreshTyped
  <1>3. Idle \in Tasks
    BY <1>2, Constants DEF Idle, Tasks, TaskSteps, Actions, Undoable, Payloads,
                           NoPayload
  <1>. QED  BY <1>1, <1>3 DEF TaskSound

LEMMA OlderTyped ==
    ASSUME NEW age \in Ages
    PROVE  /\ Older(age) \in Ages
           /\ \A a \in Actions : age[a] <= Older(age)[a]
  BY Constants DEF Older, Ages

LEMMA OlderGrows ==
    ASSUME NEW old \in Ages, NEW new \in Ages, NEW a \in Actions,
           old[a] <= new[a]
    PROVE  Older(old)[a] <= Older(new)[a]
  BY Constants DEF Older, Ages

LEMMA RowTyped ==
    ASSUME NEW r \in Rows
    PROVE  r.age \in Ages /\ r.missing \in Nat /\ r.payload \in Payloads
  BY DEF Rows, Ages

\* What is known of a handler and of its incident.
LEMMA TaskTyped ==
    ASSUME TypeInv, NEW h \in Handlers
    PROVE  /\ task[h] \in Tasks /\ TaskSound(task[h])
           /\ task[h].seen \in Rows /\ task[h].payload \in Payloads
           /\ task[h].action \in Actions /\ task[h].cooldown \in 0..MaxCooldown
           /\ task[h] # Idle => task[h].incident \in Incidents
           /\ task[h].step # "idle" =>
                /\ task[h] # Idle /\ task[h].incident \in Incidents
                /\ h \in Working(task[h].incident)
                /\ row[task[h].incident] \in Rows
                /\ policy[task[h].incident] \in Choices
           /\ task[h].incident \in Incidents => task[h].step # "idle"
  BY IdleTyped, Constants DEF TypeInv, TypeOK, Tasks, TaskSound, Working

LEMMA CopyTyped ==
    ASSUME TypeInv, NEW i \in Incidents, NEW c \in Copies(i)
    PROVE  c \in Rows /\ c.age \in Ages /\ c.missing \in Nat
  BY TaskTyped, RowTyped DEF Copies, Working, TypeInv, TypeOK

LEMMA StaleTyped ==
    ASSUME TypeInv, NEW i \in Incidents
    PROVE  Stale(i) \subseteq Actions
  BY TaskTyped DEF Stale, Recording, Outdated, Working

LEMMA SpareTyped ==
    ASSUME NEW i
    PROVE  /\ Spare(i) \in Int /\ Spare(i)' \in Int
           /\ Working(i) \subseteq Handlers /\ Active(i) \subseteq Handlers
           /\ Active(i) \subseteq Working(i)
           /\ IsFiniteSet(Active(i)) /\ IsFiniteSet(Active(i)')
           /\ Cardinality(Active(i)) \in Nat /\ Cardinality(Active(i)') \in Nat
  <1>1. /\ Working(i) \subseteq Handlers /\ Active(i) \subseteq Working(i)
        /\ Working(i)' \subseteq Handlers /\ Active(i)' \subseteq Working(i)'
    BY DEF Working, Active
  <1>2. /\ IsFiniteSet(Active(i)) /\ Cardinality(Active(i)) \in Nat
        /\ IsFiniteSet(Active(i)') /\ Cardinality(Active(i)') \in Nat
    BY <1>1, Counted
  <1>. QED  BY <1>1, <1>2 DEF Spare

LEMMA TypeInit == Init => TypeInv
  <1>. SUFFICES ASSUME Init PROVE TypeInv
    OBVIOUS
  <1>1. row \in [Incidents -> Rows] /\ since \in [Incidents -> Ages]
    BY FreshTyped DEF Init
  <1>2. task \in [Handlers -> Tasks] /\ \A h \in Handlers : TaskSound(task[h])
    BY IdleTyped DEF Init
  <1>3. \A h \in Handlers : /\ task[h].step \in TaskSteps
                            /\ task[h].incident \in Incidents \cup {NoIncident}
                            /\ task[h].seen \in Rows
                            /\ task[h].payload \in Payloads
                            /\ task[h].cooldown \in 0..MaxCooldown
    BY <1>2 DEF Tasks
  <1>4. /\ trading \in BOOLEAN /\ leverage \in 1..InitLeverage
        /\ anomalous \subseteq Fingerprints /\ policy \in [Incidents -> Policies]
        /\ todo \in [Handlers -> SUBSET Fingerprints]
        /\ requests \in 0..MaxRequests /\ failures \in 0..MaxFailures
        /\ slips \in [Incidents -> Nat] /\ repeats \in [Incidents -> Nat]
    BY RemediationConstants DEF Init
  <1>. QED  BY <1>1, <1>2, <1>3, <1>4 DEF TypeInv, TypeOK, TaskSteps

\* The part of the state that no counting is about, and the rest.
Others ==
    /\ trading \in BOOLEAN /\ leverage \in 1..InitLeverage
    /\ anomalous \subseteq Fingerprints /\ policy \in [Incidents -> Policies]
    /\ todo \in [Handlers -> SUBSET Fingerprints]
    /\ requests \in 0..MaxRequests /\ failures \in 0..MaxFailures

Core ==
    /\ task \in [Handlers -> Tasks] /\ \A h \in Handlers : TaskSound(task[h])
    /\ row \in [Incidents -> Rows] /\ since \in [Incidents -> Ages]
    /\ slips \in [Incidents -> Nat] /\ repeats \in [Incidents -> Nat]

LEMMA TypeParts ==
    /\ TypeInv => Others /\ Core
    /\ Others' /\ Core' => TypeInv'
  <1>1. TypeInv => Others /\ Core
    BY DEF TypeInv, TypeOK, Others, Core
  <1>2. Others' /\ Core' => TypeInv'
    <2>. SUFFICES ASSUME Others', Core' PROVE TypeInv'
      OBVIOUS
    <2>1. \A h \in Handlers : /\ task'[h].step \in TaskSteps
                              /\ task'[h].incident \in Incidents \cup {NoIncident}
                              /\ task'[h].seen \in Rows
                              /\ task'[h].payload \in Payloads
                              /\ task'[h].cooldown \in 0..MaxCooldown
      BY DEF Core, Tasks
    <2>. QED  BY <2>1 DEF TypeInv, TypeOK, TaskSteps, Core, Others
  <1>. QED  BY <1>1, <1>2
----------------------------------------------------------------------------
(* Counting the handlers at work.                                          *)

\* Handler h goes on with t.
Moves(h, t) == /\ task' = [task EXCEPT ![h] = t] /\ t \in Tasks /\ TaskSound(t)

LEMMA Moved ==
    ASSUME TypeInv, NEW h \in Handlers, NEW t, Moves(h, t)
    PROVE  /\ task' \in [Handlers -> Tasks]
           /\ \A g \in Handlers : TaskSound(task[g])'
           /\ \A g \in Handlers : task'[g] = IF g = h THEN t ELSE task[g]
           /\ \A j : Working(j)' = IF t.incident = j THEN Working(j) \cup {h}
                                                     ELSE Working(j) \ {h}
  BY DEF TypeInv, Moves, Working

LEMMA SpareSame ==
    ASSUME NEW i, Working(i)' = Working(i), Active(i)' = Active(i)
    PROVE  Spare(i)' = Spare(i)
  BY DEF Spare

LEMMA SpareBegins ==
    ASSUME NEW i, NEW h \in Handlers, h \notin Working(i),
           Working(i)' = Working(i) \cup {h}, Active(i)' = Active(i) \cup {h}
    PROVE  Spare(i)' = Spare(i) + (IF Working(i) = {} THEN 0 ELSE 1)
  <1>1. h \notin Active(i) /\ IsFiniteSet(Active(i))
    BY SpareTyped
  <1>2. Cardinality(Active(i)') = Cardinality(Active(i)) + 1
    BY <1>1, FS_AddElement
  <1>3. Working(i)' # {}
    OBVIOUS
  <1>. QED  BY <1>2, <1>3, SpareTyped DEF Spare

LEMMA SpareApplies ==
    ASSUME NEW i, NEW h \in Active(i),
           Working(i)' = Working(i), Active(i)' = Active(i) \ {h}
    PROVE  Spare(i)' = Spare(i) - 1
  <1>1. Cardinality(Active(i)') = Cardinality(Active(i)) - 1
    BY SpareTyped, FS_RemoveElement
  <1>. QED  BY <1>1, SpareTyped DEF Spare

LEMMA SpareEnds ==
    ASSUME NEW i, NEW h \in Active(i),
           Working(i)' = Working(i) \ {h}, Active(i)' = Active(i) \ {h}
    PROVE  Spare(i)' <= Spare(i)
  <1>1. Cardinality(Active(i)') = Cardinality(Active(i)) - 1
    BY SpareTyped, FS_RemoveElement
  <1>2. Working(i) # {}
    BY SpareTyped
  <1>3. CASE Working(i)' = {}
    <2>1. Active(i)' = {}
      BY <1>3 DEF Active
    <2>2. Cardinality(Active(i)') = 0
      BY <2>1, FS_EmptySet
    <2>. QED  BY <1>1, <1>2, <1>3, <2>2, SpareTyped DEF Spare
  <1>4. CASE Working(i)' # {}
    BY <1>1, <1>2, <1>4, SpareTyped DEF Spare
  <1>. QED  BY <1>3, <1>4

LEMMA SpareRecords ==
    ASSUME NEW i, NEW h \in Working(i), Working(i)' = Working(i) \ {h},
           Active(i)' = Active(i)
    PROVE  /\ Spare(i)' <= Spare(i) + 1
           /\ Working(i)' # {} => Spare(i)' = Spare(i)
  BY SpareTyped DEF Spare
----------------------------------------------------------------------------
(* What keeps the invariant of one incident.                               *)

\* Its copies miss no more and show no less, and what handlers became active
\* is counted.
LEMMA CountKept ==
    ASSUME TypeInv, TypeInv', NEW i \in Incidents, CountInv(i),
           \A d \in Copies(i)' : \E c \in Copies(i) : d.missing = c.missing,
           Stale(i)' \subseteq Stale(i), repeats'[i] = repeats[i],
           Spare(i)' - slips'[i] <= Spare(i) - slips[i]
    PROVE  CountInv(i)'
  <1>1. /\ Spare(i) \in Int /\ Spare(i)' \in Int
        /\ slips[i] \in Nat /\ slips'[i] \in Nat /\ repeats[i] \in Nat
    BY SpareTyped DEF TypeInv
  <1>2. ASSUME NEW d \in Copies(i)'
        PROVE  d.missing + Spare(i)' <= slips'[i]
    <2>1. PICK c \in Copies(i) : d.missing = c.missing
      OBVIOUS
    <2>2. c.missing \in Nat /\ c.missing + Spare(i) <= slips[i]
      BY CopyTyped DEF CountInv
    <2>. QED  BY <1>1, <2>1, <2>2
  <1>3. /\ Cardinality(Stale(i)) \in Nat /\ Cardinality(Stale(i)') \in Nat
        /\ Cardinality(Stale(i)') <= Cardinality(Stale(i))
    <2>1. Stale(i) \subseteq Actions /\ Stale(i)' \subseteq Actions
      BY StaleTyped
    <2>. QED  BY <2>1, Counted, FS_Subset
  <1>4. repeats'[i] + Cardinality(Stale(i)') + Spare(i)' <= slips'[i]
    BY <1>1, <1>3 DEF CountInv
  <1>. QED  BY <1>2, <1>4 DEF CountInv

\* What happens to another incident does not touch it.
LEMMA Elsewhere ==
    ASSUME NEW j \in Incidents, Unborn(j) /\ CountInv(j),
           Working(j)' = Working(j), \A g \in Working(j) : task'[g] = task[g],
           row'[j] = row[j], since'[j] = since[j], slips'[j] = slips[j],
           repeats'[j] = repeats[j]
    PROVE  Unborn(j)' /\ CountInv(j)'
  <1>1. /\ Copies(j)' = Copies(j) /\ Active(j)' = Active(j)
        /\ Recording(j)' = Recording(j)
    BY DEF Copies, Active, Recording
  <1>2. \A c : Outdated(j, c)' = Outdated(j, c)
    BY DEF Outdated
  <1>3. Stale(j)' = Stale(j)
    BY <1>1, <1>2 DEF Stale
  <1>4. Spare(j)' = Spare(j)
    BY <1>1, SpareSame
  <1>5. Unborn(j)'
    BY DEF Unborn
  <1>6. CountInv(j)'
    BY <1>1, <1>3, <1>4 DEF CountInv
  <1>. QED  BY <1>5, <1>6

AllCounted == \A i \in Incidents : Unborn(i) /\ CountInv(i)

\* Handler h moves within incident i, and only i's bookkeeping changes.
LEMMA OnlyHere ==
    ASSUME TypeInv, AllCounted, NEW h \in Handlers, NEW t, Moves(h, t),
           NEW i \in Incidents, task[h].incident \in {i, NoIncident},
           t.incident \in {i, NoIncident},
           \A j \in Incidents \ {i} :
             /\ row'[j] = row[j] /\ since'[j] = since[j]
             /\ slips'[j] = slips[j] /\ repeats'[j] = repeats[j],
           Unborn(i)', CountInv(i)'
    PROVE  AllCounted'
  <1>. SUFFICES ASSUME NEW j \in Incidents, j # i
                PROVE  Unborn(j)' /\ CountInv(j)'
    BY DEF AllCounted
  <1>1. h \notin Working(j) /\ Working(j)' = Working(j)
    BY Moved, Constants DEF Working
  <1>2. \A g \in Working(j) : task'[g] = task[g]
    BY <1>1, Moved DEF Working
  <1>3. Unborn(j) /\ CountInv(j)
    BY DEF AllCounted
  <1>. QED  BY <1>1, <1>2, <1>3, Elsewhere

LEMMA StaleKept ==
    ASSUME NEW i, Recording(i)' \subseteq Recording(i), since'[i] = since[i],
           \A d \in Copies(i)' : \E c \in Copies(i) : d.age = c.age
    PROVE  Stale(i)' \subseteq Stale(i)
  <1>. SUFFICES ASSUME NEW a \in Stale(i)', a \notin Recording(i)'
                PROVE  a \in Stale(i)
    BY DEF Stale
  <1>1. PICK d \in Copies(i)' : a \in Actions /\ d.age[a] > since'[i][a]
    BY DEF Stale, Outdated
  <1>2. PICK c \in Copies(i) : d.age = c.age
    BY <1>1
  <1>3. a \in Outdated(i, c)
    BY <1>1, <1>2 DEF Outdated
  <1>. QED  BY <1>2, <1>3 DEF Stale

Alike(c, d) == c.age = d.age /\ c.missing = d.missing

\* Handler h at work on i, with nothing to record, goes on with t and leaves
\* row r; both have what a copy had.
Continues(h, i, t, r) ==
    /\ Moves(h, t) /\ i \in Incidents /\ task[h].incident = i
    /\ task[h].step # "record"
    /\ t = Idle \/ /\ t.incident = i /\ t.step # "record"
                   /\ \E c \in Copies(i) : Alike(t.seen, c)
    /\ r \in Rows /\ row' = [row EXCEPT ![i] = r]
    /\ \E c \in Copies(i) : Alike(r, c)
    /\ r.status = "none" => r = row[i] /\ t = Idle
    /\ UNCHANGED history

LEMMA Continued ==
    ASSUME TypeInv, AllCounted, Others', NEW h \in Handlers, NEW i, NEW t, NEW r,
           Continues(h, i, t, r)
    PROVE  Core' /\ AllCounted'
  <1>. USE DEF Continues, history
  <1>1. row \in [Incidents -> Rows] /\ task \in [Handlers -> Tasks]
    BY DEF TypeInv, TypeOK
  <1>2. Core'
    BY <1>1, Moved DEF Core, TypeInv
  <1>3. TypeInv'
    BY <1>2, TypeParts
  <1>4. /\ \A g \in Handlers : task'[g] = IF g = h THEN t ELSE task[g]
        /\ Working(i)' = IF t = Idle THEN Working(i) \ {h} ELSE Working(i)
        /\ h \in Working(i)
    <2>1. h \in Working(i)
      BY DEF Working
    <2>2. t = Idle => t.incident # i
      BY IdleTyped, Constants
    <2>. QED  BY <2>1, <2>2, Moved
  <1>5. /\ h \in Active(i)
        /\ Active(i)' = IF t = Idle THEN Active(i) \ {h} ELSE Active(i)
    BY <1>4, SpareTyped DEF Active
  <1>6. Spare(i)' <= Spare(i)
    <2>1. CASE t = Idle
      BY <1>4, <1>5, <2>1, SpareEnds
    <2>2. CASE t # Idle
      BY <1>4, <1>5, <2>2, SpareSame, SpareTyped
    <2>. QED  BY <2>1, <2>2
  <1>7. ASSUME NEW d \in Copies(i)'
        PROVE  \E c \in Copies(i) : Alike(d, c)
    <2>1. CASE d = row'[i]
      BY <1>1, <2>1
    <2>2. CASE \E g \in Working(i)' : d = task'[g].seen
      <3>1. PICK g \in Working(i)' : d = task'[g].seen
        BY <2>2
      <3>2. g \in Working(i) /\ g \in Handlers
        BY <1>4 DEF Working
      <3>3. CASE g = h
        BY <1>4, <3>1, <3>3
      <3>4. CASE g # h
        BY <1>4, <3>1, <3>2, <3>4 DEF Copies, Alike
      <3>. QED  BY <3>3, <3>4
    <2>. QED  BY <2>1, <2>2 DEF Copies
  <1>8. Recording(i)' \subseteq Recording(i)
    BY <1>4 DEF Recording, Working
  <1>9. Stale(i)' \subseteq Stale(i)
    BY <1>7, <1>8, StaleKept DEF Alike
  <1>10. CountInv(i)'
    <2>1. /\ CountInv(i) /\ slips'[i] = slips[i] /\ slips[i] \in Nat
          /\ repeats'[i] = repeats[i]
      BY DEF AllCounted, TypeInv
    <2>2. \A d \in Copies(i)' : \E c \in Copies(i) : d.missing = c.missing
      BY <1>7 DEF Alike
    <2>3. Spare(i)' - slips'[i] <= Spare(i) - slips[i]
      BY <1>6, <2>1, SpareTyped
    <2>. QED  BY <1>3, <1>9, <2>1, <2>2, <2>3, CountKept
  <1>11. Unborn(i)'
    <2>. SUFFICES ASSUME r.status = "none"
                  PROVE  /\ r.age = NeverApplied /\ r.missing = 0
                         /\ \A g \in Working(i)' : task'[g].step = "upsert"
      BY <1>1 DEF Unborn
    <2>1. r = row[i] /\ t = Idle /\ Unborn(i)
      BY DEF AllCounted
    <2>. QED  BY <1>4, <2>1 DEF Unborn, Working
  <1>12. \A j \in Incidents \ {i} :
           /\ row'[j] = row[j] /\ since'[j] = since[j]
           /\ slips'[j] = slips[j] /\ repeats'[j] = repeats[j]
    BY <1>1
  <1>13. t.incident \in {i, NoIncident}
    BY IdleTyped
  <1>. QED  BY <1>2, <1>10, <1>11, <1>12, <1>13, OnlyHere

\* Handler h starts on i with a copy of its row.
Begins(h, i, t) ==
    /\ Moves(h, t) /\ i \in Incidents /\ task[h] = Idle
    /\ t.incident = i /\ t.step \notin {"idle", "record"} /\ t.seen = row[i]
    /\ row[i].status # "none"
    /\ slips' = [slips EXCEPT ![i] = IF Working(i) = {} THEN @ ELSE @ + 1]
    /\ UNCHANGED <<row, since, repeats>>

LEMMA Begun ==
    ASSUME TypeInv, AllCounted, Others', NEW h \in Handlers, NEW i, NEW t,
           Begins(h, i, t)
    PROVE  Core' /\ AllCounted'
  <1>. USE DEF Begins
  <1>1. /\ slips \in [Incidents -> Nat] /\ row' = row /\ since' = since
        /\ repeats' = repeats
        /\ slips'[i] = IF Working(i) = {} THEN slips[i] ELSE slips[i] + 1
    BY DEF TypeInv
  <1>2. Core'
    BY <1>1, Moved DEF Core, TypeInv, TypeOK
  <1>3. TypeInv'
    BY <1>2, TypeParts
  <1>4. h \notin Working(i)
    BY IdleTyped, Constants DEF Working
  <1>5. /\ \A g \in Handlers : task'[g] = IF g = h THEN t ELSE task[g]
        /\ Working(i)' = Working(i) \cup {h}
    BY Moved
  <1>6. Active(i)' = Active(i) \cup {h}
    BY <1>4, <1>5, SpareTyped DEF Active
  <1>7. Spare(i)' = Spare(i) + (IF Working(i) = {} THEN 0 ELSE 1)
    BY <1>4, <1>5, <1>6, SpareBegins
  <1>8. Copies(i)' \subseteq Copies(i)
    BY <1>1, <1>4, <1>5 DEF Copies, Working
  <1>9. Recording(i)' \subseteq Recording(i)
    BY <1>5 DEF Recording, Working
  <1>10. Stale(i)' \subseteq Stale(i)
    BY <1>1, <1>8, <1>9, StaleKept
  <1>11. CountInv(i)'
    <2>1. CountInv(i) /\ slips[i] \in Nat
      BY DEF AllCounted, TypeInv
    <2>2. Spare(i)' - slips'[i] <= Spare(i) - slips[i]
      BY <1>1, <1>7, <2>1, SpareTyped
    <2>3. \A d \in Copies(i)' : \E c \in Copies(i) : d.missing = c.missing
      BY <1>8
    <2>. QED  BY <1>1, <1>3, <1>10, <2>1, <2>2, <2>3, CountKept
  <1>12. Unborn(i)'
    BY <1>1 DEF Unborn
  <1>13. \A j \in Incidents \ {i} :
           /\ row'[j] = row[j] /\ since'[j] = since[j]
           /\ slips'[j] = slips[j] /\ repeats'[j] = repeats[j]
    BY <1>1
  <1>14. task[h].incident \in {i, NoIncident}
    BY IdleTyped
  <1>. QED  BY <1>2, <1>11, <1>12, <1>13, <1>14, OnlyHere

LEMMA NewVisited ==
    ASSUME TypeInv, AllCounted, Others', NEW h \in Handlers, NEW i \in Incidents,
           VisitNew(h, i)
    PROVE  Core' /\ AllCounted'
  <1>. DEFINE t == [Idle EXCEPT !.step = "upsert", !.incident = i]
  <1>1. /\ task[h] = Idle /\ Working(i) = {} /\ task' = [task EXCEPT ![h] = t]
        /\ row' = [row EXCEPT ![i] = Fresh("none")]
        /\ since' = [since EXCEPT ![i] = NeverApplied]
        /\ slips' = [slips EXCEPT ![i] = 0]
        /\ repeats' = [repeats EXCEPT ![i] = 0]
    BY DEF VisitNew
  <1>2. /\ t \in Tasks /\ TaskSound(t) /\ t.incident = i /\ t.step = "upsert"
        /\ t.seen = Fresh("none")
    <2>1. /\ Idle \in Tasks /\ Idle.seen = Fresh("none")
      BY IdleTyped DEF Idle
    <2>. QED  BY <2>1 DEF Tasks, TaskSteps, TaskSound
  <1>3. Moves(h, t)
    BY <1>1, <1>2 DEF Moves
  <1>. HIDE DEF t
  <1>4. /\ Fresh("none") \in Rows /\ Fresh("none").missing = 0
        /\ Fresh("none").age = NeverApplied /\ NeverApplied \in Ages
    BY FreshTyped
  <1>5. /\ row \in [Incidents -> Rows] /\ since \in [Incidents -> Ages]
        /\ slips \in [Incidents -> Nat] /\ repeats \in [Incidents -> Nat]
    BY DEF TypeInv, TypeOK
  <1>6. /\ row'[i] = Fresh("none") /\ since'[i] = NeverApplied
        /\ slips'[i] = 0 /\ repeats'[i] = 0
    BY <1>1, <1>5
  <1>7. Core'
    BY <1>1, <1>3, <1>4, <1>5, Moved DEF Core
  <1>8. /\ \A g \in Handlers : task'[g] = IF g = h THEN t ELSE task[g]
        /\ Working(i)' = {h}
    BY <1>1, <1>2, <1>3, Moved
  <1>9. Unborn(i)'
    BY <1>2, <1>4, <1>6, <1>8 DEF Unborn
  <1>10. Active(i)' = {h}
    BY <1>2, <1>8 DEF Active
  <1>11. Spare(i)' = 0
    <2>1. Cardinality({h}) = 1
      BY FS_Singleton
    <2>. QED  BY <1>8, <1>10, <2>1 DEF Spare
  <1>12. Copies(i)' = {Fresh("none")}
    BY <1>2, <1>6, <1>8 DEF Copies
  <1>13. Stale(i)' = {}
    <2>1. Recording(i)' = {}
      BY <1>2, <1>8 DEF Recording
    <2>2. Outdated(i, Fresh("none"))' = {}
      BY <1>4, <1>6, Constants DEF Outdated, Ages
    <2>. QED  BY <1>12, <2>1, <2>2 DEF Stale
  <1>14. CountInv(i)'
    <2>1. Cardinality(Stale(i)') = 0
      BY <1>13, FS_EmptySet
    <2>. QED  BY <1>4, <1>6, <1>11, <1>12, <2>1 DEF CountInv
  <1>15. \A j \in Incidents \ {i} :
           /\ row'[j] = row[j] /\ since'[j] = since[j]
           /\ slips'[j] = slips[j] /\ repeats'[j] = repeats[j]
    BY <1>1, <1>5
  <1>16. task[h].incident \in {i, NoIncident}
    BY <1>1, IdleTyped
  <1>. QED  BY <1>2, <1>3, <1>7, <1>9, <1>14, <1>15, <1>16, OnlyHere

\* What applying an action does to the handlers: the one that applied is left
\* to record, and every copy of the incident misses the entry.
LEMMA AppliedTo ==
    ASSUME TypeInv, NEW h \in Handlers, ApplyAction(h)
    PROVE  LET i == task[h].incident
           IN  /\ task[h].step = "apply" /\ task'[h].step = "record"
               /\ task' \in [Handlers -> Tasks]
               /\ \A g \in Handlers :
                    /\ TaskSound(task[g])'
                    /\ task'[g].incident = task[g].incident
                    /\ task'[g].action = task[g].action
                    /\ g # h => task'[g].step = task[g].step
                    /\ g \notin Working(i) => task'[g] = task[g]
                    /\ g \in Working(i) => task'[g].seen = Unrecorded(task[g].seen)
  <1>. DEFINE i == task[h].incident
              S(p, g) == IF g = h THEN [task[h] EXCEPT !.step = "record",
                                                       !.payload = p]
                                  ELSE task[g]
              T(p, g) == IF g \in Working(i)
                           THEN [S(p, g) EXCEPT !.seen = Unrecorded(@)]
                           ELSE S(p, g)
  <1>1. PICK p \in Payloads : task' = [g \in Handlers |-> T(p, g)]
    BY DEF ApplyAction
  <1>2. /\ task[h].step = "apply" /\ i \in Incidents /\ h \in Working(i)
    BY TaskTyped DEF ApplyAction
  <1>3. ASSUME NEW r \in Rows
        PROVE  /\ Unrecorded(r) \in Rows /\ Unrecorded(r).missing = r.missing + 1
               /\ Unrecorded(r).age = r.age
    BY DEF Unrecorded, Rows
  <1>4. ASSUME NEW g \in Handlers
        PROVE  /\ S(p, g) \in Tasks /\ S(p, g).seen = task[g].seen
               /\ S(p, g).incident = task[g].incident
               /\ S(p, g).action = task[g].action
               /\ g # h => S(p, g) = task[g]
               /\ S(p, h).step = "record"
    BY TaskTyped DEF Tasks, TaskSteps
  <1>5. ASSUME NEW g \in Handlers
        PROVE  /\ T(p, g) \in Tasks
               /\ T(p, g).incident = task[g].incident
               /\ T(p, g).action = task[g].action
               /\ T(p, g).step = S(p, g).step
               /\ T(p, g).payload = S(p, g).payload
               /\ T(p, g).cooldown = S(p, g).cooldown
               /\ g \in Working(i) => T(p, g).seen = Unrecorded(task[g].seen)
    <2>. HIDE DEF S
    <2>1. S(p, g) \in Tasks /\ Unrecorded(S(p, g).seen) \in Rows
      BY <1>3, <1>4, TaskTyped
    <2>. QED  BY <1>4, <2>1 DEF Tasks
  <1>6. ASSUME NEW g \in Handlers
        PROVE  TaskSound(T(p, g))
    <2>1. CASE g \notin Working(i)
      BY <1>2, <2>1, TaskTyped
    <2>2. CASE g \in Working(i) /\ g = h
      <3>1. T(p, g).step = "record" /\ T(p, g).incident = i
        BY <1>4, <1>5, <2>2
      <3>2. T(p, g).seen.missing >= 1
        BY <1>3, <1>5, <2>2, TaskTyped, RowTyped
      <3>. HIDE DEF T
      <3>. QED  BY <1>2, <3>1, <3>2 DEF TaskSound
    <2>3. CASE g \in Working(i) /\ g # h
      <3>1. /\ T(p, g).step = task[g].step /\ T(p, g).incident = i
            /\ T(p, g).payload = task[g].payload
            /\ T(p, g).cooldown = task[g].cooldown
            /\ T(p, g).action = task[g].action
        BY <1>4, <1>5, <2>3 DEF Working
      <3>2. /\ T(p, g).seen.age = task[g].seen.age
            /\ T(p, g).seen.missing = task[g].seen.missing + 1
            /\ task[g].seen.missing \in Nat
        BY <1>3, <1>5, <2>3, TaskTyped, RowTyped
      <3>3. TaskSound(task[g]) /\ task[g].step # "idle"
        BY <1>2, <2>3, TaskTyped DEF Working
      <3>. HIDE DEF T
      <3>. QED  BY <1>2, <3>1, <3>2, <3>3 DEF TaskSound
    <2>. QED  BY <2>1, <2>2, <2>3
  <1>7. \A g \in Handlers : g \notin Working(i) => T(p, g) = task[g]
    BY <1>2
  <1>. HIDE DEF S, T
  <1>8. task' \in [Handlers -> Tasks] /\ \A g \in Handlers : task'[g] = T(p, g)
    BY <1>1, <1>5
  <1>. QED  BY <1>2, <1>4, <1>5, <1>6, <1>7, <1>8

LEMMA Applied ==
    ASSUME TypeInv, AllCounted, Others', NEW h \in Handlers, ApplyAction(h)
    PROVE  Core' /\ AllCounted'
  <1>0. PICK i, a : i = task[h].incident /\ a = task[h].action
    OBVIOUS
  <1>1. /\ i \in Incidents /\ a \in Actions /\ h \in Working(i)
        /\ task[h].step = "apply" /\ TaskSound(task[h])
        /\ task[h].seen.age \in Ages /\ task[h].cooldown \in 0..MaxCooldown
    BY <1>0, TaskTyped, RowTyped DEF ApplyAction
  <1>2. /\ row' = [row EXCEPT ![i] = Unrecorded(@)]
        /\ since' = [since EXCEPT ![i][a] = 0] /\ slips' = slips
        /\ repeats' = [repeats EXCEPT ![i] =
                         IF since[i][a] < task[h].cooldown THEN @ + 1 ELSE @]
    BY <1>0 DEF ApplyAction
  <1>3. /\ task' \in [Handlers -> Tasks] /\ task'[h].step = "record"
        /\ \A g \in Handlers :
             /\ TaskSound(task[g])' /\ task'[g].incident = task[g].incident
             /\ task'[g].action = task[g].action
             /\ g # h => task'[g].step = task[g].step
             /\ g \notin Working(i) => task'[g] = task[g]
             /\ g \in Working(i) => task'[g].seen = Unrecorded(task[g].seen)
    BY <1>0, AppliedTo
  <1>4. /\ row \in [Incidents -> Rows] /\ since \in [Incidents -> Ages]
        /\ slips \in [Incidents -> Nat] /\ repeats \in [Incidents -> Nat]
    BY DEF TypeInv, TypeOK
  <1>5. ASSUME NEW r \in Rows
        PROVE  /\ Unrecorded(r) \in Rows /\ Unrecorded(r).missing = r.missing + 1
               /\ Unrecorded(r).age = r.age /\ Unrecorded(r).status = r.status
    BY DEF Unrecorded, Rows
  <1>6. Core'
    <2>1. row' \in [Incidents -> Rows]
      BY <1>1, <1>2, <1>4, <1>5
    <2>2. since' \in [Incidents -> Ages]
      <3>1. [since[i] EXCEPT ![a] = 0] \in Ages
        BY <1>1, <1>4, Constants DEF Ages
      <3>. QED  BY <1>2, <1>4, <3>1
    <2>3. slips' \in [Incidents -> Nat] /\ repeats' \in [Incidents -> Nat]
      BY <1>1, <1>2, <1>4
    <2>. QED  BY <1>3, <2>1, <2>2, <2>3 DEF Core
  <1>7. TypeInv'
    BY <1>6, TypeParts
  <1>8. \A j : Working(j)' = Working(j)
    BY <1>3 DEF Working
  <1>9. ASSUME NEW j \in Incidents, j # i
        PROVE  Unborn(j)' /\ CountInv(j)'
    <2>1. \A g \in Working(j) : task'[g] = task[g]
      BY <1>3, <1>9 DEF Working
    <2>2. /\ row'[j] = row[j] /\ since'[j] = since[j] /\ slips'[j] = slips[j]
          /\ repeats'[j] = repeats[j] /\ Unborn(j) /\ CountInv(j)
      BY <1>2, <1>4, <1>9 DEF AllCounted
    <2>. QED  BY <1>8, <2>1, <2>2, Elsewhere
  <1>10. Unborn(i)'
    <2>1. row[i].status # "none"
      BY <1>1 DEF AllCounted, Unborn
    <2>2. row'[i].status # "none"
      BY <1>1, <1>2, <1>4, <1>5, <2>1
    <2>. QED  BY <2>2 DEF Unborn
  <1>11. Spare(i)' = Spare(i) - 1
    <2>1. Active(i)' = Active(i) \ {h} /\ h \in Active(i)
      BY <1>1, <1>3, <1>8, SpareTyped DEF Active
    <2>. QED  BY <1>8, <2>1, SpareApplies
  <1>12. ASSUME NEW d \in Copies(i)'
         PROVE  \E c \in Copies(i) : d.age = c.age /\ d.missing = c.missing + 1
    <2>1. CASE d = row'[i]
      <3>1. d = Unrecorded(row[i]) /\ row[i] \in Rows /\ row[i] \in Copies(i)
        BY <1>1, <1>2, <1>4, <2>1 DEF Copies
      <3>. QED  BY <1>5, <3>1
    <2>2. CASE \E g \in Working(i)' : d = task'[g].seen
      <3>1. PICK g \in Working(i) : d = task'[g].seen
        BY <1>8, <2>2
      <3>2. g \in Handlers /\ task[g].seen \in Copies(i)
        BY DEF Working, Copies
      <3>3. d = Unrecorded(task[g].seen) /\ task[g].seen \in Rows
        BY <1>3, <3>1, <3>2, TaskTyped
      <3>. QED  BY <1>5, <3>2, <3>3
    <2>. QED  BY <2>1, <2>2 DEF Copies
  <1>13. Stale(i)' \subseteq Stale(i) \cup {a}
    <2>. SUFFICES ASSUME NEW b \in Stale(i)', b # a PROVE b \in Stale(i)
      OBVIOUS
    <2>1. CASE b \in Recording(i)'
      <3>1. PICK g \in Working(i)' : task'[g].step = "record" /\ b = task'[g].action
        BY <2>1 DEF Recording
      <3>2. g \in Handlers /\ g \in Working(i)
        BY <1>8 DEF Working
      <3>3. g # h
        BY <1>0, <1>3, <3>1, <3>2
      <3>. QED  BY <1>3, <3>1, <3>2, <3>3 DEF Stale, Recording
    <2>2. CASE b \notin Recording(i)'
      <3>1. PICK d \in Copies(i)' : b \in Actions /\ d.age[b] > since'[i][b]
        BY <2>2 DEF Stale, Outdated
      <3>2. PICK c \in Copies(i) : d.age = c.age
        BY <1>12
      <3>3. since'[i][b] = since[i][b]
        BY <1>1, <1>2, <1>4, <3>1 DEF Ages
      <3>4. b \in Outdated(i, c)
        BY <3>1, <3>2, <3>3 DEF Outdated
      <3>. QED  BY <3>2, <3>4 DEF Stale
    <2>. QED  BY <2>1, <2>2
  <1>14. /\ Spare(i) \in Int /\ slips[i] \in Nat /\ repeats[i] \in Nat
         /\ slips'[i] = slips[i]
         /\ repeats'[i] = IF since[i][a] < task[h].cooldown THEN repeats[i] + 1
                                                            ELSE repeats[i]
         /\ CountInv(i)
    BY <1>1, <1>2, <1>4, SpareTyped DEF AllCounted
  <1>15. ASSUME NEW d \in Copies(i)'
         PROVE  d.missing + Spare(i)' <= slips'[i]
    <2>1. PICK c \in Copies(i) : d.missing = c.missing + 1
      BY <1>12
    <2>2. c.missing \in Nat /\ c.missing + Spare(i) <= slips[i]
      BY <1>1, <1>14, CopyTyped DEF CountInv
    <2>. QED  BY <1>11, <1>14, <2>1, <2>2
  <1>16. repeats'[i] + Cardinality(Stale(i)') + Spare(i)' <= slips'[i]
    <2>1. /\ Stale(i) \subseteq Actions /\ Stale(i)' \subseteq Actions
          /\ Stale(i) \cup {a} \subseteq Actions
      BY <1>1, <1>13, StaleTyped
    <2>2. /\ IsFiniteSet(Stale(i)) /\ Cardinality(Stale(i)) \in Nat
          /\ Cardinality(Stale(i)') \in Nat
      BY <2>1, Counted
    <2>3. repeats[i] + Cardinality(Stale(i)) + Spare(i) <= slips[i]
      BY <1>14 DEF CountInv
    <2>4. CASE a \in Stale(i)
      <3>1. Stale(i)' \subseteq Stale(i)
        BY <1>13, <2>4
      <3>2. Cardinality(Stale(i)') <= Cardinality(Stale(i))
        BY <2>2, <3>1, FS_Subset
      <3>3. repeats'[i] \in Nat /\ repeats'[i] <= repeats[i] + 1
        BY <1>14
      <3>. QED  BY <1>11, <1>14, <2>2, <2>3, <3>2, <3>3
    <2>5. CASE a \notin Stale(i)
      <3>1. IsFiniteSet(Stale(i) \cup {a})
            /\ Cardinality(Stale(i) \cup {a}) = Cardinality(Stale(i)) + 1
        BY <2>2, <2>5, FS_AddElement
      <3>2. Cardinality(Stale(i)') <= Cardinality(Stale(i)) + 1
        BY <1>13, <3>1, FS_Subset
      <3>3. repeats'[i] = repeats[i]
        <4>1. task[h].seen \in Copies(i)
          BY <1>1 DEF Copies
        <4>2. ~ (task[h].seen.age[a] > since[i][a])
          BY <1>1, <2>5, <4>1 DEF Stale, Outdated
        <4>3. task[h].seen.age[a] >= task[h].cooldown
          BY <1>0, <1>1 DEF TaskSound
        <4>4. /\ task[h].seen.age[a] \in Int /\ since[i][a] \in Int
              /\ task[h].cooldown \in Int
          BY <1>1, <1>4, Constants DEF Ages
        <4>. QED  BY <1>14, <4>2, <4>3, <4>4
      <3>. QED  BY <1>11, <1>14, <2>2, <2>3, <3>2, <3>3
    <2>. QED  BY <2>4, <2>5
  <1>17. CountInv(i)'
    BY <1>15, <1>16 DEF CountInv
  <1>. QED  BY <1>6, <1>9, <1>10, <1>17 DEF AllCounted

\* A handler that records leaves its copy with the entry; it was stale in all.
LEMMA Recorded ==
    ASSUME TypeInv, AllCounted, Others', NEW h \in Handlers, RecordAction(h)
    PROVE  Core' /\ AllCounted'
  <1>0. PICK i, a, r : /\ i = task[h].incident /\ a = task[h].action
                       /\ r = [task[h].seen EXCEPT !.status = "MITIGATED",
                                 !.age[task[h].action] = 0, !.missing = @ - 1,
                                 !.payload = task[h].payload]
    OBVIOUS
  <1>1. /\ task[h].step = "record" /\ row' = [row EXCEPT ![i] = r]
        /\ task' = [task EXCEPT ![h] = Idle] /\ UNCHANGED history
    BY <1>0 DEF RecordAction, Finish
  <1>2. /\ i \in Incidents /\ a \in Actions /\ h \in Working(i)
        /\ task[h].seen \in Rows /\ task[h].seen \in Copies(i)
        /\ task[h].seen.age \in Ages /\ task[h].seen.missing \in Nat \ {0}
    <2>1. task[h].seen.missing >= 1
      BY <1>1, TaskTyped DEF TaskSound
    <2>. QED  BY <1>0, <1>1, <2>1, TaskTyped, RowTyped DEF Copies
  <1>3. /\ r \in Rows /\ r.status = "MITIGATED"
        /\ r.missing = task[h].seen.missing - 1
        /\ r.age = [task[h].seen.age EXCEPT ![a] = 0]
    <2>1. [task[h].seen.age EXCEPT ![a] = 0] \in [Actions -> 0..MaxCooldown]
      BY <1>2, Constants DEF Ages
    <2>2. task[h].payload \in Payloads /\ task[h].seen.missing - 1 \in Nat
      BY <1>2, TaskTyped
    <2>. QED  BY <1>0, <1>2, <2>1, <2>2 DEF Rows
  <1>4. Moves(h, Idle)
    BY <1>1, IdleTyped DEF Moves
  <1>5. /\ row \in [Incidents -> Rows] /\ since \in [Incidents -> Ages]
        /\ slips \in [Incidents -> Nat] /\ repeats \in [Incidents -> Nat]
        /\ since' = since /\ slips' = slips /\ repeats' = repeats
        /\ row'[i] = r
    BY <1>1, <1>2 DEF TypeInv, TypeOK, history
  <1>6. Core'
    BY <1>1, <1>3, <1>4, <1>5, Moved DEF Core
  <1>7. TypeInv'
    BY <1>6, TypeParts
  <1>8. /\ \A g \in Handlers : task'[g] = IF g = h THEN Idle ELSE task[g]
        /\ Working(i)' = Working(i) \ {h}
    BY <1>2, <1>4, Moved, IdleTyped, Constants
  <1>9. /\ Spare(i)' <= Spare(i) + 1
        /\ Working(i)' # {} => Spare(i)' = Spare(i)
    <2>1. Active(i)' = Active(i)
      BY <1>1, <1>8 DEF Active, Working
    <2>. QED  BY <1>2, <1>8, <2>1, SpareRecords
  <1>10. Unborn(i)'
    BY <1>3, <1>5 DEF Unborn
  <1>11. Copies(i)' = {r} \cup {task[g].seen : g \in Working(i)'}
         /\ {task[g].seen : g \in Working(i)'} \subseteq Copies(i)
    BY <1>5, <1>8 DEF Copies, Working
  <1>12. /\ Spare(i) \in Int /\ Spare(i)' \in Int /\ slips[i] \in Nat
         /\ repeats[i] \in Nat /\ CountInv(i)
    BY <1>2, <1>5, SpareTyped DEF AllCounted
  <1>13. ASSUME NEW d \in Copies(i)'
         PROVE  d.missing + Spare(i)' <= slips'[i]
    <2>1. CASE d = r
      <3>1. task[h].seen.missing + Spare(i) <= slips[i]
        BY <1>2, <1>12 DEF CountInv
      <3>. QED  BY <1>2, <1>3, <1>5, <1>9, <1>12, <2>1, <3>1
    <2>2. CASE d # r
      <3>1. Working(i)' # {} /\ d \in Copies(i)
        BY <1>11, <2>2
      <3>2. d.missing + Spare(i) <= slips[i]
        BY <1>12, <3>1 DEF CountInv
      <3>. QED  BY <1>5, <1>9, <3>1, <3>2
    <2>. QED  BY <2>1, <2>2
  <1>14. /\ Recording(i)' \subseteq Recording(i) /\ a \in Recording(i)
         /\ Working(i)' = {} => Recording(i)' = {}
    BY <1>0, <1>1, <1>2, <1>8 DEF Recording, Working
  <1>15. Outdated(i, r)' \subseteq Outdated(i, task[h].seen) \ {a}
    <2>. SUFFICES ASSUME NEW b \in Actions, r.age[b] > since[i][b]
                  PROVE  b # a /\ task[h].seen.age[b] > since[i][b]
      BY <1>5 DEF Outdated
    <2>1. since[i][b] \in Nat
      BY <1>2, <1>5, Constants DEF Ages
    <2>. QED  BY <1>2, <1>3, <2>1 DEF Ages
  <1>16. Stale(i)' \subseteq Stale(i)
    <2>. SUFFICES ASSUME NEW b \in Stale(i)', b \notin Recording(i)'
                  PROVE  b \in Stale(i)
      BY <1>14 DEF Stale
    <2>1. PICK d \in Copies(i)' : b \in Outdated(i, d)'
      BY DEF Stale
    <2>2. CASE d = r
      BY <1>2, <1>15, <2>1, <2>2 DEF Stale
    <2>3. CASE d # r
      <3>1. d \in Copies(i)
        BY <1>11, <2>3
      <3>2. Outdated(i, d)' = Outdated(i, d)
        BY <1>5 DEF Outdated
      <3>. QED  BY <2>1, <3>1, <3>2 DEF Stale
    <2>. QED  BY <2>2, <2>3
  <1>17. repeats'[i] + Cardinality(Stale(i)') + Spare(i)' <= slips'[i]
    <2>1. /\ IsFiniteSet(Stale(i)) /\ Cardinality(Stale(i)) \in Nat
          /\ Cardinality(Stale(i)') \in Nat
      BY <1>2, <1>16, StaleTyped, Counted
    <2>2. repeats[i] + Cardinality(Stale(i)) + Spare(i) <= slips[i]
      BY <1>12 DEF CountInv
    <2>3. CASE Working(i)' # {}
      <3>1. Cardinality(Stale(i)') <= Cardinality(Stale(i))
        BY <1>16, <2>1, FS_Subset
      <3>. QED  BY <1>5, <1>9, <1>12, <2>1, <2>2, <2>3, <3>1
    <2>4. CASE Working(i)' = {}
      <3>1. a \in Stale(i) /\ Stale(i)' \subseteq Stale(i) \ {a}
        <4>1. Copies(i)' = {r} /\ Recording(i)' = {}
          BY <1>11, <1>14, <2>4
        <4>2. Stale(i)' = Outdated(i, r)'
          BY <4>1 DEF Stale
        <4>. QED  BY <1>14, <1>15, <1>16, <4>2 DEF Stale
      <3>2. /\ IsFiniteSet(Stale(i) \ {a})
            /\ Cardinality(Stale(i) \ {a}) = Cardinality(Stale(i)) - 1
        BY <2>1, <3>1, FS_RemoveElement
      <3>3. Cardinality(Stale(i)') <= Cardinality(Stale(i)) - 1
        BY <3>1, <3>2, FS_Subset
      <3>. QED  BY <1>5, <1>9, <1>12, <2>1, <2>2, <3>3
    <2>. QED  BY <2>3, <2>4
  <1>18. CountInv(i)'
    BY <1>13, <1>17 DEF CountInv
  <1>19. \A j \in Incidents \ {i} :
           /\ row'[j] = row[j] /\ since'[j] = since[j]
           /\ slips'[j] = slips[j] /\ repeats'[j] = repeats[j]
    BY <1>1, <1>5
  <1>20. task[h].incident \in {i, NoIncident} /\ Idle.incident \in {i, NoIncident}
    BY <1>0, IdleTyped
  <1>. QED  BY <1>2, <1>4, <1>6, <1>10, <1>18, <1>19, <1>20, OnlyHere

\* A handler that fails after its commit: the entry is lost, and counted.
LEMMA LostEntry ==
    ASSUME TypeInv, AllCounted, Others', NEW h \in Handlers, Fail(h),
           task[h].step = "record"
    PROVE  Core' /\ AllCounted'
  <1>0. PICK i : i = task[h].incident
    OBVIOUS
  <1>1. /\ task' = [task EXCEPT ![h] = Idle] /\ row' = row /\ since' = since
        /\ repeats' = repeats /\ slips' = [slips EXCEPT ![i] = @ + 1]
    BY <1>0 DEF Fail, Finish
  <1>2. i \in Incidents /\ h \in Working(i)
    BY <1>0, TaskTyped
  <1>3. Moves(h, Idle)
    BY <1>1, IdleTyped DEF Moves
  <1>4. /\ slips \in [Incidents -> Nat] /\ slips'[i] = slips[i] + 1
        /\ slips' \in [Incidents -> Nat]
    BY <1>1, <1>2 DEF TypeInv
  <1>5. Core'
    BY <1>1, <1>3, <1>4, Moved DEF Core, TypeInv, TypeOK
  <1>6. TypeInv'
    BY <1>5, TypeParts
  <1>7. /\ \A g \in Handlers : task'[g] = IF g = h THEN Idle ELSE task[g]
        /\ Working(i)' = Working(i) \ {h}
    BY <1>2, <1>3, Moved, IdleTyped, Constants
  <1>8. Spare(i)' <= Spare(i) + 1
    <2>1. Active(i)' = Active(i)
      BY <1>7 DEF Active, Working
    <2>. QED  BY <1>2, <1>7, <2>1, SpareRecords
  <1>9. Copies(i)' \subseteq Copies(i) /\ Recording(i)' \subseteq Recording(i)
    BY <1>1, <1>7 DEF Copies, Recording, Working
  <1>10. Stale(i)' \subseteq Stale(i)
    BY <1>1, <1>9, StaleKept
  <1>11. CountInv(i)'
    <2>1. CountInv(i) /\ repeats'[i] = repeats[i] /\ slips[i] \in Nat
      BY <1>1, <1>2, <1>4 DEF AllCounted
    <2>2. Spare(i)' - slips'[i] <= Spare(i) - slips[i]
      BY <1>4, <1>8, <2>1, SpareTyped
    <2>3. \A d \in Copies(i)' : \E c \in Copies(i) : d.missing = c.missing
      BY <1>9
    <2>. QED  BY <1>2, <1>6, <1>10, <2>1, <2>2, <2>3, CountKept
  <1>12. Unborn(i)'
    <2>1. row[i].status # "none"
      BY <1>2 DEF AllCounted, Unborn
    <2>. QED  BY <1>1, <2>1 DEF Unborn
  <1>13. \A j \in Incidents \ {i} :
           /\ row'[j] = row[j] /\ since'[j] = since[j]
           /\ slips'[j] = slips[j] /\ repeats'[j] = repeats[j]
    BY <1>1, <1>4
  <1>14. task[h].incident \in {i, NoIncident} /\ Idle.incident \in {i, NoIncident}
    BY <1>0, IdleTyped
  <1>. QED  BY <1>2, <1>3, <1>5, <1>11, <1>12, <1>13, <1>14, OnlyHere

\* What leaves rows and handlers alone.
LEMMA Still ==
    ASSUME TypeInv, AllCounted, UNCHANGED <<row, task, history>>
    PROVE  Core' /\ AllCounted'
  <1>1. /\ row' = row /\ task' = task /\ since' = since /\ slips' = slips
        /\ repeats' = repeats
    BY DEF history
  <1>2. Core'
    BY <1>1 DEF Core, TypeInv, TypeOK
  <1>3. ASSUME NEW j \in Incidents
        PROVE  Unborn(j)' /\ CountInv(j)'
    <2>1. Unborn(j) /\ CountInv(j) /\ Working(j)' = Working(j)
      BY <1>1 DEF AllCounted, Working
    <2>. QED  BY <1>1, <2>1, Elsewhere
  <1>. QED  BY <1>2, <1>3 DEF AllCounted

LEMMA Ticked ==
    ASSUME TypeInv, AllCounted, Others', Tick
    PROVE  Core' /\ AllCounted'
  <1>1. /\ row \in [Incidents -> Rows] /\ task \in [Handlers -> Tasks]
        /\ since \in [Incidents -> Ages]
        /\ \A h \in Handlers : TaskSound(task[h]) /\ task[h].seen.age \in Ages
        /\ \A i \in Incidents : row[i].age \in Ages
        /\ slips' = slips /\ repeats' = repeats
    BY TaskTyped, RowTyped DEF TypeInv, TypeOK, Tick
  <1>2. /\ row' = [i \in Incidents |-> [row[i] EXCEPT !.age = Older(@)]]
        /\ task' = [h \in Handlers |-> [task[h] EXCEPT !.seen.age = Older(@)]]
        /\ since' = [i \in Incidents |-> Older(since[i])]
    BY DEF Tick
  <1>3. ASSUME NEW i \in Incidents
        PROVE  /\ row'[i] \in Rows /\ row'[i].age = Older(row[i].age)
               /\ row'[i].status = row[i].status
               /\ row'[i].missing = row[i].missing
               /\ since'[i] = Older(since[i]) /\ since'[i] \in Ages
    BY <1>1, <1>2, OlderTyped DEF Rows, Ages
  <1>4. ASSUME NEW h \in Handlers
        PROVE  /\ task'[h] \in Tasks /\ task'[h].step = task[h].step
               /\ task'[h].incident = task[h].incident
               /\ task'[h].action = task[h].action
               /\ task'[h].payload = task[h].payload
               /\ task'[h].cooldown = task[h].cooldown
               /\ task'[h].seen.age = Older(task[h].seen.age)
               /\ task'[h].seen.missing = task[h].seen.missing
    <2>1. /\ task[h] \in Tasks /\ task[h].seen \in Rows
          /\ Older(task[h].seen.age) \in Ages
      BY <1>1, OlderTyped, TaskTyped
    <2>2. [task[h].seen EXCEPT !.age = Older(@)] \in Rows
      BY <2>1 DEF Rows, Ages
    <2>. QED  BY <1>2, <2>1, <2>2 DEF Tasks, Rows
  <1>5. Older(NeverApplied) = NeverApplied
    BY Constants DEF Older, NeverApplied
  <1>6. ASSUME NEW h \in Handlers
        PROVE  TaskSound(task[h])'
    <2>1. task[h] = Idle => task'[h] = Idle
      BY <1>2, <1>5 DEF Idle, Fresh
    <2>2. /\ task'[h].step = "apply" =>
               task'[h].seen.age[task'[h].action] >= task'[h].cooldown
      <3>. SUFFICES ASSUME task[h].step = "apply"
                    PROVE  Older(task[h].seen.age)[task[h].action]
                             >= task[h].cooldown
        BY <1>4
      <3>1. /\ task[h].seen.age[task[h].action] >= task[h].cooldown
            /\ task[h].action \in Actions /\ task[h].cooldown \in 0..MaxCooldown
        BY <1>1, TaskTyped DEF TaskSound
      <3>2. /\ Older(task[h].seen.age) \in Ages
            /\ task[h].seen.age[task[h].action]
                 <= Older(task[h].seen.age)[task[h].action]
        BY <1>1, <3>1, OlderTyped
      <3>. QED  BY <1>1, <3>1, <3>2, Constants DEF Ages
    <2>3. TaskSound(task[h])
      BY <1>1
    <2>. QED  BY <1>4, <2>1, <2>2, <2>3 DEF TaskSound
  <1>7. Core'
    <2>1. /\ row' \in [Incidents -> Rows] /\ since' \in [Incidents -> Ages]
          /\ task' \in [Handlers -> Tasks]
      BY <1>2, <1>3, <1>4
    <2>. QED  BY <1>1, <1>6, <2>1 DEF Core, TypeInv
  <1>8. TypeInv'
    BY <1>7, TypeParts
  <1>9. ASSUME NEW i \in Incidents
        PROVE  Unborn(i)' /\ CountInv(i)'
    <2>1. /\ Working(i)' = Working(i) /\ Active(i)' = Active(i)
          /\ Recording(i)' = Recording(i)
      BY <1>4 DEF Working, Active, Recording
    <2>2. Unborn(i) /\ CountInv(i)
      BY DEF AllCounted
    <2>3. Unborn(i)'
      BY <1>3, <1>4, <1>5, <2>1, <2>2 DEF Unborn, Working
    <2>4. ASSUME NEW d \in Copies(i)'
          PROVE  \E c \in Copies(i) : /\ d.missing = c.missing
                                      /\ d.age = Older(c.age)
      <3>1. CASE d = row'[i]
        BY <1>3, <3>1 DEF Copies
      <3>2. CASE \E g \in Working(i)' : d = task'[g].seen
        BY <1>4, <2>1, <3>2 DEF Copies, Working
      <3>. QED  BY <3>1, <3>2 DEF Copies
    <2>5. Stale(i)' \subseteq Stale(i)
      <3>. SUFFICES ASSUME NEW b \in Stale(i)', b \notin Recording(i)'
                    PROVE  b \in Stale(i)
        BY <2>1 DEF Stale
      <3>1. PICK d \in Copies(i)' : b \in Actions /\ d.age[b] > since'[i][b]
        BY DEF Stale, Outdated
      <3>2. PICK c \in Copies(i) : d.age = Older(c.age)
        BY <2>4
      <3>3. c.age \in Ages /\ since[i] \in Ages
        BY <1>1, CopyTyped
      <3>4. ~ (c.age[b] <= since[i][b])
        <4>1. /\ Older(c.age)[b] > Older(since[i])[b]
              /\ Older(c.age)[b] \in Int /\ Older(since[i])[b] \in Int
          BY <1>3, <3>1, <3>2, <3>3, OlderTyped, Constants DEF Ages
        <4>. QED  BY <3>1, <3>3, <4>1, OlderGrows
      <3>5. b \in Outdated(i, c)
        BY <3>1, <3>3, <3>4, Constants DEF Outdated, Ages
      <3>. QED  BY <3>5 DEF Stale
    <2>6. Spare(i)' - slips'[i] <= Spare(i) - slips[i]
      <3>1. Spare(i)' = Spare(i) /\ slips'[i] = slips[i] /\ slips[i] \in Nat
        BY <1>1, <2>1, SpareSame DEF TypeInv
      <3>. QED  BY <3>1, SpareTyped
    <2>7. CountInv(i)'
      BY <1>1, <1>8, <2>2, <2>4, <2>5, <2>6, CountKept
    <2>. QED  BY <2>3, <2>7
  <1>. QED  BY <1>7, <1>9 DEF AllCounted
----------------------------------------------------------------------------
(* Every step.                                                             *)

LEMMA OthersNext ==
    ASSUME TypeInv, [Next]_vars
    PROVE  Others'
  <1>1. Others
    BY TypeParts
  <1>. USE <1>1 DEF Others
  <1>2. ASSUME NEW h \in Handlers, HandlerStep(h)
        PROVE  Others'
    <2>1. CASE ApplyAction(h)
      <3>1. PICK p \in Payloads : Effect(task[h].action, p)
        BY <2>1 DEF ApplyAction
      <3>2. trading' \in BOOLEAN /\ leverage' \in 1..InitLeverage
        <4>1. \/ trading' = FALSE /\ leverage' = leverage
              \/ leverage' = Reduced(leverage) /\ trading' = trading
              \/ trading' = trading /\ leverage' = leverage
          BY <3>1 DEF Effect, switches
        <4>2. leverage \in 1..InitLeverage /\ Reduced(leverage) \in 1..InitLeverage
          BY Constants DEF Reduced
        <4>3. trading \in BOOLEAN
          OBVIOUS
        <4>. QED  BY <4>1, <4>2, <4>3, Zenon
      <3>. QED  BY <2>1, <3>2 DEF ApplyAction, bounds
    <2>2. CASE ApplyRollback(h)
      <3>1. task[h].payload \in Payloads \ {NoPayload}
        BY <2>2, TaskTyped DEF ApplyRollback, TaskSound
      <3>2. trading' \in BOOLEAN /\ leverage' \in 1..InitLeverage
        <4>1. \/ trading' = TRUE /\ leverage' = leverage
              \/ /\ leverage' = task[h].payload /\ trading' = trading
                 /\ task[h].payload # EnableTrading
          BY <2>2 DEF ApplyRollback
        <4>2. task[h].payload # EnableTrading => task[h].payload \in 1..InitLeverage
          BY <3>1, Constants DEF Payloads, EnableTrading, NoPayload
        <4>3. trading \in BOOLEAN /\ leverage \in 1..InitLeverage
          OBVIOUS
        <4>. QED  BY <4>1, <4>2, <4>3, Zenon
      <3>. QED  BY <2>2, <3>2 DEF ApplyRollback, bounds
    <2>3. CASE Visit(h)
      BY <2>3 DEF Visit, VisitOpen, VisitNew, switches, bounds
    <2>4. CASE Upsert(h) \/ CheckCooldown(h)
      BY <2>4 DEF Upsert, CheckCooldown, switches, bounds
    <2>5. CASE RecordAction(h) \/ RecordRollback(h) \/ WriteState(h)
      BY <2>5 DEF RecordAction, RecordRollback, WriteState, switches, bounds
    <2>. QED  BY <1>2, <2>1, <2>2, <2>3, <2>4, <2>5 DEF HandlerStep
  <1>3. ASSUME NEW h \in Handlers, Fail(h)
        PROVE  Others'
    BY <1>3, Constants DEF Fail, switches
  <1>4. ASSUME NEW o \in Operators, OperatorStep(o)
        PROVE  Others'
    <2>1. ASSUME Request(o)
          PROVE  /\ requests' \in 0..MaxRequests
                 /\ UNCHANGED <<switches, anomalous, failures>>
      BY <2>1, Constants DEF Request
    <2>2. ASSUME NEW i \in Incidents, ChangePolicy(o, i)
          PROVE  Others'
      <3>1. policy' \in [Incidents -> Policies]
        BY <2>2 DEF ChangePolicy
      <3>. QED  BY <2>1, <2>2, <3>1 DEF ChangePolicy, switches
    <2>3. ASSUME NEW i \in Incidents, NEW step, NEW a, Open(o, i, step, a)
          PROVE  Others'
      BY <2>1, <2>3 DEF Open, switches
    <2>4. CASE RunEngine(o)
      BY <2>1, <2>4 DEF RunEngine, switches
    <2>. QED  BY <1>4, <2>2, <2>3, <2>4 DEF OperatorStep, ExecuteAction,
                                            UpdateIncident, Rollback
  <1>5. CASE StartCycle \/ Tick \/ UNCHANGED vars
    BY <1>5 DEF StartCycle, Tick, vars, switches, bounds
  <1>6. CASE \E f \in Fingerprints : Anomaly(f)
    BY <1>6 DEF Anomaly, switches, bounds
  <1>. QED  BY <1>2, <1>3, <1>4, <1>5, <1>6 DEF Next

\* Only a row of a copy, or the row itself, is written.
LEMMA WrittenFrom ==
    ASSUME TypeInv, NEW h \in Handlers, task[h].step # "idle",
           NEW i \in Incidents, i = task[h].incident,
           NEW status \in {"none", "OPEN", "MITIGATED", "RESOLVED"},
           NEW r \in Written(h, status)
    PROVE  /\ r \in Rows /\ \E c \in Copies(i) : Alike(r, c)
           /\ status = task[h].seen.status \/ r.status = status
           /\ status = task[h].seen.status => r.status = row[i].status
  <1>. DEFINE s == IF status = task[h].seen.status THEN row[i].status ELSE status
  <1>1. /\ row[i] \in Rows /\ task[h].seen \in Rows /\ h \in Working(i)
        /\ row[i] \in Copies(i) /\ task[h].seen \in Copies(i)
    BY TaskTyped DEF Copies
  <1>2. PICK c \in {task[h].seen, row[i]} : r = [c EXCEPT !.status = s]
    BY DEF Written
  <1>3. c \in Rows /\ c \in Copies(i) /\ s \in {"none", "OPEN", "MITIGATED", "RESOLVED"}
    BY <1>1 DEF Rows
  <1>. HIDE DEF s
  <1>4. r \in Rows /\ r.age = c.age /\ r.missing = c.missing /\ r.status = s
    BY <1>2, <1>3 DEF Rows
  <1>. QED  BY <1>3, <1>4 DEF Alike, s

\* Steps of a handler that has nothing to record continue.
LEMMA ContinuesStep ==
    ASSUME TypeInv, AllCounted, NEW h \in Handlers,
           \/ CheckCooldown(h) \/ ApplyRollback(h) \/ RecordRollback(h)
           \/ WriteState(h) \/ Upsert(h)
           \/ Fail(h) /\ task[h].step # "record"
    PROVE  \E i, t, r : Continues(h, i, t, r)
  <1>0. PICK i : i = task[h].incident
    OBVIOUS
  <1>1. task[h].step \notin {"idle", "record"}
    BY TaskTyped DEF CheckCooldown, ApplyRollback, RecordRollback, WriteState,
                     Upsert, Fail, TaskSound
  <1>2. /\ i \in Incidents /\ row[i] \in Rows /\ task[h] \in Tasks
        /\ task[h].seen \in Rows /\ h \in Working(i) /\ TaskSound(task[h])
        /\ row[i] \in Copies(i) /\ task[h].seen \in Copies(i)
        /\ policy[i] \in Choices /\ task[h].action \in Actions
        /\ row \in [Incidents -> Rows] /\ task \in [Handlers -> Tasks]
    BY <1>0, <1>1, TaskTyped DEF Copies, TypeInv, TypeOK
  <1>3. row[i].status = "none" => task[h].step = "upsert"
    BY <1>2 DEF AllCounted, Unborn
  <1>4. Idle \in Tasks /\ TaskSound(Idle)
    BY IdleTyped
  <1>5. ASSUME task' = [task EXCEPT ![h] = Idle], UNCHANGED history,
               NEW r \in Rows, row' = [row EXCEPT ![i] = r],
               \E c \in Copies(i) : Alike(r, c),
               r.status = "none" => r = row[i]
        PROVE  Continues(h, i, Idle, r)
    BY <1>0, <1>1, <1>2, <1>4, <1>5 DEF Continues, Moves
  <1>6. ASSUME NEW t \in Tasks, task' = [task EXCEPT ![h] = t], TaskSound(t),
               UNCHANGED history, NEW r \in Rows, row' = [row EXCEPT ![i] = r],
               \E c \in Copies(i) : Alike(r, c), r.status # "none",
               t.incident = i, t.step # "record",
               \E c \in Copies(i) : Alike(t.seen, c)
        PROVE  Continues(h, i, t, r)
    BY <1>0, <1>1, <1>2, <1>6 DEF Continues, Moves
  <1>7. /\ \E c \in Copies(i) : Alike(row[i], c)
        /\ \E c \in Copies(i) : Alike(task[h].seen, c)
        /\ row' = row => row' = [row EXCEPT ![i] = row[i]]
    BY <1>2 DEF Alike
  <1>8. CASE CheckCooldown(h)
    <2>1. /\ row' = row /\ UNCHANGED history /\ row[i].status # "none"
          /\ task[h].step = "check"
      BY <1>3, <1>8 DEF CheckCooldown
    <2>2. CASE CoolingDown(h) /\ Finish(h)
      BY <1>2, <1>5, <1>7, <2>1, <2>2 DEF Finish
    <2>3. CASE /\ ~ CoolingDown(h)
               /\ task' = [task EXCEPT ![h].step = "apply",
                             ![h].cooldown = policy[task[h].incident].cooldown]
      <3>. DEFINE t == [task[h] EXCEPT !.step = "apply",
                                       !.cooldown = policy[i].cooldown]
      <3>1. task' = [task EXCEPT ![h] = t]
        BY <1>0, <1>2, <2>3
      <3>2. policy[i].cooldown \in 0..MaxCooldown
        BY <1>2 DEF Choices
      <3>3. /\ t \in Tasks /\ t.incident = i /\ t.step = "apply"
            /\ t.seen = task[h].seen /\ t.action = task[h].action
            /\ t.cooldown = policy[i].cooldown
        BY <1>0, <1>2, <3>2 DEF Tasks, TaskSteps
      <3>4. TaskSound(t)
        <4>1. ~ (task[h].seen.age[task[h].action] < policy[i].cooldown)
          BY <1>0, <2>3 DEF CoolingDown
        <4>2. task[h].seen.age[task[h].action] \in 0..MaxCooldown
          BY <1>2 DEF Rows
        <4>3. t.seen.age[t.action] >= t.cooldown
          BY <3>2, <3>3, <4>1, <4>2, Constants
        <4>. HIDE DEF t
        <4>. QED  BY <1>2, <3>3, <4>3 DEF TaskSound
      <3>. HIDE DEF t
      <3>. QED  BY <1>2, <1>6, <1>7, <2>1, <3>1, <3>3, <3>4
    <2>. QED  BY <1>8, <2>2, <2>3 DEF CheckCooldown
  <1>9. CASE ApplyRollback(h)
    <2>. DEFINE t == [task[h] EXCEPT !.step = "undone"]
    <2>1. /\ row' = row /\ UNCHANGED history /\ row[i].status # "none"
          /\ task' = [task EXCEPT ![h] = t]
      BY <1>2, <1>3, <1>9 DEF ApplyRollback
    <2>2. /\ t \in Tasks /\ t.incident = i /\ t.step = "undone"
          /\ t.seen = task[h].seen
      BY <1>0, <1>2 DEF Tasks, TaskSteps
    <2>3. TaskSound(t)
      BY <1>2, <2>2 DEF TaskSound
    <2>. HIDE DEF t
    <2>. QED  BY <1>2, <1>6, <1>7, <2>1, <2>2, <2>3
  <1>10. CASE RecordRollback(h)
    <2>. DEFINE r == [task[h].seen EXCEPT !.status = row[i].status]
    <2>1. /\ row' = [row EXCEPT ![i] = r] /\ UNCHANGED history
          /\ task' = [task EXCEPT ![h] = Idle] /\ row[i].status # "none"
      BY <1>0, <1>3, <1>10 DEF RecordRollback, Finish
    <2>2. /\ r \in Rows /\ r.status = row[i].status /\ r.age = task[h].seen.age
          /\ r.missing = task[h].seen.missing
      BY <1>2 DEF Rows
    <2>. HIDE DEF r
    <2>3. \E c \in Copies(i) : Alike(r, c)
      BY <1>2, <2>2 DEF Alike
    <2>. QED  BY <1>5, <2>1, <2>2, <2>3
  <1>11. CASE WriteState(h)
    <2>1. PICK s \in {"OPEN", "MITIGATED", "RESOLVED"} : \E r \in Written(h, s) :
            row' = [row EXCEPT ![i] = r]
      BY <1>0, <1>11 DEF WriteState
    <2>2. PICK r \in Written(h, s) : row' = [row EXCEPT ![i] = r]
      BY <2>1
    <2>3. /\ UNCHANGED history /\ task' = [task EXCEPT ![h] = Idle]
          /\ row[i].status # "none"
      BY <1>3, <1>11 DEF WriteState, Finish
    <2>4. /\ r \in Rows /\ \E c \in Copies(i) : Alike(r, c)
          /\ r.status = s \/ r.status = row[i].status
      BY <1>0, <1>1, <1>2, <2>2, WrittenFrom
    <2>. QED  BY <1>5, <2>2, <2>3, <2>4
  <1>12. CASE Upsert(h)
    <2>1. /\ UNCHANGED history
          /\ \/ task' = [task EXCEPT ![h] = Idle]
             \/ task' = [task EXCEPT ![h].step = "check",
                           ![h].action = policy[i].action, ![h].seen = row'[i]]
      BY <1>0, <1>12 DEF Upsert, Finish
    <2>2. \E r \in Rows : /\ row' = [row EXCEPT ![i] = r] /\ r.status # "none"
                          /\ \E c \in Copies(i) : Alike(r, c)
      <3>1. CASE row[i].status = "none"
        <4>1. row' = [row EXCEPT ![i] = Fresh("OPEN")]
          BY <1>0, <1>12, <3>1 DEF Upsert
        <4>2. /\ Fresh("OPEN") \in Rows /\ Fresh("OPEN").status = "OPEN"
              /\ Fresh("OPEN").age = NeverApplied /\ Fresh("OPEN").missing = 0
          BY FreshTyped
        <4>3. row[i].age = NeverApplied /\ row[i].missing = 0
          BY <1>2, <3>1 DEF AllCounted, Unborn
        <4>4. Alike(Fresh("OPEN"), row[i])
          BY <4>2, <4>3 DEF Alike
        <4>. QED  BY <1>2, <4>1, <4>2, <4>4
      <3>2. CASE row[i].status # "none"
        <4>1. PICK r \in Written(h, task[h].seen.status) :
                row' = [row EXCEPT ![i] = r]
          BY <1>0, <1>12, <3>2 DEF Upsert
        <4>2. task[h].seen.status \in {"none", "OPEN", "MITIGATED", "RESOLVED"}
          BY <1>2 DEF Rows
        <4>3. /\ r \in Rows /\ r.status = row[i].status
              /\ \E c \in Copies(i) : Alike(r, c)
          BY <1>0, <1>1, <1>2, <4>2, WrittenFrom
        <4>. QED  BY <3>2, <4>1, <4>3
      <3>. QED  BY <3>1, <3>2
    <2>3. PICK r \in Rows : /\ row' = [row EXCEPT ![i] = r] /\ r.status # "none"
                            /\ \E c \in Copies(i) : Alike(r, c)
      BY <2>2
    <2>4. CASE task' = [task EXCEPT ![h] = Idle]
      BY <1>5, <2>1, <2>3, <2>4
    <2>5. CASE task' = [task EXCEPT ![h].step = "check",
                          ![h].action = policy[i].action, ![h].seen = row'[i]]
      <3>. DEFINE t == [task[h] EXCEPT !.step = "check",
                          !.action = policy[i].action, !.seen = r]
      <3>1. task' = [task EXCEPT ![h] = t]
        BY <1>2, <2>3, <2>5
      <3>2. policy[i].action \in Actions
        BY <1>2 DEF Choices
      <3>3. /\ t \in Tasks /\ t.incident = i /\ t.step = "check" /\ t.seen = r
        BY <1>0, <1>2, <3>2 DEF Tasks, TaskSteps
      <3>. HIDE DEF t
      <3>4. TaskSound(t)
        BY <1>2, <3>3 DEF TaskSound
      <3>. QED  BY <1>6, <2>1, <2>3, <3>1, <3>3, <3>4
    <2>. QED  BY <2>1, <2>4, <2>5
  <1>13. CASE Fail(h) /\ task[h].step # "record"
    <2>1. /\ row' = row /\ slips' = slips /\ since' = since /\ repeats' = repeats
          /\ task' = [task EXCEPT ![h] = Idle]
      BY <1>13 DEF Fail, Finish
    <2>. QED  BY <1>2, <1>5, <1>7, <2>1 DEF history
  <1>. QED  BY <1>8, <1>9, <1>10, <1>11, <1>12, <1>13

LEMMA BeginsStep ==
    ASSUME TypeInv, NEW h \in Handlers, NEW i \in Incidents, task[h] = Idle,
           NEW step \in {"upsert", "check", "undo", "update"}, NEW a \in Actions,
           step = "undo" => row[i].payload # NoPayload,
           row[i].status # "none", Begin(h, i, step, a, row[i]),
           UNCHANGED <<row, since, repeats>>
    PROVE  \E t : Begins(h, i, t)
  <1>. DEFINE t == [step |-> step, incident |-> i, action |-> a, seen |-> row[i],
                    payload |-> row[i].payload, cooldown |-> 0]
  <1>1. row[i] \in Rows /\ row[i].payload \in Payloads
    BY RowTyped DEF TypeInv, TypeOK
  <1>2. /\ t \in Tasks /\ t.step = step /\ t.incident = i /\ t.seen = row[i]
        /\ t.payload = row[i].payload
    BY <1>1, Constants DEF Tasks, TaskSteps
  <1>3. task' = [task EXCEPT ![h] = t]
    BY DEF Begin
  <1>. HIDE DEF t
  <1>4. TaskSound(t)
    BY <1>2 DEF TaskSound
  <1>5. slips' = [slips EXCEPT ![i] = IF Working(i) = {} THEN @ ELSE @ + 1]
    BY DEF Begin
  <1>. QED  BY <1>2, <1>3, <1>4, <1>5 DEF Begins, Moves

LEMMA OperatorNext ==
    ASSUME TypeInv, AllCounted, Others', NEW o \in Operators, OperatorStep(o)
    PROVE  Core' /\ AllCounted'
  <1>1. o \in Handlers
    BY Constants
  <1>2. ASSUME Request(o)
        PROVE  task[o] = Idle /\ UNCHANGED <<row, since, repeats>>
    BY <1>2 DEF Request
  <1>3. CASE RunEngine(o) \/ \E i \in Incidents : ChangePolicy(o, i)
    <2>1. UNCHANGED <<row, task, history>>
      BY <1>2, <1>3 DEF RunEngine, ChangePolicy, history
    <2>. QED  BY <2>1, Still
  <1>4. ASSUME NEW i \in Incidents, NEW step \in {"check", "undo", "update"},
               NEW a \in Actions, Open(o, i, step, a),
               step = "undo" => row[i].payload # NoPayload
        PROVE  Core' /\ AllCounted'
    <2>1. /\ Begin(o, i, step, a, row[i]) /\ row[i].status # "none"
          /\ task[o] = Idle /\ UNCHANGED <<row, since, repeats>>
      BY <1>2, <1>4 DEF Open
    <2>2. \E t : Begins(o, i, t)
      BY <1>1, <1>4, <2>1, BeginsStep
    <2>. QED  BY <1>1, <2>2, Begun
  <1>5. "restart_worker" \in Actions
    BY DEF Actions
  <1>6. ASSUME NEW i \in Incidents, ExecuteAction(o, i)
        PROVE  Core' /\ AllCounted'
    BY <1>4, <1>6 DEF ExecuteAction
  <1>7. ASSUME NEW i \in Incidents, UpdateIncident(o, i)
        PROVE  Core' /\ AllCounted'
    BY <1>4, <1>5, <1>7 DEF UpdateIncident
  <1>8. ASSUME NEW i \in Incidents, Rollback(o, i)
        PROVE  Core' /\ AllCounted'
    BY <1>4, <1>5, <1>8 DEF Rollback
  <1>. QED  BY <1>3, <1>6, <1>7, <1>8 DEF OperatorStep

LEMMA HandlerNext ==
    ASSUME TypeInv, AllCounted, Others', NEW h \in Handlers,
           HandlerStep(h) \/ Fail(h)
    PROVE  Core' /\ AllCounted'
  <1>1. CASE \/ CheckCooldown(h) \/ ApplyRollback(h) \/ RecordRollback(h)
             \/ WriteState(h) \/ Upsert(h)
             \/ Fail(h) /\ task[h].step # "record"
    <2>1. \E i, t, r : Continues(h, i, t, r)
      BY <1>1, ContinuesStep
    <2>. QED  BY <2>1, Continued
  <1>2. CASE Fail(h) /\ task[h].step = "record"
    BY <1>2, LostEntry
  <1>3. CASE ApplyAction(h)
    BY <1>3, Applied
  <1>4. CASE RecordAction(h)
    BY <1>4, Recorded
  <1>5. ASSUME NEW i \in Incidents, VisitOpen(h, i)
        PROVE  Core' /\ AllCounted'
    <2>1. /\ Begin(h, i, "upsert", "restart_worker", row[i]) /\ task[h] = Idle
          /\ row[i].status # "none" /\ UNCHANGED <<row, since, repeats>>
          /\ "restart_worker" \in Actions
      BY <1>5 DEF VisitOpen, IsOpen, Actions
    <2>2. \E t : Begins(h, i, t)
      BY <2>1, BeginsStep
    <2>. QED  BY <2>2, Begun
  <1>6. ASSUME NEW i \in Incidents, VisitNew(h, i)
        PROVE  Core' /\ AllCounted'
    BY <1>6, NewVisited
  <1>. QED  BY <1>1, <1>2, <1>3, <1>4, <1>5, <1>6 DEF HandlerStep, Visit

LEMMA InvInit == Init => RemediationInv
  <1>. SUFFICES ASSUME Init, NEW i \in Incidents
                PROVE  Unborn(i) /\ CountInv(i)
    BY TypeInit DEF RemediationInv
  <1>1. /\ row[i] = Fresh("none") /\ since[i] = NeverApplied
        /\ slips[i] = 0 /\ repeats[i] = 0
        /\ \A h \in Handlers : task[h] = Idle
    BY DEF Init
  <1>2. /\ Fresh("none").missing = 0 /\ Fresh("none").age = NeverApplied
        /\ NeverApplied \in Ages
    BY FreshTyped
  <1>3. Working(i) = {}
    BY <1>1, IdleTyped, Constants DEF Working
  <1>4. Unborn(i)
    BY <1>1, <1>2, <1>3 DEF Unborn
  <1>5. /\ Active(i) = {} /\ Recording(i) = {} /\ Copies(i) = {Fresh("none")}
    BY <1>1, <1>3 DEF Active, Recording, Copies
  <1>6. Spare(i) = 0
    BY <1>3, <1>5, FS_EmptySet DEF Spare
  <1>7. Stale(i) = {}
    <2>1. Outdated(i, Fresh("none")) = {}
      BY <1>1, <1>2, Constants DEF Outdated, Ages
    <2>. QED  BY <1>5, <2>1 DEF Stale
  <1>8. Cardinality(Stale(i)) = 0
    BY <1>7, FS_EmptySet
  <1>. QED  BY <1>1, <1>2, <1>4, <1>5, <1>6, <1>8 DEF CountInv

LEMMA InvNext == RemediationInv /\ [Next]_vars => RemediationInv'
  <1>. SUFFICES ASSUME RemediationInv, [Next]_vars PROVE RemediationInv'
    OBVIOUS
  <1>1. TypeInv /\ AllCounted
    BY DEF RemediationInv, AllCounted
  <1>2. Others'
    BY <1>1, OthersNext
  <1>3. Core' /\ AllCounted'
    <2>1. CASE \E h \in Handlers : HandlerStep(h) \/ Fail(h)
      BY <1>1, <1>2, <2>1, HandlerNext
    <2>2. CASE \E o \in Operators : OperatorStep(o)
      BY <1>1, <1>2, <2>2, OperatorNext
    <2>3. CASE Tick
      BY <1>1, <1>2, <2>3, Ticked
    <2>4. CASE StartCycle \/ (\E f \in Fingerprints : Anomaly(f)) \/ UNCHANGED vars
      <3>1. UNCHANGED <<row, task, history>>
        BY <2>4 DEF StartCycle, Anomaly, vars
      <3>. QED  BY <1>1, <3>1, Still
    <2>. QED  BY <2>1, <2>2, <2>3, <2>4 DEF Next
  <1>. QED  BY <1>2, <1>3, TypeParts DEF RemediationInv, AllCounted

LEMMA Invariance == Spec => []RemediationInv
  BY InvInit, InvNext, PTL DEF Spec
----------------------------------------------------------------------------
(* The theorems.                                                           *)

\* Every variable keeps its type; the leverage cap stays between 1 and its first
\* value, whatever is applied and rolled back (max(1, previous - 1) and the
\* rollback payload of execute_incident_action).
THEOREM RemediationTyped == Spec => []TypeOK
  <1>1. RemediationInv => TypeOK
    BY DEF RemediationInv, TypeInv
  <1>. QED  BY <1>1, Invariance, PTL

\* Whatever cycles, requests and state edits overlap, an incident at rest has
\* lost no more entries of remediation_history than handlers failed after
\* their commit on it or started while another was at work, for any incidents,
\* policies and operators: one handler at a time without failures loses none.
THEOREM EntriesKept == Spec => []EntryKept
  <1>1. RemediationInv => EntryKept
    <2>. SUFFICES ASSUME RemediationInv, NEW i \in Incidents, Working(i) = {}
                  PROVE  row[i].missing <= slips[i]
      BY DEF EntryKept
    <2>1. /\ row[i] \in Copies(i) /\ Active(i) = {} /\ CountInv(i)
          /\ row[i].missing \in Nat
      BY RowTyped DEF Copies, Active, RemediationInv, TypeInv, TypeOK
    <2>2. Spare(i) = 0
      BY <2>1, FS_EmptySet DEF Spare
    <2>. QED  BY <2>1, <2>2 DEF CountInv
  <1>. QED  BY <1>1, Invariance, PTL

\* The cooldown of an incident is passed no more often than that, whoever
\* asks, whatever was rolled back or edited in between and however policies
\* change: without an overlap or a failure it is never passed.
THEOREM CooldownKept == Spec => []CooldownRespected
  <1>1. RemediationInv => CooldownRespected
    <2>. SUFFICES ASSUME RemediationInv, NEW i \in Incidents
                  PROVE  repeats[i] <= slips[i]
      BY DEF CooldownRespected
    <2>1. /\ TypeInv /\ CountInv(i) /\ slips[i] \in Nat /\ repeats[i] \in Nat
      BY DEF RemediationInv, TypeInv
    <2>2. /\ Stale(i) \subseteq Actions /\ IsFiniteSet(Stale(i))
          /\ Cardinality(Stale(i)) \in Nat
      BY <2>1, StaleTyped, Counted
    <2>3. CASE Active(i) = {} /\ Working(i) # {}
      <3>1. PICK h \in Working(i) : task[h].step = "record"
        BY <2>3 DEF Active
      <3>2. Stale(i) # {}
        BY <3>1 DEF Stale, Recording
      <3>3. Cardinality(Stale(i)) # 0
        BY <2>2, <3>2, FS_EmptySet
      <3>4. Spare(i) = -1
        BY <2>3, FS_EmptySet DEF Spare
      <3>. QED  BY <2>1, <2>2, <3>3, <3>4 DEF CountInv
    <2>4. CASE ~ (Active(i) = {} /\ Working(i) # {})
      <3>1. Active(i) # {} => Cardinality(Active(i)) >= 1
        BY SpareTyped, FS_EmptySet
      <3>2. Active(i) = {} => Working(i) = {} /\ Cardinality(Active(i)) = 0
        BY <2>4, FS_EmptySet
      <3>3. Spare(i) >= 0
        BY <3>1, <3>2, SpareTyped DEF Spare
      <3>. QED  BY <2>1, <2>2, <3>3, SpareTyped DEF CountInv
    <2>. QED  BY <2>3, <2>4
  <1>. QED  BY <1>1, Invariance, PTL
=============================================================================
