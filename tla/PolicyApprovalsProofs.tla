----------------------- MODULE PolicyApprovalsProofs -----------------------
(***************************************************************************)
(* Safety of PolicyApprovals for every set of administrators, simulations, *)
(* request keys and overlapping calls.                                     *)
(***************************************************************************)
EXTENDS PolicyApprovals, TLAPS

-----------------------------------------------------------------------------
(* What a call in progress knows *)

Settled(k) == approval[k].state \notin {None, "pending"}
Requested(k) == approval[k].state # None
Applied(k) == \E i \in 1..Len(changes) : changes[i].key = k

\* A call on a request, or on a row of its sweep, found a row, and rows are
\* never deleted; the sweep has only requests that ran out of time.
SweepSound(s) ==
    /\ s.pc \in {"own", "assign", "owned", "expire"} => Requested(s.item)
    /\ s.pc \in {"own", "assign"} => s.back \in {"done", "owned", "escalate"}
    /\ \/ s.pc \in {"sweep", "owned", "expire"}
       \/ s.pc \in {"own", "assign"} /\ s.back = "owned"
       => s.todo \subseteq late
    /\ \/ s.pc \in {"owned", "expire"}
       \/ s.pc \in {"own", "assign"} /\ s.back = "owned"
       => s.item \in late
    /\ \A j \in s.todo : Requested(j)
    /\ s.op \notin {"apply"} => Requested(s.key)

\* A copy that is to be written back is of a state the request cannot have
\* left for an earlier one.
CopySound(s) ==
    /\ s.pc = "assign" => /\ s.owner \in Actors
                          /\ s.copy.state \in {"pending", "assigned"}
                          /\ s.copy.state = "assigned" => Settled(s.item)
    /\ s.pc = "expire" => s.copy.state \in {"assigned", "expired"} /\ Settled(s.item)
    /\ s.pc = "decide" => s.copy.state # None /\ Settled(s.key)

\* An apply in progress was entitled to begin, and its change is in the
\* history from the first commit on.
ApplySound(s) ==
    /\ s.pc \in {"look", "block", "insert"} =>
          s.op = "apply" /\ s.back = "done" /\ s.item = s.key
    /\ s.pc \in {"values", "version"} => s.op \in {"apply", "approve", "force"}
    /\ s.pc = "values" =>
          /\ s.op = "apply" => Class[SimOf[s.key]] # "CRITICAL"
          /\ s.op = "approve" => /\ Weight(s.copy.votes) >= 3
                                 /\ s.actor \in s.copy.votes
                                 /\ s.actor # By[s.key]
          /\ s.op = "force" => s.key \in late
    /\ s.pc \in {"version", "finish", "decide"} => Applied(s.key)
    /\ s.pc = "version" => s.read.value \in Sims

Sound(s) == SweepSound(s) /\ CopySound(s) /\ ApplySound(s)

CallSound == \A h \in Calls : call[h].pc # "idle" => Sound(call[h])

ExpiredIsLate == \A k \in Keys : approval[k].state = "expired" => k \in late

AppliedTraces == \A k \in Keys, v \in Vias : trace[k][v] = "applied" => Applied(k)

Inv == TypeOK /\ CallSound /\ ExpiredIsLate /\ AppliedTraces /\ FourEyes /\ ApprovedWasApplied

-----------------------------------------------------------------------------
(* Facts about rows and sessions *)

LEMMA NoneFacts == None \notin Actors /\ None \notin RequestStates /\ NoRow \in Row
  BY ConstantsAssumption DEF None, RequestStates, NoRow, Row

\* A session keeps its type when it moves on.
LEMMA SessionMoves ==
    ASSUME NEW s \in Session
    PROVE  /\ \A pc \in Steps : [s EXCEPT !.pc = pc] \in Session
           /\ \A pc \in Steps, t \in SUBSET Keys : [s EXCEPT !.pc = pc, !.todo = t] \in Session
           /\ \A pc \in Steps, k \in Keys : [s EXCEPT !.pc = pc, !.item = k] \in Session
           /\ \A pc \in Steps, r \in Row : [s EXCEPT !.pc = pc, !.copy = r] \in Session
  BY DEF Session

LEMMA StepNames ==
    {"own", "assign", "sweep", "expire", "owned", "escalate", "done", "act", "values",
     "version", "finish", "decide"} \subseteq Steps
  BY DEF Steps

LEMMA CallType ==
    ASSUME TypeOK, NEW h \in Calls, call[h].pc # "idle"
    PROVE  call[h] \in Session /\ call[h].key \in Keys /\ call[h].item \in Keys
  BY DEF TypeOK, Idle, Session

LEMMA InitInv == Init => Inv
  <1> SUFFICES ASSUME Init PROVE Inv
    OBVIOUS
  <1>1. TypeOK
    <2>1. approval \in [Keys -> Row]
      BY NoneFacts DEF Init
    <2>2. overlap \in BOOLEAN
      BY ConstantsAssumption DEF Init
    <2>3. call \in [Calls -> Session \cup {Idle}]
      BY DEF Init
    <2>4. /\ policy \in [value : Sims \cup {NoSim}, version : Nat]
          /\ changes \in Seq([key : Keys, via : Vias, votes : SUBSET Actors])
          /\ versions \in Seq([no : Nat, value : Sims])
      BY DEF Init
    <2>5. trace \in [Keys -> [Vias -> {None, "blocked", "applied"}]]
      BY DEF Init
    <2>6. {started, crashes, deactivated} \subseteq Nat
      BY DEF Init
    <2>7. \A k \in Keys : approval[k].owner = None /\ approval[k].state = None
      BY DEF Init, NoRow
    <2> QED BY <2>1, <2>2, <2>3, <2>4, <2>5, <2>6, <2>7 DEF Init, TypeOK
  <1>2. \A h \in Calls : call[h].pc = "idle"
    BY DEF Init, Idle
  <1>3. ExpiredIsLate /\ AppliedTraces /\ FourEyes /\ ApprovedWasApplied
    BY DEF Init, ExpiredIsLate, AppliedTraces, FourEyes, ApprovedWasApplied, NoRow, None
  <1> QED BY <1>1, <1>2, <1>3 DEF Inv, CallSound

-----------------------------------------------------------------------------
(* What a step does to the calls it does not belong to *)

\* Requests are never deleted and never return to pending, time does not run
\* back, and the history is only appended to.
Grows ==
    /\ \A k \in Keys : (Requested(k) => Requested(k)') /\ (Settled(k) => Settled(k)')
    /\ late \subseteq late'
    /\ \A k \in Keys : Applied(k) => Applied(k)'

LEMMA SoundStays ==
    ASSUME Grows, NEW s \in Session, Sound(s)
    PROVE  Sound(s)'
  <1>1. SweepSound(s)'
    BY DEF Grows, Sound, SweepSound, Session
  <1>2. CopySound(s)'
    BY DEF Grows, Sound, CopySound, Session
  <1>3. ApplySound(s)'
    BY DEF Grows, Sound, ApplySound, Session
  <1> QED BY <1>1, <1>2, <1>3 DEF Sound

\* The calls stay sound when one of them moves on to s.
LEMMA CallSoundStep ==
    ASSUME TypeOK, CallSound, Grows, NEW h \in Calls, NEW s,
           call' = [call EXCEPT ![h] = s],
           s.pc # "idle" => Sound(s)'
    PROVE  CallSound'
  <1> SUFFICES ASSUME NEW g \in Calls, NEW t, t = call'[g], t.pc # "idle"
               PROVE  Sound(t)'
    BY DEF CallSound, Sound, SweepSound, CopySound, ApplySound, Requested, Settled, Applied
  <1>1. CASE g = h
    BY <1>1 DEF TypeOK
  <1>2. CASE g # h
    <2>1. t = call[g]
      BY <1>2 DEF TypeOK
    <2>2. t \in Session /\ Sound(t)
      BY <2>1, CallType DEF CallSound
    <2> QED BY <2>2, SoundStays
  <1> QED BY <1>1, <1>2

LEMMA GrowsFrame ==
    ASSUME UNCHANGED <<approval, late, changes>>
    PROVE  Grows
  BY DEF Grows, Requested, Settled, Applied

\* A step that only moves a call on.
LEMMA CallStep_Inv ==
    ASSUME Inv, NEW h \in Calls, NEW s \in Session \cup {Idle},
           call' = [call EXCEPT ![h] = s],
           s.pc # "idle" => Sound(s),
           UNCHANGED <<tables, late, active, overlap, started, deactivated>>,
           crashes' \in Nat
    PROVE  Inv'
  <1> USE DEF tables
  <1>1. Grows
    BY GrowsFrame
  <1>2. Sound(s) => Sound(s)'
    BY <1>1, SoundStays DEF Sound, SweepSound, CopySound, ApplySound, Requested, Settled, Applied
  <1>3. CallSound'
    BY <1>1, <1>2, CallSoundStep DEF Inv
  <1>4. TypeOK'
    BY DEF Inv, TypeOK
  <1>5. ExpiredIsLate' /\ AppliedTraces' /\ ApprovedWasApplied'
    BY DEF Inv, ExpiredIsLate, AppliedTraces, ApprovedWasApplied, Applied
  <1>6. FourEyes'
    BY DEF Inv, FourEyes
  <1> QED BY <1>3, <1>4, <1>5, <1>6 DEF Inv

\* A step that saves one request: its state stays what the code calls a legal
\* successor.
LegalSave(k, row) ==
    /\ (row.owner = None) <=> (row.state \in {None, "pending"})
    /\ Requested(k) => row.state # None
    /\ Settled(k) => row.state \notin {None, "pending"}
    /\ row.state = "expired" => k \in late
    /\ row.state = "approved" => Applied(k)

LEMMA SaveGrows ==
    ASSUME TypeOK, NEW k \in Keys, NEW row \in Row, LegalSave(k, row),
           approval' = [approval EXCEPT ![k] = row],
           UNCHANGED <<late, changes>>
    PROVE  Grows
  BY DEF TypeOK, Grows, LegalSave, Requested, Settled, Applied

LEMMA SaveStep_Inv ==
    ASSUME Inv, NEW h \in Calls, NEW s \in Session \cup {Idle},
           call' = [call EXCEPT ![h] = s],
           s.pc # "idle" => Sound(s)',
           NEW k \in Keys, NEW row \in Row, LegalSave(k, row),
           approval' = [approval EXCEPT ![k] = row],
           UNCHANGED <<policy, baseline, trace, changes, versions, world>>
    PROVE  Inv'
  <1> USE DEF world
  <1>1. Grows
    BY SaveGrows DEF Inv
  <1>2. CallSound'
    BY <1>1, CallSoundStep DEF Inv
  <1>3. approval' \in [Keys -> Row] /\ call' \in [Calls -> Session \cup {Idle}]
    BY DEF Inv, TypeOK
  <1>4. \A j \in Keys : (approval'[j].owner = None) <=> (approval'[j].state \in {None, "pending"})
    BY DEF Inv, TypeOK, LegalSave
  <1>5. TypeOK'
    BY <1>3, <1>4 DEF Inv, TypeOK
  <1>6. ExpiredIsLate' /\ AppliedTraces' /\ ApprovedWasApplied'
    BY DEF Inv, TypeOK, ExpiredIsLate, AppliedTraces, ApprovedWasApplied, Applied, LegalSave
  <1>7. FourEyes'
    BY DEF Inv, FourEyes
  <1> QED BY <1>2, <1>5, <1>6, <1>7 DEF Inv

\* The same where what the call goes on with was sound before the save.
LEMMA SaveKeeps_Inv ==
    ASSUME Inv, NEW h \in Calls, NEW s \in Session \cup {Idle},
           call' = [call EXCEPT ![h] = s],
           s.pc # "idle" => Sound(s),
           NEW k \in Keys, NEW row \in Row, LegalSave(k, row),
           approval' = [approval EXCEPT ![k] = row],
           UNCHANGED <<policy, baseline, trace, changes, versions, world>>
    PROVE  Inv'
  <1>1. PICK t \in Session \cup {Idle} : t = s
    OBVIOUS
  <1>2. Grows
    BY SaveGrows DEF Inv, world
  <1>3. t.pc # "idle" => Sound(t)'
    BY <1>1, <1>2, SoundStays DEF Idle
  <1> QED BY <1>1, <1>3, SaveStep_Inv

LEMMA Finish_Inv ==
    ASSUME Inv, NEW h \in Calls, Finish(h), UNCHANGED <<tables, world>>
    PROVE  Inv'
  BY CallStep_Inv DEF Finish, Idle, world, Inv, TypeOK

LEMMA SaveFinish_Inv ==
    ASSUME Inv, NEW h \in Calls, Finish(h),
           NEW k \in Keys, NEW row \in Row, LegalSave(k, row),
           approval' = [approval EXCEPT ![k] = row],
           UNCHANGED <<policy, baseline, trace, changes, versions, world>>
    PROVE  Inv'
  BY SaveKeeps_Inv DEF Finish, Idle

LEMMA Goto_Inv ==
    ASSUME Inv, NEW h \in Calls, call[h].pc # "idle", NEW pc \in Steps,
           Goto(h, pc), Sound([call[h] EXCEPT !.pc = pc]),
           UNCHANGED <<tables, world>>
    PROVE  Inv'
  <1>1. call[h] \in Session
    BY CallType DEF Inv
  <1> DEFINE s == [call[h] EXCEPT !.pc = pc]
  <1>2. s \in Session
    BY <1>1, SessionMoves
  <1>3. call' = [call EXCEPT ![h] = s]
    BY <1>1 DEF Goto, Session
  <1> HIDE DEF s
  <1>4. Sound(s)
    BY DEF s
  <1> QED BY <1>2, <1>3, <1>4, CallStep_Inv DEF world, Inv, TypeOK

-----------------------------------------------------------------------------
(* The calls' steps *)

LEMMA Look_Inv ==
    ASSUME Inv, NEW h \in Calls, NEW override, NEW confirmed, Look(h, override, confirmed)
    PROVE  Inv'
  <1>1. call[h].pc = "look" /\ call[h] \in Session /\ Sound(call[h])
        /\ UNCHANGED <<tables, world>>
    BY CallType DEF Look, Inv, CallSound
  <1>2. CASE Finish(h)
    BY <1>1, <1>2, Finish_Inv
  <1>3. CASE ~Finish(h)
    <2> DEFINE class == Class[SimOf[call[h].key]]
               pc == CASE class # "CRITICAL" -> "values"
                       [] override           -> "insert"
                       [] OTHER              -> "block"
    <2>1. Goto(h, pc)
      BY <1>3 DEF Look
    <2>2. pc \in {"values", "insert", "block"} /\ (pc = "values" => class # "CRITICAL")
      OBVIOUS
    <2> HIDE DEF pc
    <2>3. Sound([call[h] EXCEPT !.pc = pc])
      BY <1>1, <2>2 DEF Sound, SweepSound, CopySound, ApplySound, Session
    <2> QED BY <1>1, <2>1, <2>2, <2>3, Goto_Inv DEF Steps
  <1> QED BY <1>2, <1>3

LEMMA Insert_Inv ==
    ASSUME Inv, NEW h \in Calls, Insert(h)
    PROVE  Inv'
  <1>1. /\ call[h].pc = "insert" /\ call[h] \in Session /\ Sound(call[h])
        /\ UNCHANGED <<policy, baseline, trace, changes, versions, world>>
    BY CallType DEF Insert, Inv, CallSound
  <1>2. PICK k \in Keys : k = call[h].key
    BY <1>1 DEF Session
  <1>3. CASE approval[k].state # None
    BY <1>1, <1>2, <1>3, Finish_Inv DEF Insert, tables
  <1>4. CASE approval[k].state = None
    <2> DEFINE row == [state |-> "pending", owner |-> None, votes |-> {call[h].actor}]
    <2>1. approval' = [approval EXCEPT ![k] = row] /\ Goto(h, "own")
      BY <1>2, <1>4 DEF Insert
    <2>2. row \in Row /\ row.state = "pending" /\ row.owner = None
      BY <1>1 DEF Session, Row, RequestStates
    <2> HIDE DEF row
    <2>3. PICK s : s = [call[h] EXCEPT !.pc = "own"]
      OBVIOUS
    <2>4. s \in Session
      BY <1>1, <2>3, SessionMoves, StepNames
    <2>5. call' = [call EXCEPT ![h] = s]
      BY <2>1, <2>3 DEF Goto
    <2>6. LegalSave(k, row)
      BY <1>4, <2>2 DEF LegalSave, Requested, Settled, None
    <2>7. Requested(k)'
      BY <2>1, <2>2 DEF Requested, None, Inv, TypeOK
    <2>8. /\ s.pc = "own" /\ s.item = k /\ s.key = k /\ s.back = "done" /\ s.op = "apply"
          /\ s.todo = call[h].todo
      BY <1>1, <1>2, <2>3 DEF Session, Sound, ApplySound
    <2>9. Grows
      BY <1>1, <2>1, <2>2, <2>6, SaveGrows DEF Inv, world
    <2>10. \A j \in s.todo : Requested(j)'
      BY <1>1, <2>8, <2>9 DEF Grows, Session, Sound, SweepSound
    <2>11. Sound(s)'
      BY <2>7, <2>8, <2>10 DEF Sound, SweepSound, CopySound, ApplySound
    <2> QED BY <1>1, <2>1, <2>2, <2>4, <2>5, <2>6, <2>11, SaveStep_Inv
  <1> QED BY <1>3, <1>4

LEMMA EnsureOwnership_Inv ==
    ASSUME Inv, NEW h \in Calls, EnsureOwnership(h)
    PROVE  Inv'
  <1> DEFINE k == call[h].item
  <1>1. /\ call[h].pc = "own" /\ call[h] \in Session /\ Sound(call[h])
        /\ UNCHANGED <<tables, world>>
    BY CallType DEF EnsureOwnership, Inv, CallSound
  <1>2. CASE Goto(h, call[h].back)
    <2>1. Sound([call[h] EXCEPT !.pc = call[h].back])
      BY <1>1 DEF Sound, SweepSound, CopySound, ApplySound, Session
    <2>2. call[h].back \in Steps
      BY <1>1 DEF Session
    <2> QED BY <1>1, <1>2, <2>1, <2>2, Goto_Inv
  <1>3. CASE ~Goto(h, call[h].back)
    <2>1. PICK a \in AutoAssignees(k, approval[k]) :
             /\ IsOpen(k)
             /\ call' = [call EXCEPT ![h].pc = "assign", ![h].copy = approval[k], ![h].owner = a]
      BY <1>3 DEF EnsureOwnership
    <2>2. a \in Actors /\ approval[k] \in Row
      BY <1>1, <2>1, ConstantsAssumption DEF AutoAssignees, Inv, TypeOK, Session
    <2> DEFINE s == [call[h] EXCEPT !.pc = "assign", !.copy = approval[k], !.owner = a]
    <2>3. s \in Session
      BY <1>1, <2>2, StepNames DEF Session
    <2>4. call' = [call EXCEPT ![h] = s]
      BY <1>1, <2>1 DEF Inv, TypeOK, Session
    <2>5. Sound(s)
      BY <1>1, <2>1, <2>2 DEF Sound, SweepSound, CopySound, ApplySound, Session, IsOpen,
         Settled, Requested, None
    <2> HIDE DEF s
    <2> QED BY <1>1, <2>3, <2>4, <2>5, CallStep_Inv DEF world, Inv, TypeOK
  <1> QED BY <1>2, <1>3

\* The state a row was read in decides what is written: assigned, or the state
\* it has by now.
LEMMA AssignCommit_Inv ==
    ASSUME Inv, NEW h \in Calls, AssignCommit(h)
    PROVE  Inv'
  <1> DEFINE k == call[h].item
             row == [state |-> IF call[h].copy.state = "pending" THEN "assigned"
                               ELSE approval[k].state,
                     owner |-> call[h].owner, votes |-> call[h].copy.votes]
             s == [call[h] EXCEPT !.pc = call[h].back]
  <1>1. /\ call[h].pc = "assign" /\ call[h] \in Session /\ Sound(call[h])
        /\ UNCHANGED <<policy, baseline, trace, changes, versions, world>>
    BY CallType DEF AssignCommit, Inv, CallSound
  <1>2. k \in Keys /\ approval \in [Keys -> Row]
    BY <1>1 DEF Session, Inv, TypeOK
  <1>3. row \in Row
    BY <1>1, <1>2 DEF Session, Row, RequestStates
  <1>4. approval' = [approval EXCEPT ![k] = row]
    <2> DEFINE saved == [approval[k] EXCEPT !.state = row.state, !.owner = row.owner,
                                            !.votes = row.votes]
    <2>1. approval' = [approval EXCEPT ![k] = saved]
      BY <1>2 DEF AssignCommit
    <2>2. approval[k] \in Row
      BY <1>2
    <2>3. saved = row
      BY <2>2 DEF Row
    <2> QED BY <2>1, <2>3
  <1>5. LegalSave(k, row)
    BY <1>1, <1>2, NoneFacts
       DEF LegalSave, Requested, Settled, Sound, CopySound, None, Inv, ExpiredIsLate, ApprovedWasApplied,
           Applied
  <1>6. s \in Session
    BY <1>1, SessionMoves DEF Session
  <1>7. call' = [call EXCEPT ![h] = s]
    BY DEF AssignCommit, Goto
  <1>8. Sound(s)
    BY <1>1 DEF Sound, SweepSound, CopySound, ApplySound, Session
  <1> HIDE DEF row, s, k
  <1> QED BY <1>1, <1>2, <1>3, <1>4, <1>5, <1>6, <1>7, <1>8, SaveKeeps_Inv

LEMMA SweepRow_Inv ==
    ASSUME Inv, NEW h \in Calls, NEW k \in Keys, SweepRow(h, k)
    PROVE  Inv'
  <1>1. /\ call[h].pc = "sweep" /\ call[h] \in Session /\ Sound(call[h]) /\ k \in call[h].todo
        /\ UNCHANGED <<tables, world>>
    BY CallType DEF SweepRow, Inv, CallSound
  <1>2. approval[k] \in Row
    BY DEF Inv, TypeOK
  <1>3. k \in late /\ Requested(k)
    BY <1>1 DEF Sound, SweepSound
  <1>4. CASE approval[k].state = "pending"
    <2> DEFINE s == [call[h] EXCEPT !.pc = "own", !.item = k, !.back = "owned"]
    <2>1. s \in Session
      BY <1>1, StepNames DEF Session
    <2>2. call' = [call EXCEPT ![h] = s]
      BY <1>4 DEF SweepRow
    <2>3. Sound(s)
      BY <1>1, <1>3 DEF Sound, SweepSound, CopySound, ApplySound, Session
    <2> HIDE DEF s
    <2> QED BY <1>1, <2>1, <2>2, <2>3, CallStep_Inv DEF world, Inv, TypeOK
  <1>5. CASE approval[k].state \in {"assigned", "expired"}
    <2> DEFINE s == [call[h] EXCEPT !.pc = "expire", !.item = k, !.copy = approval[k]]
    <2>1. s \in Session
      BY <1>1, <1>2, StepNames DEF Session
    <2>2. call' = [call EXCEPT ![h] = s]
      BY <1>5 DEF SweepRow
    <2>3. Sound(s)
      BY <1>1, <1>3, <1>5 DEF Sound, SweepSound, CopySound, ApplySound, Session, Settled, None
    <2> HIDE DEF s
    <2> QED BY <1>1, <2>1, <2>2, <2>3, CallStep_Inv DEF world, Inv, TypeOK
  <1>6. CASE approval[k].state \notin {"pending", "assigned", "expired"}
    BY <1>1, <1>6, Finish_Inv DEF SweepRow, Finish
  <1> QED BY <1>4, <1>5, <1>6

LEMMA SweepOwned_Inv ==
    ASSUME Inv, NEW h \in Calls, SweepOwned(h)
    PROVE  Inv'
  <1> DEFINE k == call[h].item
  <1>1. /\ call[h].pc = "owned" /\ call[h] \in Session /\ Sound(call[h])
        /\ UNCHANGED <<tables, world>>
    BY CallType DEF SweepOwned, Inv, CallSound
  <1>2. approval[k] \in Row /\ k \in late /\ Requested(k)
    BY <1>1 DEF Inv, TypeOK, Session, Sound, SweepSound
  <1>3. PICK s : /\ s = IF approval[k].state = "assigned"
                        THEN [call[h] EXCEPT !.pc = "expire", !.copy = approval[k]]
                        ELSE [call[h] EXCEPT !.pc = "sweep", !.todo = @ \ {k}]
    OBVIOUS
  <1>4. call' = [call EXCEPT ![h] = s]
    BY <1>3 DEF SweepOwned
  <1>5. s \in Session
    BY <1>1, <1>2, <1>3, StepNames DEF Session
  <1>6. Sound(s)
    BY <1>1, <1>2, <1>3 DEF Sound, SweepSound, CopySound, ApplySound, Session, Settled, None
  <1> QED BY <1>1, <1>4, <1>5, <1>6, CallStep_Inv DEF world, Inv, TypeOK

LEMMA ExpireCommit_Inv ==
    ASSUME Inv, NEW h \in Calls, ExpireCommit(h)
    PROVE  Inv'
  <1> DEFINE k == call[h].item
             row == [approval[k] EXCEPT !.state = IF call[h].copy.state = "assigned"
                                                  THEN "expired" ELSE @,
                                        !.votes = call[h].copy.votes]
             s == [call[h] EXCEPT !.pc = "sweep", !.todo = @ \ {k}]
  <1>1. /\ call[h].pc = "expire" /\ call[h] \in Session /\ Sound(call[h])
        /\ UNCHANGED <<policy, baseline, trace, changes, versions, world>>
    BY CallType DEF ExpireCommit, Inv, CallSound
  <1>2. k \in Keys /\ approval \in [Keys -> Row]
    BY <1>1 DEF Session, Inv, TypeOK
  <1>3. row \in Row
    BY <1>1, <1>2 DEF Session, Row, RequestStates
  <1>4. approval' = [approval EXCEPT ![k] = row]
    BY <1>2 DEF ExpireCommit
  <1>5. LegalSave(k, row)
    <2>1. /\ row.state = IF call[h].copy.state = "assigned" THEN "expired" ELSE approval[k].state
          /\ row.owner = approval[k].owner
      BY <1>2 DEF Row
    <2>2. /\ Settled(k) /\ k \in late
          /\ (approval[k].owner = None) <=> (approval[k].state \in {None, "pending"})
          /\ approval[k].state = "approved" => Applied(k)
      BY <1>1, <1>2 DEF Sound, CopySound, SweepSound, Inv, TypeOK, ApprovedWasApplied, Applied
    <2> HIDE DEF row
    <2> QED BY <2>1, <2>2 DEF LegalSave, Requested, Settled, None
  <1>6. s \in Session
    BY <1>1, StepNames DEF Session
  <1>7. call' = [call EXCEPT ![h] = s]
    BY DEF ExpireCommit
  <1>8. Sound(s)
    BY <1>1 DEF Sound, SweepSound, CopySound, ApplySound, Session
  <1> HIDE DEF row, s, k
  <1> QED BY <1>1, <1>2, <1>3, <1>4, <1>5, <1>6, <1>7, <1>8, SaveKeeps_Inv

LEMMA SweepDone_Inv ==
    ASSUME Inv, NEW h \in Calls, SweepDone(h)
    PROVE  Inv'
  <1>1. /\ call[h].pc = "sweep" /\ call[h] \in Session /\ Sound(call[h])
        /\ UNCHANGED <<tables, world>>
    BY CallType DEF SweepDone, Inv, CallSound
  <1> DEFINE open == {k \in Keys : IsOpen(k)}
             s == IF call[h].op = "sweep"
                  THEN [call[h] EXCEPT !.pc = "escalate", !.todo = open]
                  ELSE [call[h] EXCEPT !.pc = "act", !.item = call[h].key]
  <1>2. call' = [call EXCEPT ![h] = s]
    BY DEF SweepDone
  <1>3. open \subseteq Keys /\ \A k \in open : Requested(k)
    BY DEF IsOpen, Requested, None
  <1> HIDE DEF open
  <1>4. s \in Session
    BY <1>1, <1>3, StepNames DEF Session
  <1>5. Sound(s)
    BY <1>1, <1>3 DEF Sound, SweepSound, CopySound, ApplySound, Session
  <1> HIDE DEF s
  <1> QED BY <1>1, <1>2, <1>4, <1>5, CallStep_Inv DEF world, Inv, TypeOK

LEMMA Escalate_Inv ==
    ASSUME Inv, NEW h \in Calls, Escalate(h)
    PROVE  Inv'
  <1>1. /\ call[h].pc = "escalate" /\ call[h] \in Session /\ Sound(call[h])
        /\ UNCHANGED <<tables, world>>
    <2>1. call[h].pc = "escalate" /\ UNCHANGED <<tables, world>>
      BY DEF Escalate
    <2> QED BY <2>1, CallType DEF Inv, CallSound
  <1>2. CASE Finish(h)
    BY <1>1, <1>2, Finish_Inv
  <1>3. CASE ~Finish(h)
    <2>1. PICK k \in call[h].todo :
             call' = [call EXCEPT ![h].pc = "own", ![h].item = k, ![h].back = "escalate",
                                  ![h].todo = @ \ {k}]
      BY <1>3 DEF Escalate
    <2> DEFINE s == [call[h] EXCEPT !.pc = "own", !.item = k, !.back = "escalate",
                                    !.todo = @ \ {k}]
    <2>2. call' = [call EXCEPT ![h] = s]
      BY <2>1
    <2>3. s \in Session
      BY <1>1, StepNames DEF Session
    <2>4. Sound(s)
      BY <1>1 DEF Sound, SweepSound, CopySound, ApplySound, Session
    <2> HIDE DEF s
    <2> QED BY <1>1, <2>2, <2>3, <2>4, CallStep_Inv DEF world, Inv, TypeOK
  <1> QED BY <1>2, <1>3

\* The vote that goes on to apply the policy reached the quorum, and was cast
\* by somebody else than the requester.
LEMMA Approve_Inv ==
    ASSUME Inv, NEW h \in Calls, Approve(h)
    PROVE  Inv'
  <1>1. /\ call[h].pc = "act" /\ call[h].op = "approve" /\ call[h] \in Session /\ Sound(call[h])
        /\ UNCHANGED <<policy, baseline, trace, changes, versions, world>>
    BY CallType DEF Approve, Inv, CallSound
  <1>2. PICK k \in Keys : k = call[h].key
    BY <1>1 DEF Session
  <1> DEFINE row == [approval[k] EXCEPT !.votes = @ \cup {call[h].actor}]
  <1>3. approval[k] \in Row
    BY DEF Inv, TypeOK
  <1>4. row \in Row /\ row.state = approval[k].state /\ row.owner = approval[k].owner
        /\ call[h].actor \in row.votes
    BY <1>1, <1>3 DEF Row, Session
  <1>5. CASE Conflict(h)
    BY <1>1, <1>5, Finish_Inv DEF Conflict, tables
  <1>6. CASE ~Conflict(h)
    <2>1. MayDecide(h, approval[k]) /\ approval[k].owner # None
      BY <1>2, <1>6 DEF Approve, MayDecide, Inv, TypeOK, None
    <2>2. \/ Save(h, row) /\ Finish(h)
          \/ /\ trace[k]["finalize"] = "applied"
             /\ Save(h, [row EXCEPT !.state = "approved"]) /\ Finish(h)
          \/ /\ QuorumReached(row.votes)
             /\ call' = [call EXCEPT ![h].pc = "values", ![h].copy = row]
             /\ UNCHANGED approval
      BY <1>2, <1>6 DEF Approve
    <2> HIDE DEF row
    <2>3. CASE Save(h, row) /\ Finish(h)
      <3>1. LegalSave(k, row)
        BY <1>4, <2>1 DEF LegalSave, MayDecide, None
      <3> QED BY <1>1, <1>2, <1>4, <2>3, <3>1, SaveFinish_Inv DEF Save
    <2>4. CASE /\ trace[k]["finalize"] = "applied"
               /\ Save(h, [row EXCEPT !.state = "approved"]) /\ Finish(h)
      <3> DEFINE r == [row EXCEPT !.state = "approved"]
      <3>1. r \in Row /\ r.state = "approved" /\ r.owner = approval[k].owner
        BY <1>4 DEF Row, RequestStates
      <3>2. Applied(k)
        BY <2>4 DEF Inv, AppliedTraces, Vias
      <3> HIDE DEF r
      <3>3. LegalSave(k, r)
        BY <3>1, <3>2, <2>1 DEF LegalSave, None
      <3>4. approval' = [approval EXCEPT ![k] = r]
        BY <1>2, <2>4 DEF Save, r
      <3> QED BY <1>1, <2>4, <3>1, <3>3, <3>4, SaveFinish_Inv
    <2>5. CASE /\ QuorumReached(row.votes)
               /\ call' = [call EXCEPT ![h].pc = "values", ![h].copy = row]
               /\ UNCHANGED approval
      <3> DEFINE s == [call[h] EXCEPT !.pc = "values", !.copy = row]
      <3>1. s \in Session
        BY <1>1, <1>4, SessionMoves, StepNames
      <3>2. call' = [call EXCEPT ![h] = s]
        BY <2>5
      <3>3. call[h].actor # By[k] /\ Weight(row.votes) >= 3
        BY <1>2, <2>1, <2>5 DEF MayDecide, QuorumReached
      <3>4. Sound(s)
        BY <1>1, <1>2, <1>4, <3>3 DEF Sound, SweepSound, CopySound, ApplySound, Session
      <3> HIDE DEF s
      <3> QED BY <1>1, <2>5, <3>1, <3>2, <3>4, CallStep_Inv DEF tables, world, Inv, TypeOK
    <2> QED BY <2>2, <2>3, <2>4, <2>5
  <1> QED BY <1>5, <1>6

LEMMA Reject_Inv ==
    ASSUME Inv, NEW h \in Calls, Reject(h)
    PROVE  Inv'
  <1>1. /\ call[h].pc = "act" /\ call[h] \in Session
        /\ UNCHANGED <<policy, baseline, trace, changes, versions, world>>
    BY CallType DEF Reject, Inv
  <1>2. PICK k \in Keys : k = call[h].key
    BY <1>1 DEF Session
  <1> DEFINE row == [approval[k] EXCEPT !.state = "rejected"]
  <1>3. approval[k] \in Row
    BY DEF Inv, TypeOK
  <1>4. row \in Row /\ row.state = "rejected" /\ row.owner = approval[k].owner
    BY <1>1, <1>3 DEF Row, RequestStates
  <1>5. CASE Conflict(h)
    BY <1>1, <1>5, Finish_Inv DEF Conflict, tables
  <1>6. CASE ~Conflict(h)
    <2>1. approval[k].state = "assigned" /\ approval' = [approval EXCEPT ![k] = row] /\ Finish(h)
      BY <1>2, <1>6 DEF Reject, MayDecide, Save
    <2>2. approval[k].owner # None
      BY <2>1 DEF Inv, TypeOK, None
    <2> HIDE DEF row
    <2>3. LegalSave(k, row)
      BY <1>4, <2>2 DEF LegalSave, None
    <2> QED BY <1>1, <1>4, <2>1, <2>3, SaveFinish_Inv
  <1> QED BY <1>5, <1>6

LEMMA Assign_Inv ==
    ASSUME Inv, NEW h \in Calls, NEW a \in Actors, Assign(h, a)
    PROVE  Inv'
  <1>1. /\ call[h].pc = "act" /\ call[h] \in Session
        /\ UNCHANGED <<policy, baseline, trace, changes, versions, world>>
    BY CallType DEF Assign, Inv
  <1>2. PICK k \in Keys : k = call[h].key
    BY <1>1 DEF Session
  <1> DEFINE row == [approval[k] EXCEPT !.state = "assigned", !.owner = a]
  <1>3. approval[k] \in Row
    BY DEF Inv, TypeOK
  <1>4. row \in Row /\ row.state = "assigned" /\ row.owner = a
    BY <1>1, <1>3 DEF Row, RequestStates
  <1>5. CASE Conflict(h)
    BY <1>1, <1>5, Finish_Inv DEF Conflict, tables
  <1>6. CASE ~Conflict(h)
    <2>1. approval' = [approval EXCEPT ![k] = row] /\ Finish(h)
      BY <1>2, <1>6 DEF Assign, Save
    <2> HIDE DEF row
    <2>2. LegalSave(k, row)
      BY <1>4, ConstantsAssumption DEF LegalSave, None
    <2> QED BY <1>1, <1>4, <2>1, <2>2, SaveFinish_Inv
  <1> QED BY <1>5, <1>6

LEMMA ForceApply_Inv ==
    ASSUME Inv, NEW h \in Calls, ForceApply(h)
    PROVE  Inv'
  <1>1. /\ call[h].pc = "act" /\ call[h].op = "force" /\ call[h] \in Session /\ Sound(call[h])
        /\ UNCHANGED <<policy, baseline, trace, changes, versions, world>>
    BY CallType DEF ForceApply, Inv, CallSound
  <1>2. PICK k \in Keys : k = call[h].key
    BY <1>1 DEF Session
  <1>3. approval[k] \in Row
    BY DEF Inv, TypeOK
  <1>4. CASE Conflict(h)
    BY <1>1, <1>4, Finish_Inv DEF Conflict, tables
  <1>5. CASE /\ approval[k].state = "expired" /\ trace[k]["force"] = "applied"
             /\ Save(h, [approval[k] EXCEPT !.state = "approved"])
             /\ Finish(h)
    <2> DEFINE r == [approval[k] EXCEPT !.state = "approved"]
    <2>1. r \in Row /\ r.state = "approved" /\ r.owner = approval[k].owner
      BY <1>3 DEF Row, RequestStates
    <2>2. Applied(k)
      BY <1>5 DEF Inv, AppliedTraces, Vias
    <2>3. approval[k].owner # None
      BY <1>5 DEF Inv, TypeOK, None
    <2> HIDE DEF r
    <2>4. LegalSave(k, r)
      BY <2>1, <2>2, <2>3 DEF LegalSave, None
    <2>5. approval' = [approval EXCEPT ![k] = r]
      BY <1>2, <1>5 DEF Save, r
    <2> QED BY <1>1, <1>5, <2>1, <2>4, <2>5, SaveFinish_Inv
  <1>6. CASE /\ approval[k].state = "expired"
             /\ call' = [call EXCEPT ![h].pc = "values", ![h].copy = approval[k]]
             /\ UNCHANGED approval
    <2> DEFINE s == [call[h] EXCEPT !.pc = "values", !.copy = approval[k]]
    <2>1. s \in Session
      BY <1>1, <1>3, SessionMoves, StepNames
    <2>2. call' = [call EXCEPT ![h] = s]
      BY <1>6
    <2>3. k \in late
      BY <1>6 DEF Inv, ExpiredIsLate
    <2>4. Sound(s)
      BY <1>1, <1>2, <2>3 DEF Sound, SweepSound, CopySound, ApplySound, Session
    <2> HIDE DEF s
    <2> QED BY <1>1, <1>6, <2>1, <2>2, <2>4, CallStep_Inv DEF tables, world, Inv, TypeOK
  <1> QED BY <1>2, <1>4, <1>5, <1>6 DEF ForceApply

LEMMA Block_Inv ==
    ASSUME Inv, NEW h \in Calls, Block(h)
    PROVE  Inv'
  <1>1. call[h].pc = "block" /\ call[h] \in Session
    BY CallType DEF Block, Inv
  <1>2. PICK k \in Keys : k = call[h].key
    BY <1>1 DEF Session
  <1>3. /\ trace' = [trace EXCEPT ![k]["direct"] = "blocked"] /\ Finish(h)
        /\ UNCHANGED <<policy, baseline, approval, changes, versions, world>>
    BY <1>2 DEF Block
  <1>4. trace' \in [Keys -> [Vias -> {None, "blocked", "applied"}]]
    BY <1>3 DEF Inv, TypeOK, Vias
  <1>5. TypeOK'
    BY <1>3, <1>4 DEF Finish, world, Inv, TypeOK
  <1>6. Grows
    BY <1>3, GrowsFrame DEF world
  <1>7. CallSound'
    BY <1>3, <1>6, CallSoundStep DEF Finish, Idle, Inv
  <1>8. AppliedTraces'
    BY <1>3 DEF Inv, TypeOK, AppliedTraces, Applied
  <1>9. ExpiredIsLate' /\ ApprovedWasApplied' /\ FourEyes'
    BY <1>3 DEF world, Inv, ExpiredIsLate, ApprovedWasApplied, FourEyes
  <1> QED BY <1>5, <1>7, <1>8, <1>9 DEF Inv

\* What an append to the history does to what was in it.
LEMMA HistoryAppend ==
    ASSUME TypeOK, NEW c \in [key : Keys, via : Vias, votes : SUBSET Actors],
           changes' = Append(changes, c)
    PROVE  /\ changes' \in Seq([key : Keys, via : Vias, votes : SUBSET Actors])
           /\ Len(changes') = Len(changes) + 1 /\ Len(changes) \in Nat
           /\ changes'[Len(changes) + 1] = c
           /\ \A i \in 1..Len(changes) : changes'[i] = changes[i]
           /\ \A k \in Keys : Applied(k) => Applied(k)'
           /\ \E i \in 1..Len(changes') : changes'[i].key = c.key
  <1>1. /\ changes' \in Seq([key : Keys, via : Vias, votes : SUBSET Actors])
        /\ Len(changes') = Len(changes) + 1 /\ Len(changes) \in Nat
        /\ changes'[Len(changes) + 1] = c
        /\ \A i \in 1..Len(changes) : changes'[i] = changes[i]
    BY DEF TypeOK
  <1>2. \A i \in 1..Len(changes) : i \in 1..Len(changes')
    BY <1>1
  <1>3. \A k \in Keys : Applied(k) => Applied(k)'
    BY <1>1, <1>2 DEF Applied
  <1>4. Len(changes) + 1 \in 1..Len(changes')
    BY <1>1
  <1>5. \E i \in 1..Len(changes') : changes'[i].key = c.key
    BY <1>1, <1>4
  <1> QED BY <1>1, <1>3, <1>5

LEMMA CommitValues_Inv ==
    ASSUME Inv, NEW h \in Calls, CommitValues(h)
    PROVE  Inv'
  <1>1. /\ call[h].pc = "values" /\ call[h] \in Session /\ Sound(call[h])
        /\ UNCHANGED <<baseline, trace, versions, world>>
    BY CallType DEF CommitValues, Inv, CallSound
  <1>2. PICK k \in Keys : k = call[h].key
    BY <1>1 DEF Session
  <1>3. PICK c : c = [key |-> k, via |-> Via(h), votes |-> call[h].copy.votes]
    OBVIOUS
  <1>4. c \in [key : Keys, via : Vias, votes : SUBSET Actors]
    BY <1>1, <1>3 DEF Session, Row, Via, Vias
  <1>5. changes' = Append(changes, c)
    BY <1>2, <1>3 DEF CommitValues
  <1>6. policy' = [policy EXCEPT !.value = SimOf[k]]
    BY <1>2 DEF CommitValues
  <1>7. policy' \in [value : Sims \cup {NoSim}, version : Nat] /\ policy'.value \in Sims
    BY <1>6, ConstantsAssumption DEF Inv, TypeOK
  <1> DEFINE row == [approval[k] EXCEPT !.votes = call[h].copy.votes]
  <1>8. approval' = approval \/ approval' = [approval EXCEPT ![k] = row]
    BY <1>2 DEF CommitValues
  <1>9. approval[k] \in Row /\ approval \in [Keys -> Row]
    BY DEF Inv, TypeOK
  <1>10. row \in Row /\ row.state = approval[k].state /\ row.owner = approval[k].owner
    BY <1>1, <1>9 DEF Row, Session
  <1> HIDE DEF row
  <1>11. /\ approval' \in [Keys -> Row]
         /\ \A j \in Keys : approval'[j].state = approval[j].state
                            /\ approval'[j].owner = approval[j].owner
    BY <1>8, <1>9, <1>10
  <1>12. PICK s : s = [call[h] EXCEPT !.pc = "version", !.read = policy']
    OBVIOUS
  <1>13. call' = [call EXCEPT ![h] = s]
    BY <1>12 DEF CommitValues
  <1>14. s \in Session
    BY <1>1, <1>7, <1>12, StepNames DEF Session
  <1>15. TypeOK'
    <2>1. call' \in [Calls -> Session \cup {Idle}]
      BY <1>13, <1>14 DEF Inv, TypeOK
    <2>2. changes' \in Seq([key : Keys, via : Vias, votes : SUBSET Actors])
      BY <1>4, <1>5, HistoryAppend DEF Inv
    <2>3. \A j \in Keys : (approval'[j].owner = None) <=> (approval'[j].state \in {None, "pending"})
      BY <1>11 DEF Inv, TypeOK
    <2> QED BY <1>1, <1>7, <1>11, <2>1, <2>2, <2>3 DEF world, Inv, TypeOK
  <1>16. Grows
    <2>1. \A j \in Keys : Applied(j) => Applied(j)'
      BY <1>4, <1>5, HistoryAppend DEF Inv
    <2> QED BY <1>1, <1>11, <2>1 DEF world, Grows, Requested, Settled
  <1>17. CallSound'
    <2>1. Applied(k)'
      <3>1. \E i \in 1..Len(changes') : changes'[i].key = k
        BY <1>3, <1>4, <1>5, HistoryAppend DEF Inv
      <3> QED BY <3>1 DEF Applied
    <2>2. /\ s.pc = "version" /\ s.op = call[h].op /\ s.key = k /\ s.todo = call[h].todo
          /\ s.read.value \in Sims
      BY <1>1, <1>2, <1>7, <1>12 DEF Session
    <2>3. \A j \in s.todo : Requested(j)'
      BY <1>1, <1>14, <1>16, <2>2 DEF Session, Grows, Sound, SweepSound
    <2>4. s.op # "apply" => Requested(k)'
      BY <1>1, <1>2, <1>16, <2>2 DEF Grows, Sound, SweepSound
    <2>5. Sound(s)'
      BY <1>1, <2>1, <2>2, <2>3, <2>4 DEF Sound, SweepSound, CopySound, ApplySound
    <2> QED BY <1>13, <1>16, <2>5, CallSoundStep DEF Inv
  <1>18. ExpiredIsLate' /\ AppliedTraces' /\ ApprovedWasApplied'
    <2>1. \A j \in Keys : Applied(j) => Applied(j)'
      BY <1>16 DEF Grows
    <2>2. ExpiredIsLate'
      BY <1>1, <1>11 DEF world, Inv, ExpiredIsLate
    <2>3. AppliedTraces'
      BY <1>1, <2>1 DEF Inv, AppliedTraces
    <2>4. \A j \in Keys : approval'[j].state = "approved" => Applied(j)'
      BY <1>11, <2>1 DEF Inv, ApprovedWasApplied, Applied
    <2> QED BY <2>2, <2>3, <2>4 DEF ApprovedWasApplied, Applied
  <1>19. FourEyes'
    <2> SUFFICES ASSUME NEW i \in 1..Len(changes'), Class[SimOf[changes'[i].key]] = "CRITICAL"
                 PROVE  \/ /\ changes'[i].via = "finalize"
                           /\ changes'[i].votes \ {By[changes'[i].key]} # {}
                           /\ Weight(changes'[i].votes) >= 3
                        \/ changes'[i].via = "force" /\ changes'[i].key \in late'
      BY DEF FourEyes, Weight
    <2>1. CASE i \in 1..Len(changes)
      <3>1. changes'[i] = changes[i]
        BY <1>4, <1>5, <2>1, HistoryAppend DEF Inv
      <3> QED BY <1>1, <2>1, <3>1 DEF world, Inv, FourEyes
    <2>2. CASE i = Len(changes) + 1
      <3>1. changes'[i] = c
        BY <1>4, <1>5, <2>2, HistoryAppend DEF Inv
      <3>2. call[h].op = "approve" \/ call[h].op = "force"
        BY <1>1, <1>2, <1>3, <3>1 DEF Sound, ApplySound
      <3> QED BY <1>1, <1>2, <1>3, <3>1, <3>2 DEF world, Via, Sound, ApplySound
    <2>3. i \in 1..Len(changes) \/ i = Len(changes) + 1
      BY <1>4, <1>5, HistoryAppend DEF Inv
    <2> QED BY <2>1, <2>2, <2>3
  <1> QED BY <1>15, <1>17, <1>18, <1>19 DEF Inv

LEMMA CommitVersion_Inv ==
    ASSUME Inv, NEW h \in Calls, CommitVersion(h)
    PROVE  Inv'
  <1>1. /\ call[h].pc = "version" /\ call[h] \in Session /\ Sound(call[h])
        /\ UNCHANGED <<baseline, approval, changes, world>>
    BY CallType DEF CommitVersion, Inv, CallSound
  <1>2. PICK k \in Keys : k = call[h].key
    BY <1>1 DEF Session
  <1>3. PICK no : no = call[h].read.version + 1
    OBVIOUS
  <1>4. PICK v : v = [no |-> no, value |-> call[h].read.value]
    OBVIOUS
  <1>5. no \in Nat /\ v \in [no : Nat, value : Sims]
    BY <1>1, <1>3, <1>4 DEF Session, Sound, ApplySound
  <1>6. versions' \in Seq([no : Nat, value : Sims])
    <2>1. versions' = Append(versions, v)
      BY <1>3, <1>4 DEF CommitVersion
    <2> QED BY <1>5, <2>1 DEF Inv, TypeOK
  <1>7. policy' \in [value : Sims \cup {NoSim}, version : Nat]
    BY <1>3, <1>5 DEF CommitVersion, Inv, TypeOK
  <1>8. Via(h) \in Vias
    BY DEF Via, Vias
  <1>9. trace' = [trace EXCEPT ![k][Via(h)] = "applied"]
    BY <1>2 DEF CommitVersion
  <1>10. trace' \in [Keys -> [Vias -> {None, "blocked", "applied"}]]
    BY <1>8, <1>9 DEF Inv, TypeOK
  <1> DEFINE pc == IF Via(h) = "direct" THEN "done" ELSE "finish"
             s == [call[h] EXCEPT !.pc = pc]
  <1>11. s \in Session
    BY <1>1, SessionMoves, StepNames
  <1>12. call' = [call EXCEPT ![h] = s]
    BY DEF CommitVersion, Goto
  <1>13. Sound(s)
    BY <1>1 DEF Sound, SweepSound, CopySound, ApplySound, Session
  <1>14. TypeOK'
    BY <1>1, <1>6, <1>7, <1>10, <1>11, <1>12 DEF world, Inv, TypeOK
  <1>15. Grows
    BY <1>1, GrowsFrame DEF world
  <1>16. CallSound'
    <2>1. PICK t : t = s
      OBVIOUS
    <2> HIDE DEF s
    <2>2. Sound(t)'
      BY <1>11, <1>13, <1>15, <2>1, SoundStays
    <2> QED BY <1>12, <1>15, <2>1, <2>2, CallSoundStep DEF Inv
  <1>17. AppliedTraces'
    <2>1. Applied(k)
      BY <1>1, <1>2 DEF Sound, ApplySound
    <2>2. \A j \in Keys, via \in Vias :
             trace'[j][via] = IF j = k /\ via = Via(h) THEN "applied" ELSE trace[j][via]
      BY <1>9 DEF Inv, TypeOK
    <2>3. \A j \in Keys : Applied(j) => Applied(j)'
      BY <1>15 DEF Grows
    <2> QED BY <2>1, <2>2, <2>3 DEF Inv, AppliedTraces
  <1>18. ExpiredIsLate' /\ ApprovedWasApplied' /\ FourEyes'
    BY <1>1 DEF world, Inv, ExpiredIsLate, ApprovedWasApplied, FourEyes
  <1> QED BY <1>14, <1>16, <1>17, <1>18 DEF Inv

LEMMA Finalize_Inv ==
    ASSUME Inv, NEW h \in Calls, Finalize(h)
    PROVE  Inv'
  <1>1. /\ call[h].pc = "finish" /\ call[h] \in Session /\ Sound(call[h])
        /\ UNCHANGED <<tables, world>>
    BY CallType DEF Finalize, Inv, CallSound
  <1>2. PICK k \in Keys : k = call[h].key
    BY <1>1 DEF Session
  <1>3. CASE Finish(h)
    BY <1>1, <1>3, Finish_Inv
  <1>4. CASE ~Finish(h)
    <2> DEFINE s == [call[h] EXCEPT !.pc = "decide", !.copy = approval[k]]
    <2>1. approval[k].state \in {"assigned", "expired", "approved"} /\ call' = [call EXCEPT ![h] = s]
      BY <1>2, <1>4 DEF Finalize, Finish
    <2>2. s \in Session
      BY <1>1, SessionMoves, StepNames DEF Inv, TypeOK
    <2>3. Sound(s)
      BY <1>1, <1>2, <2>1 DEF Sound, SweepSound, CopySound, ApplySound, Session, Settled, None
    <2> HIDE DEF s
    <2> QED BY <1>1, <2>1, <2>2, <2>3, CallStep_Inv DEF world, Inv, TypeOK
  <1> QED BY <1>3, <1>4

LEMMA Decide_Inv ==
    ASSUME Inv, NEW h \in Calls, Decide(h)
    PROVE  Inv'
  <1>1. /\ call[h].pc = "decide" /\ call[h] \in Session /\ Sound(call[h]) /\ Finish(h)
        /\ UNCHANGED <<policy, baseline, trace, changes, versions, world>>
    BY CallType DEF Decide, Inv, CallSound
  <1>2. PICK k \in Keys : k = call[h].key
    BY <1>1 DEF Session
  <1>3. approval[k] \in Row
    BY DEF Inv, TypeOK
  <1> DEFINE row == [approval[k] EXCEPT
                       !.state = IF call[h].copy.state = "approved" THEN @ ELSE "approved",
                       !.votes = call[h].copy.votes]
  <1>4. approval' = [approval EXCEPT ![k] = row]
    BY <1>2 DEF Decide
  <1>5. /\ row \in Row
        /\ row.state = IF call[h].copy.state = "approved" THEN approval[k].state ELSE "approved"
        /\ row.owner = approval[k].owner
    BY <1>1, <1>3 DEF Row, RequestStates, Session
  <1> HIDE DEF row
  <1>6. Settled(k) /\ Applied(k)
    BY <1>1, <1>2 DEF Sound, CopySound, ApplySound
  <1>7. /\ (approval[k].owner = None) <=> (approval[k].state \in {None, "pending"})
        /\ approval[k].state = "expired" => k \in late
    BY DEF Inv, TypeOK, ExpiredIsLate
  <1>8. LegalSave(k, row)
    BY <1>5, <1>6, <1>7 DEF LegalSave, Requested, Settled, None
  <1> QED BY <1>1, <1>4, <1>5, <1>8, SaveFinish_Inv

-----------------------------------------------------------------------------
(* The steps around the calls *)

LEMMA Simulate_Inv ==
    ASSUME Inv, NEW s \in Sims, Simulate(s)
    PROVE  Inv'
  <1> USE DEF Simulate, world
  <1>1. TypeOK'
    BY DEF Inv, TypeOK
  <1>2. CallSound'
    BY DEF Inv, CallSound, Sound, SweepSound, CopySound, ApplySound, Requested, Settled, Applied
  <1>3. ExpiredIsLate' /\ AppliedTraces' /\ ApprovedWasApplied' /\ FourEyes'
    BY DEF Inv, ExpiredIsLate, AppliedTraces, Applied, ApprovedWasApplied, FourEyes
  <1> QED BY <1>1, <1>2, <1>3 DEF Inv

LEMMA Start_Inv ==
    ASSUME Inv, NEW h \in Calls, NEW op \in Operations, NEW a \in Actors, NEW k \in Keys,
           Start(h, op, a, k)
    PROVE  Inv'
  <1> DEFINE todo == {j \in late : IsOpen(j)}
             s == [pc |-> IF op = "apply" THEN "look" ELSE "sweep",
                   op |-> op, actor |-> a, key |-> k,
                   todo |-> todo, item |-> k,
                   back |-> "done", copy |-> NoRow, owner |-> None,
                   read |-> [value |-> NoSim, version |-> 0]]
  <1>1. /\ call' = [call EXCEPT ![h] = s]
        /\ UNCHANGED <<tables, late, active, overlap, crashes, deactivated>>
        /\ started' = started + 1
    BY DEF Start
  <1>2. op # "apply" => Requested(k)
    BY DEF Start, Requested
  <1>3. todo \subseteq late /\ \A j \in todo : Requested(j)
    BY DEF IsOpen, Requested, None
  <1>4. late \subseteq Keys
    BY DEF Inv, TypeOK
  <1> HIDE DEF todo
  <1>5. s \in Session
    BY <1>3, <1>4, NoneFacts DEF Session, Steps
  <1>6. Sound(s)
    BY <1>2, <1>3 DEF Sound, SweepSound, CopySound, ApplySound
  <1> HIDE DEF s
  <1>7. Grows
    BY <1>1, GrowsFrame DEF tables
  <1>8. CallSound'
    <2>1. PICK t : t = s
      OBVIOUS
    <2>2. Sound(t)'
      BY <1>5, <1>6, <1>7, <2>1, SoundStays
    <2> QED BY <1>1, <1>7, <2>1, <2>2, CallSoundStep DEF Inv
  <1>9. TypeOK'
    BY <1>1, <1>5 DEF tables, Inv, TypeOK
  <1>10. ExpiredIsLate' /\ AppliedTraces' /\ ApprovedWasApplied' /\ FourEyes'
    BY <1>1 DEF tables, Inv, ExpiredIsLate, AppliedTraces, Applied, ApprovedWasApplied, FourEyes
  <1> QED BY <1>8, <1>9, <1>10 DEF Inv

LEMMA Timeout_Inv ==
    ASSUME Inv, NEW k \in Keys, Timeout(k)
    PROVE  Inv'
  <1> USE DEF Timeout, tables
  <1>1. TypeOK'
    BY DEF Inv, TypeOK
  <1>2. late \subseteq late'
    OBVIOUS
  <1>3. CallSound'
    BY <1>2 DEF Inv, CallSound, Sound, SweepSound, CopySound, ApplySound, Requested, Settled, Applied
  <1>4. ExpiredIsLate' /\ AppliedTraces' /\ ApprovedWasApplied' /\ FourEyes'
    BY <1>2 DEF Inv, ExpiredIsLate, AppliedTraces, Applied, ApprovedWasApplied, FourEyes
  <1> QED BY <1>1, <1>3, <1>4 DEF Inv

LEMMA Crash_Inv ==
    ASSUME Inv, NEW h \in Calls, Crash(h)
    PROVE  Inv'
  <1>1. /\ call' = [call EXCEPT ![h] = Idle] /\ crashes' = crashes + 1
        /\ UNCHANGED <<tables, late, active, overlap, started, deactivated>>
    BY DEF Crash, Finish
  <1>2. Idle \in Session \cup {Idle} /\ Idle.pc = "idle" /\ crashes' \in Nat
    BY <1>1 DEF Idle, Inv, TypeOK
  <1> QED BY <1>1, <1>2, CallStep_Inv

LEMMA Deactivate_Inv ==
    ASSUME Inv, NEW a \in Actors, Deactivate(a)
    PROVE  Inv'
  <1> USE DEF Deactivate, tables
  <1>1. TypeOK'
    BY DEF Inv, TypeOK
  <1>2. CallSound'
    BY DEF Inv, CallSound, Sound, SweepSound, CopySound, ApplySound, Requested, Settled, Applied
  <1>3. ExpiredIsLate' /\ AppliedTraces' /\ ApprovedWasApplied' /\ FourEyes'
    BY DEF Inv, ExpiredIsLate, AppliedTraces, Applied, ApprovedWasApplied, FourEyes
  <1> QED BY <1>1, <1>2, <1>3 DEF Inv

LEMMA CallStepsInv ==
    ASSUME Inv, NEW h \in Calls, CallStep(h)
    PROVE  Inv'
  <1>1. CASE \E override, confirmed \in BOOLEAN : Look(h, override, confirmed)
    BY <1>1, Look_Inv
  <1>2. CASE Block(h) \/ Insert(h) \/ EnsureOwnership(h) \/ AssignCommit(h)
    BY <1>2, Block_Inv, Insert_Inv, EnsureOwnership_Inv, AssignCommit_Inv
  <1>3. CASE Done(h)
    BY <1>3, Finish_Inv DEF Done
  <1>4. CASE \E k \in Keys : SweepRow(h, k)
    BY <1>4, SweepRow_Inv
  <1>5. CASE SweepOwned(h) \/ ExpireCommit(h) \/ SweepDone(h) \/ Escalate(h)
    BY <1>5, SweepOwned_Inv, ExpireCommit_Inv, SweepDone_Inv, Escalate_Inv
  <1>6. CASE Approve(h) \/ Reject(h) \/ ForceApply(h)
    BY <1>6, Approve_Inv, Reject_Inv, ForceApply_Inv
  <1>7. CASE \E a \in Actors : Assign(h, a)
    BY <1>7, Assign_Inv
  <1>8. CASE CommitValues(h) \/ CommitVersion(h) \/ Finalize(h) \/ Decide(h)
    BY <1>8, CommitValues_Inv, CommitVersion_Inv, Finalize_Inv, Decide_Inv
  <1> QED BY <1>1, <1>2, <1>3, <1>4, <1>5, <1>6, <1>7, <1>8 DEF CallStep

LEMMA NextInv == Inv /\ [Next]_vars => Inv'
  <1> SUFFICES ASSUME Inv, [Next]_vars PROVE Inv'
    OBVIOUS
  <1>1. CASE \E s \in Sims : Simulate(s)
    BY <1>1, Simulate_Inv
  <1>2. CASE \E h \in Calls, op \in Operations, a \in Actors, k \in Keys : Start(h, op, a, k)
    BY <1>2, Start_Inv
  <1>3. CASE \E h \in Calls : CallStep(h) \/ Crash(h)
    BY <1>3, CallStepsInv, Crash_Inv
  <1>4. CASE (\E k \in Keys : Timeout(k)) \/ (\E a \in Actors : Deactivate(a))
    BY <1>4, Timeout_Inv, Deactivate_Inv
  <1>5. CASE UNCHANGED vars
    <2> USE <1>5 DEF vars
    <2>1. TypeOK'
      BY DEF Inv, TypeOK
    <2>2. CallSound'
      BY DEF Inv, CallSound, Sound, SweepSound, CopySound, ApplySound, Requested, Settled,
         Applied
    <2>3. ExpiredIsLate' /\ AppliedTraces' /\ ApprovedWasApplied' /\ FourEyes'
      BY DEF Inv, ExpiredIsLate, AppliedTraces, Applied, ApprovedWasApplied, FourEyes
    <2> QED BY <2>1, <2>2, <2>3 DEF Inv
  <1> QED BY <1>1, <1>2, <1>3, <1>4, <1>5 DEF Next

\* The tables and sessions keep their shape, and a request has an owner exactly
\* from the moment it is no longer pending, whatever copies overlapping sweeps
\* and reassignments write back.
THEOREM ApprovalsTyped == Spec => []TypeOK
  <1>1. Spec => []Inv
    BY InitInv, NextInv, PTL DEF Spec
  <1> QED BY <1>1, PTL DEF Inv

\* However many administrators, requests and overlapping calls there are, a
\* CRITICAL change is in the history only with the vote of somebody other than
\* its requester and the weight of a quorum, or after its request ran out of
\* time.
THEOREM FourEyesAlways == Spec => []FourEyes
  <1>1. Spec => []Inv
    BY InitInv, NextInv, PTL DEF Spec
  <1> QED BY <1>1, PTL DEF Inv

\* A request says approved only when its change is in the history.
THEOREM ApprovedApplied == Spec => []ApprovedWasApplied
  <1>1. Spec => []Inv
    BY InitInv, NextInv, PTL DEF Spec
  <1> QED BY <1>1, PTL DEF Inv

-----------------------------------------------------------------------------
(* Calls one after the other *)

OneCall == \A g, h \in Calls : call[g].pc # "idle" /\ call[h].pc # "idle" => g = h

AtVersion == \E h \in Calls : call[h].pc = "version"

\* The history up to a commit of values whose version is still to come.
History ==
    LET n == Len(changes)
        m == IF AtVersion THEN n - 1 ELSE n
    IN  /\ Len(versions) = m
        /\ policy.version = m + 1
        /\ \A i \in 1..m : versions[i] = [no |-> i + 1, value |-> SimOf[changes[i].key]]
        /\ \A i \in 1..n : baseline[SimOf[changes[i].key]] = i

\* What a lone call read is what is there.
Current(s) ==
    /\ s.pc \in {"assign", "expire", "decide"} =>
          s.copy.state = approval[IF s.pc = "decide" THEN s.key ELSE s.item].state
    /\ s.pc = "values" => Fresh(SimOf[s.key])
    /\ s.pc = "version" =>
          LET n == Len(changes)
          IN  /\ n > 0
              /\ s.read = [value |-> SimOf[changes[n].key], version |-> n]
    /\ s.pc \in {"finish", "decide"} => s.op \in {"approve", "force"}
    /\ s.pc \in {"values", "version", "finish", "decide"} =>
          /\ s.op = "approve" => approval[s.key].state = "assigned"
          /\ s.op = "force" => approval[s.key].state = "expired"

\* A request whose apply is in the history is approved, or its call is about
\* to approve it.
ChangesFinished ==
    \A i \in 1..Len(changes) : changes[i].via # "direct" =>
        \/ approval[changes[i].key].state = "approved"
        \/ \E h \in Calls : /\ call[h].pc \in {"version", "finish", "decide"}
                            /\ call[h].op \in {"approve", "force"}
                            /\ call[h].key = changes[i].key

SerialInv ==
    /\ OneCall /\ History /\ ChangesFinished
    /\ \A h \in Calls : call[h].pc # "idle" => Current(call[h])

UndisturbedInv == Undisturbed => SerialInv

\* The steps of a call of which nobody needs to know the request's state.
Quiet == {"idle", "look", "block", "insert", "own", "owned", "sweep", "escalate", "done", "act"}

Finishing(s, k) == /\ s.pc \in {"version", "finish", "decide"}
                   /\ s.op \in {"approve", "force"}
                   /\ s.key = k

-----------------------------------------------------------------------------
(* Every step of undisturbed calls keeps SerialInv *)

LEMMA AloneStep ==
    ASSUME TypeOK, OneCall, NEW h \in Calls, call[h].pc # "idle", NEW s,
           call' = [call EXCEPT ![h] = s]
    PROVE  /\ OneCall'
           /\ call'[h] = s
           /\ \A g \in Calls : call[g].pc # "idle" => g = h
           /\ \A g \in Calls : call'[g].pc # "idle" => g = h
  BY DEF TypeOK, OneCall

LEMMA ChangeKeys ==
    ASSUME TypeOK
    PROVE  /\ Len(changes) \in Nat
           /\ \A i \in 1..Len(changes) : changes[i].key \in Keys /\ SimOf[changes[i].key] \in Sims
  <1> DEFINE C == [key : Keys, via : Vias, votes : SUBSET Actors]
  <1>1. changes \in Seq(C)
    BY DEF TypeOK
  <1> HIDE DEF C
  <1>2. Len(changes) \in Nat /\ \A i \in 1..Len(changes) : changes[i] \in C
    BY <1>1
  <1> QED BY <1>2, ConstantsAssumption DEF C

\* A step of a call that neither commits values nor a version.
LEMMA SerialStep ==
    ASSUME Inv, SerialInv, NEW h \in Calls, call[h].pc \notin {"idle", "version"},
           NEW s, call' = [call EXCEPT ![h] = s], s.pc # "version",
           UNCHANGED <<policy, baseline, changes, versions>>,
           \A k \in Keys : approval[k].state = "approved" => approval'[k].state = "approved",
           \A k \in Keys : Finishing(call[h], k) =>
                              Finishing(s, k) \/ approval'[k].state = "approved",
           s.pc \in Quiet \/ (Current(s) /\ UNCHANGED approval)
    PROVE  SerialInv'
  <1>1. /\ OneCall' /\ call'[h] = s
        /\ \A g \in Calls : call[g].pc # "idle" => g = h
        /\ \A g \in Calls : call'[g].pc # "idle" => g = h
    BY AloneStep DEF Inv, SerialInv
  <1>2. ~AtVersion /\ ~AtVersion'
    BY <1>1 DEF AtVersion
  <1>3. History'
    BY <1>2 DEF SerialInv, History
  <1>4. ChangesFinished'
    <2> SUFFICES ASSUME NEW i \in 1..Len(changes), changes[i].via # "direct",
                        approval'[changes[i].key].state # "approved"
                 PROVE  \E g \in Calls : /\ call'[g].pc \in {"version", "finish", "decide"}
                                         /\ call'[g].op \in {"approve", "force"}
                                         /\ call'[g].key = changes[i].key
      BY DEF ChangesFinished
    <2>1. changes[i].key \in Keys
      BY ChangeKeys DEF Inv
    <2>2. PICK g \in Calls : Finishing(call[g], changes[i].key)
      BY <2>1 DEF SerialInv, ChangesFinished, Finishing
    <2>3. g = h
      BY <1>1, <2>2 DEF Finishing
    <2>4. Finishing(s, changes[i].key)
      BY <2>1, <2>2, <2>3
    <2> QED BY <1>1, <2>4 DEF Finishing
  <1>5. \A g \in Calls : call'[g].pc # "idle" => Current(call[g])'
    <2> SUFFICES ASSUME NEW g \in Calls, NEW t, t = call'[g], t.pc # "idle"
                 PROVE  Current(t)'
      BY DEF Current, Fresh
    <2>1. t = s
      BY <1>1
    <2> QED BY <2>1 DEF Current, Fresh, Quiet
  <1> QED BY <1>1, <1>3, <1>4, <1>5 DEF SerialInv

\* The same where only the call moves on.
LEMMA SerialMove ==
    ASSUME Inv, SerialInv, NEW h \in Calls, call[h].pc \notin {"idle", "version"},
           NEW s, call' = [call EXCEPT ![h] = s], s.pc # "version",
           UNCHANGED tables, s.pc \in Quiet \/ Current(s),
           \A k \in Keys : Finishing(call[h], k) => Finishing(s, k)
    PROVE  SerialInv'
  BY SerialStep DEF tables

\* The same where one request, not an approved one, is saved by a call that
\* did not begin an apply.
LEMMA SerialSave ==
    ASSUME Inv, SerialInv, NEW h \in Calls,
           call[h].pc \notin {"idle", "version", "finish", "decide"},
           NEW s, call' = [call EXCEPT ![h] = s], s.pc \in Quiet,
           NEW k \in Keys, approval[k].state # "approved",
           NEW row, approval' = [approval EXCEPT ![k] = row],
           UNCHANGED <<policy, baseline, changes, versions>>
    PROVE  SerialInv'
  <1>1. \A j \in Keys : approval[j].state = "approved" => approval'[j].state = "approved"
    BY DEF Inv, TypeOK
  <1>2. s.pc # "version" /\ \A j \in Keys : ~Finishing(call[h], j)
    BY DEF Quiet, Finishing
  <1> QED BY <1>1, <1>2, SerialStep

LEMMA SerialLook ==
    ASSUME Inv, SerialInv, NEW h \in Calls, NEW override, NEW confirmed,
           Look(h, override, confirmed)
    PROVE  SerialInv'
  <1>1. call[h].pc = "look" /\ call[h] \in Session /\ Sound(call[h]) /\ UNCHANGED tables
    BY CallType DEF Look, Inv, CallSound
  <1>2. \A k \in Keys : ~Finishing(call[h], k)
    BY <1>1 DEF Finishing
  <1>3. CASE Finish(h)
    <2>1. call' = [call EXCEPT ![h] = Idle] /\ Idle.pc = "idle"
      BY <1>3 DEF Finish, Idle
    <2> QED BY <1>1, <1>2, <2>1, SerialMove DEF Quiet
  <1>4. CASE ~Finish(h)
    <2> DEFINE class == Class[SimOf[call[h].key]]
               pc == CASE class # "CRITICAL" -> "values"
                       [] override           -> "insert"
                       [] OTHER              -> "block"
               s == [call[h] EXCEPT !.pc = pc]
    <2>1. call' = [call EXCEPT ![h] = s] /\ Fresh(SimOf[call[h].key])
      BY <1>4 DEF Look, Goto
    <2>2. pc \in {"values", "insert", "block"}
      OBVIOUS
    <2> HIDE DEF pc
    <2>3. s.pc = pc /\ s.key = call[h].key /\ s.op = "apply"
      BY <1>1 DEF Session, Sound, ApplySound
    <2>4. s.pc \in Quiet \/ Current(s)
      BY <2>1, <2>2, <2>3 DEF Quiet, Current
    <2> HIDE DEF s
    <2> QED BY <1>1, <1>2, <2>1, <2>2, <2>3, <2>4, SerialMove
  <1> QED BY <1>3, <1>4

LEMMA SerialBlockInsert ==
    ASSUME Inv, SerialInv, NEW h \in Calls, Block(h) \/ Insert(h)
    PROVE  SerialInv'
  <1>1. call[h].pc \in {"block", "insert"} /\ call[h] \in Session
        /\ UNCHANGED <<policy, baseline, changes, versions>>
    BY CallType DEF Block, Insert, Inv
  <1>2. PICK k \in Keys : k = call[h].key
    BY <1>1 DEF Session
  <1>3. \A j \in Keys : ~Finishing(call[h], j)
    BY <1>1 DEF Finishing
  <1>4. CASE Finish(h) /\ UNCHANGED approval
    <2>1. call' = [call EXCEPT ![h] = Idle] /\ Idle.pc = "idle"
      BY <1>4 DEF Finish, Idle
    <2> QED BY <1>1, <1>3, <1>4, <2>1, SerialStep DEF Quiet
  <1>5. CASE ~(Finish(h) /\ UNCHANGED approval)
    <2> DEFINE row == [state |-> "pending", owner |-> None, votes |-> {call[h].actor}]
               s == [call[h] EXCEPT !.pc = "own"]
    <2>1. approval' = [approval EXCEPT ![k] = row] /\ call' = [call EXCEPT ![h] = s]
          /\ approval[k].state = None
      BY <1>2, <1>5 DEF Block, Insert, Goto
    <2>2. s.pc = "own" /\ approval[k].state # "approved"
      BY <1>1, <2>1 DEF Session, None
    <2> HIDE DEF row, s
    <2> QED BY <1>1, <2>1, <2>2, SerialSave DEF Quiet
  <1> QED BY <1>4, <1>5

\* The steps of ownership and sweep: what a lone call read is still so when it
\* writes it.
LEMMA SerialOwnership ==
    ASSUME Inv, SerialInv, NEW h \in Calls, EnsureOwnership(h) \/ AssignCommit(h)
    PROVE  SerialInv'
  <1>1. /\ call[h].pc \in {"own", "assign"} /\ call[h] \in Session /\ Sound(call[h])
        /\ Current(call[h])
        /\ UNCHANGED <<policy, baseline, changes, versions>>
    BY CallType DEF EnsureOwnership, AssignCommit, tables, Inv, CallSound, SerialInv
  <1>2. PICK k \in Keys : k = call[h].item
    BY <1>1 DEF Session
  <1>3. \A j \in Keys : ~Finishing(call[h], j)
    BY <1>1 DEF Finishing
  <1> DEFINE back == [call[h] EXCEPT !.pc = call[h].back]
  <1>4. back.pc \in Quiet
    BY <1>1 DEF Session, Quiet, Sound, SweepSound
  <1>5. CASE EnsureOwnership(h) /\ Goto(h, call[h].back)
    <2>1. call' = [call EXCEPT ![h] = back] /\ UNCHANGED tables
      BY <1>5 DEF EnsureOwnership, Goto
    <2> HIDE DEF back
    <2> QED BY <1>1, <1>3, <1>4, <2>1, SerialMove DEF Quiet
  <1>6. CASE EnsureOwnership(h) /\ ~Goto(h, call[h].back)
    <2>1. PICK a \in AutoAssignees(k, approval[k]) :
             call' = [call EXCEPT ![h].pc = "assign", ![h].copy = approval[k], ![h].owner = a]
      BY <1>2, <1>6 DEF EnsureOwnership
    <2> DEFINE s == [call[h] EXCEPT !.pc = "assign", !.copy = approval[k], !.owner = a]
    <2>2. call' = [call EXCEPT ![h] = s] /\ UNCHANGED tables
      BY <1>6, <2>1 DEF EnsureOwnership, Inv, TypeOK
    <2>3. s.pc = "assign" /\ Current(s)
      BY <1>1, <1>2 DEF Session, Current
    <2> HIDE DEF s
    <2> QED BY <1>1, <1>3, <2>2, <2>3, SerialMove
  <1>7. CASE AssignCommit(h)
    <2>1. call[h].pc = "assign" /\ call' = [call EXCEPT ![h] = back]
      BY <1>7 DEF AssignCommit, Goto
    <2>2. approval[k].state # "approved"
      BY <1>1, <1>2, <2>1 DEF Sound, CopySound, Current
    <2>3. PICK row : approval' = [approval EXCEPT ![k] = row]
      BY <1>2, <1>7 DEF AssignCommit
    <2> HIDE DEF back
    <2> QED BY <1>1, <1>4, <2>1, <2>2, <2>3, SerialSave
  <1> QED BY <1>5, <1>6, <1>7

LEMMA SerialSweep ==
    ASSUME Inv, SerialInv, NEW h \in Calls,
           (\E k \in Keys : SweepRow(h, k)) \/ SweepOwned(h) \/ ExpireCommit(h)
    PROVE  SerialInv'
  <1>1. /\ call[h].pc \in {"sweep", "owned", "expire"} /\ call[h] \in Session
        /\ Sound(call[h]) /\ Current(call[h])
        /\ UNCHANGED <<policy, baseline, changes, versions>>
    BY CallType DEF SweepRow, SweepOwned, ExpireCommit, tables, Inv, CallSound, SerialInv
  <1>2. \A j \in Keys : ~Finishing(call[h], j)
    BY <1>1 DEF Finishing
  <1>3. ASSUME NEW s, call' = [call EXCEPT ![h] = s], UNCHANGED tables,
               s.pc \in Quiet \/ (s.pc = "expire" /\ s.copy = approval[s.item])
        PROVE  SerialInv'
    <2>1. s.pc # "version" /\ (s.pc \in Quiet \/ Current(s))
      BY <1>3 DEF Quiet, Current
    <2> QED BY <1>1, <1>2, <1>3, <2>1, SerialMove
  <1>4. CASE \E k \in Keys : SweepRow(h, k)
    <2>1. PICK k \in Keys : SweepRow(h, k)
      BY <1>4
    <2> DEFINE s == CASE approval[k].state = "pending" ->
                           [call[h] EXCEPT !.pc = "own", !.item = k, !.back = "owned"]
                      [] approval[k].state \in {"assigned", "expired"} ->
                           [call[h] EXCEPT !.pc = "expire", !.item = k, !.copy = approval[k]]
                      [] OTHER -> Idle
    <2>2. call' = [call EXCEPT ![h] = s] /\ UNCHANGED tables
      BY <2>1 DEF SweepRow
    <2>3. s.pc \in Quiet \/ (s.pc = "expire" /\ s.copy = approval[s.item])
      BY <1>1 DEF Session, Quiet, Idle
    <2> HIDE DEF s
    <2> QED BY <2>2, <2>3, <1>3
  <1>5. CASE SweepOwned(h)
    <2> DEFINE k == call[h].item
               s == IF approval[k].state = "assigned"
                    THEN [call[h] EXCEPT !.pc = "expire", !.copy = approval[k]]
                    ELSE [call[h] EXCEPT !.pc = "sweep", !.todo = @ \ {k}]
    <2>1. call' = [call EXCEPT ![h] = s] /\ UNCHANGED tables
      BY <1>5 DEF SweepOwned
    <2>2. s.pc \in Quiet \/ (s.pc = "expire" /\ s.copy = approval[s.item])
      BY <1>1 DEF Session, Quiet
    <2> HIDE DEF s
    <2> QED BY <2>1, <2>2, <1>3
  <1>6. CASE ExpireCommit(h)
    <2>1. PICK k \in Keys : k = call[h].item
      BY <1>1 DEF Session
    <2>2. PICK row : approval' = [approval EXCEPT ![k] = row]
      BY <1>6, <2>1 DEF ExpireCommit
    <2> DEFINE s == [call[h] EXCEPT !.pc = "sweep", !.todo = @ \ {k}]
    <2>3. call[h].pc = "expire" /\ call' = [call EXCEPT ![h] = s]
      BY <1>6, <2>1 DEF ExpireCommit
    <2>4. s.pc \in Quiet
      BY <1>1 DEF Session, Quiet
    <2>5. approval[k].state # "approved"
      BY <1>1, <2>1, <2>3 DEF Sound, CopySound, Current
    <2> HIDE DEF s
    <2> QED BY <1>1, <2>2, <2>3, <2>4, <2>5, SerialSave
  <1> QED BY <1>4, <1>5, <1>6

LEMMA SerialRest ==
    ASSUME Inv, SerialInv, NEW h \in Calls, SweepDone(h) \/ Escalate(h) \/ Done(h)
    PROVE  SerialInv'
  <1>1. /\ call[h].pc \in {"sweep", "escalate", "done"} /\ UNCHANGED tables
    BY DEF SweepDone, Escalate, Done
  <1>2. call[h] \in Session
    BY <1>1, CallType DEF Inv
  <1>3. \A j \in Keys : ~Finishing(call[h], j)
    BY <1>1 DEF Finishing
  <1>4. ASSUME NEW s, call' = [call EXCEPT ![h] = s], s.pc \in Quiet
        PROVE  SerialInv'
    BY <1>1, <1>3, <1>4, SerialMove DEF Quiet
  <1>5. CASE Finish(h)
    BY <1>4, <1>5 DEF Finish, Idle, Quiet
  <1>6. CASE SweepDone(h)
    <2> DEFINE s == IF call[h].op = "sweep"
                    THEN [call[h] EXCEPT !.pc = "escalate", !.todo = {k \in Keys : IsOpen(k)}]
                    ELSE [call[h] EXCEPT !.pc = "act", !.item = call[h].key]
    <2>1. call' = [call EXCEPT ![h] = s]
      BY <1>6 DEF SweepDone
    <2>2. s.pc \in Quiet
      BY <1>2 DEF Session, Quiet
    <2> HIDE DEF s
    <2> QED BY <2>1, <2>2, <1>4
  <1>7. CASE Escalate(h) /\ ~Finish(h)
    <2>1. PICK k \in call[h].todo :
             call' = [call EXCEPT ![h].pc = "own", ![h].item = k, ![h].back = "escalate",
                                  ![h].todo = @ \ {k}]
      BY <1>7 DEF Escalate
    <2> DEFINE s == [call[h] EXCEPT !.pc = "own", !.item = k, !.back = "escalate",
                                    !.todo = @ \ {k}]
    <2>2. call' = [call EXCEPT ![h] = s] /\ s.pc = "own"
      BY <1>2, <2>1 DEF Session
    <2> HIDE DEF s
    <2> QED BY <2>2, <1>4 DEF Quiet
  <1> QED BY <1>5, <1>6, <1>7 DEF Done

\* The calls on the locked request: it is saved and the call ends, or the apply
\* begins with a fresh simulation and the request as it is.
LEMMA SerialAct ==
    ASSUME Inv, SerialInv, NEW h \in Calls,
           Approve(h) \/ Reject(h) \/ ForceApply(h) \/ \E a \in Actors : Assign(h, a)
    PROVE  SerialInv'
  <1>1. /\ call[h].pc = "act" /\ call[h] \in Session
        /\ UNCHANGED <<policy, baseline, trace, changes, versions>>
    BY CallType DEF Approve, Reject, ForceApply, Assign, Inv
  <1>2. PICK k \in Keys : k = call[h].key
    BY <1>1 DEF Session
  <1>3. \A j \in Keys : ~Finishing(call[h], j)
    BY <1>1 DEF Finishing
  <1>4. approval[k] \in Row
    BY DEF Inv, TypeOK
  <1>5. ASSUME NEW row, approval[k].state # "approved", approval' = [approval EXCEPT ![k] = row],
               Finish(h)
        PROVE  SerialInv'
    <2>1. call' = [call EXCEPT ![h] = Idle] /\ Idle.pc \in Quiet
      BY <1>5 DEF Finish, Idle, Quiet
    <2> QED BY <1>1, <1>5, <2>1, SerialSave
  <1>6. ASSUME NEW row, call' = [call EXCEPT ![h].pc = "values", ![h].copy = row],
               UNCHANGED approval, Fresh(SimOf[k]),
               \/ call[h].op = "approve" /\ approval[k].state = "assigned"
               \/ call[h].op = "force" /\ approval[k].state = "expired"
        PROVE  SerialInv'
    <2> DEFINE s == [call[h] EXCEPT !.pc = "values", !.copy = row]
    <2>1. call' = [call EXCEPT ![h] = s]
      BY <1>6
    <2>2. s.pc = "values" /\ s.op = call[h].op /\ s.key = k
      BY <1>1, <1>2 DEF Session
    <2>3. Current(s)
      BY <1>6, <2>2 DEF Current
    <2> HIDE DEF s
    <2> QED BY <1>1, <1>3, <1>6, <2>1, <2>2, <2>3, SerialMove DEF tables
  <1>7. CASE Conflict(h)
    <2>1. call' = [call EXCEPT ![h] = Idle] /\ Idle.pc \in Quiet /\ Idle.pc = "idle" /\ UNCHANGED approval
      BY <1>7 DEF Conflict, Finish, Idle, Quiet
    <2> QED BY <1>1, <1>3, <2>1, SerialMove DEF tables
  <1>8. CASE Approve(h) /\ ~Conflict(h)
    <2> DEFINE row == [approval[k] EXCEPT !.votes = @ \cup {call[h].actor}]
    <2>1. approval[k].state = "assigned" /\ call[h].op = "approve"
      BY <1>2, <1>8 DEF Approve, MayDecide
    <2>2. \/ Save(h, row) /\ Finish(h)
          \/ Save(h, [row EXCEPT !.state = "approved"]) /\ Finish(h)
          \/ /\ Fresh(SimOf[k])
             /\ call' = [call EXCEPT ![h].pc = "values", ![h].copy = row]
             /\ UNCHANGED approval
      BY <1>2, <1>8 DEF Approve
    <2> HIDE DEF row
    <2> QED BY <1>2, <1>5, <1>6, <2>1, <2>2 DEF Save
  <1>9. CASE Reject(h) /\ ~Conflict(h)
    BY <1>2, <1>5, <1>9 DEF Reject, MayDecide, Save
  <1>10. CASE ForceApply(h) /\ ~Conflict(h)
    <2>1. approval[k].state = "expired" /\ call[h].op = "force"
      BY <1>2, <1>10 DEF ForceApply
    <2>2. \/ Save(h, [approval[k] EXCEPT !.state = "approved"]) /\ Finish(h)
          \/ /\ Fresh(SimOf[k])
             /\ call' = [call EXCEPT ![h].pc = "values", ![h].copy = approval[k]]
             /\ UNCHANGED approval
      BY <1>2, <1>10 DEF ForceApply
    <2> QED BY <1>2, <1>5, <1>6, <2>1, <2>2 DEF Save
  <1>11. CASE (\E a \in Actors : Assign(h, a)) /\ ~Conflict(h)
    BY <1>2, <1>5, <1>11 DEF Assign, IsOpen, Save
  <1> QED BY <1>7, <1>8, <1>9, <1>10, <1>11

\* After its two commits a lone call finds the request in the state it began
\* with, and approves it.
LEMMA SerialFinalize ==
    ASSUME Inv, SerialInv, NEW h \in Calls, Finalize(h) \/ Decide(h)
    PROVE  SerialInv'
  <1>1. /\ call[h].pc \in {"finish", "decide"} /\ call[h] \in Session
        /\ Current(call[h]) /\ Sound(call[h])
        /\ UNCHANGED <<policy, baseline, changes, versions>>
    BY CallType DEF Finalize, Decide, tables, Inv, CallSound, SerialInv
  <1>2. PICK k \in Keys : k = call[h].key
    BY <1>1 DEF Session
  <1>3. CASE Finalize(h)
    <2> DEFINE s == [call[h] EXCEPT !.pc = "decide", !.copy = approval[k]]
    <2>1. \/ call[h].op = "approve" /\ approval[k].state = "assigned"
          \/ call[h].op = "force" /\ approval[k].state = "expired"
      BY <1>1, <1>2 DEF Current
    <2>2. call' = [call EXCEPT ![h] = s] /\ UNCHANGED tables
      <3>1. \/ approval[k].state \in {"assigned", "approved"}
            \/ call[h].op # "approve" /\ approval[k].state = "expired"
        BY <2>1
      <3> QED BY <1>2, <1>3, <3>1 DEF Finalize
    <2>3. s.pc = "decide" /\ s.op = call[h].op /\ s.key = k /\ s.copy = approval[k]
      BY <1>1, <1>2 DEF Session
    <2>4. Current(s)
      BY <2>1, <2>3 DEF Current
    <2>5. \A j \in Keys : Finishing(call[h], j) => Finishing(s, j)
      BY <1>2, <2>3 DEF Finishing
    <2>6. call[h].pc \notin {"idle", "version"} /\ s.pc # "version"
      BY <1>1, <2>3
    <2> HIDE DEF s
    <2> QED BY <2>2, <2>4, <2>5, <2>6, <1>1, SerialMove
  <1>4. CASE Decide(h)
    <2> DEFINE row == [approval[k] EXCEPT
                         !.state = IF call[h].copy.state = "approved" THEN @ ELSE "approved",
                         !.votes = call[h].copy.votes]
    <2>1. call[h].pc = "decide" /\ call' = [call EXCEPT ![h] = Idle] /\ Idle.pc = "idle"
      BY <1>4 DEF Decide, Finish, Idle
    <2>2. approval' = [approval EXCEPT ![k] = row]
      BY <1>2, <1>4 DEF Decide
    <2>3. call[h].copy.state = approval[k].state /\ approval[k].state # "approved"
      BY <1>1, <1>2, <2>1 DEF Current
    <2>4. approval[k] \in Row /\ approval \in [Keys -> Row]
      BY DEF Inv, TypeOK
    <2>5. row.state = "approved"
      BY <2>3, <2>4 DEF Row
    <2> HIDE DEF row
    <2>6. \A j \in Keys : approval'[j] = IF j = k THEN row ELSE approval[j]
      BY <2>2, <2>4
    <2>7. \A j \in Keys : approval[j].state = "approved" => approval'[j].state = "approved"
      BY <2>3, <2>6
    <2>8. \A j \in Keys : Finishing(call[h], j) => approval'[j].state = "approved"
      BY <1>2, <2>5, <2>6 DEF Finishing
    <2> QED BY <1>1, <2>1, <2>7, <2>8, SerialStep DEF Quiet
  <1> QED BY <1>3, <1>4

\* The first commit of an apply: the change is the next of the history, and
\* its simulation saw the version before it.
LEMMA SerialCommitValues ==
    ASSUME Inv, SerialInv, NEW h \in Calls, CommitValues(h)
    PROVE  SerialInv'
  <1>1. /\ call[h].pc = "values" /\ call[h] \in Session /\ Sound(call[h]) /\ Current(call[h])
        /\ UNCHANGED <<baseline, trace, versions>>
    BY CallType DEF CommitValues, Inv, CallSound, SerialInv
  <1>2. PICK k \in Keys : k = call[h].key
    BY <1>1 DEF Session
  <1>3. PICK c : c = [key |-> k, via |-> Via(h), votes |-> call[h].copy.votes]
    OBVIOUS
  <1>4. c \in [key : Keys, via : Vias, votes : SUBSET Actors] /\ changes' = Append(changes, c)
    BY <1>1, <1>2, <1>3 DEF CommitValues, Session, Row, Via, Vias
  <1>5. PICK n \in Nat : n = Len(changes)
    BY ChangeKeys DEF Inv
  <1>6. /\ Len(changes') = n + 1 /\ changes'[n + 1] = c
        /\ \A i \in 1..n : changes'[i] = changes[i]
    BY <1>4, <1>5, HistoryAppend DEF Inv
  <1>7. PICK s : s = [call[h] EXCEPT !.pc = "version", !.read = policy']
    OBVIOUS
  <1>8. /\ call' = [call EXCEPT ![h] = s] /\ s.pc = "version" /\ s.key = k
        /\ s.op = call[h].op /\ s.read = policy'
    BY <1>1, <1>2, <1>7 DEF CommitValues, Session
  <1>9. /\ OneCall' /\ call'[h] = s
        /\ \A g \in Calls : call[g].pc # "idle" => g = h
        /\ \A g \in Calls : call'[g].pc # "idle" => g = h
    BY <1>1, <1>8, AloneStep DEF Inv, SerialInv
  <1>10. ~AtVersion /\ AtVersion'
    BY <1>1, <1>8, <1>9 DEF AtVersion
  <1>11. /\ Len(versions) = n /\ policy.version = n + 1
         /\ \A i \in 1..n : versions[i] = [no |-> i + 1, value |-> SimOf[changes[i].key]]
         /\ \A i \in 1..n : baseline[SimOf[changes[i].key]] = i
    BY <1>5, <1>10 DEF SerialInv, History
  <1>12. policy' = [value |-> SimOf[k], version |-> n + 1]
    BY <1>2, <1>11 DEF CommitValues, Inv, TypeOK
  <1>13. baseline[SimOf[k]] = n + 1
    BY <1>1, <1>2, <1>11 DEF Current, Fresh
  <1>14. History'
    <2>1. \A i \in 1..(n + 1) : baseline[SimOf[changes'[i].key]] = i
      BY <1>3, <1>5, <1>6, <1>11, <1>13
    <2>2. \A i \in 1..n : versions[i] = [no |-> i + 1, value |-> SimOf[changes'[i].key]]
      BY <1>6, <1>11
    <2> QED BY <1>1, <1>5, <1>6, <1>10, <1>11, <1>12, <2>1, <2>2 DEF History
  <1>15. /\ \A j \in Keys : approval'[j].state = approval[j].state
    <2>1. approval \in [Keys -> Row]
      BY DEF Inv, TypeOK
    <2>2. \A v : [approval EXCEPT ![k].votes = v][k].state = approval[k].state
      BY <2>1 DEF Row
    <2> QED BY <1>2, <2>1, <2>2 DEF CommitValues
  <1>16. ChangesFinished'
    <2> SUFFICES ASSUME NEW i \in 1..(n + 1), changes'[i].via # "direct",
                        approval'[changes'[i].key].state # "approved"
                 PROVE  Finishing(s, changes'[i].key)
      BY <1>6, <1>9 DEF ChangesFinished, Finishing
    <2>1. CASE i \in 1..n
      <3>1. changes'[i] = changes[i] /\ changes[i].key \in Keys
        BY <1>5, <1>6, <2>1, ChangeKeys DEF Inv
      <3>2. PICK g \in Calls : Finishing(call[g], changes[i].key)
        BY <1>5, <1>15, <2>1, <3>1 DEF SerialInv, ChangesFinished, Finishing
      <3>3. g = h
        BY <1>9, <3>2 DEF Finishing
      <3> QED BY <1>1, <3>2, <3>3 DEF Finishing
    <2>2. CASE i = n + 1
      <3>1. Via(h) # "direct" /\ changes'[i].key = k
        BY <1>3, <1>6, <2>2
      <3>2. call[h].op \in {"approve", "force"}
        BY <1>1, <3>1 DEF Sound, ApplySound, Via
      <3> QED BY <1>8, <3>1, <3>2 DEF Finishing
    <2> QED BY <2>1, <2>2
  <1>17. \A g \in Calls : call'[g].pc # "idle" => Current(call[g])'
    <2> SUFFICES ASSUME NEW g \in Calls, NEW t, t = call'[g], t.pc # "idle"
                 PROVE  Current(t)'
      BY DEF Current, Fresh
    <2>1. t = s
      BY <1>9
    <2>2. /\ s.op = "approve" => approval'[k].state = "assigned"
          /\ s.op = "force" => approval'[k].state = "expired"
      BY <1>1, <1>2, <1>8, <1>15 DEF Current
    <2>3. s.read = [value |-> SimOf[changes'[n + 1].key], version |-> n + 1]
      BY <1>3, <1>6, <1>8, <1>12
    <2> QED BY <1>5, <1>6, <1>8, <2>1, <2>2, <2>3 DEF Current
  <1> QED BY <1>9, <1>14, <1>16, <1>17 DEF SerialInv

\* The second commit: the version that follows the change is recorded.
LEMMA SerialCommitVersion ==
    ASSUME Inv, SerialInv, NEW h \in Calls, CommitVersion(h)
    PROVE  SerialInv'
  <1>1. /\ call[h].pc = "version" /\ call[h] \in Session /\ Sound(call[h]) /\ Current(call[h])
        /\ UNCHANGED <<baseline, approval, changes>>
    BY CallType DEF CommitVersion, Inv, CallSound, SerialInv
  <1>2. PICK k \in Keys : k = call[h].key
    BY <1>1 DEF Session
  <1>3. PICK n \in Nat : n = Len(changes)
    BY ChangeKeys DEF Inv
  <1>4. n > 0 /\ call[h].read = [value |-> SimOf[changes[n].key], version |-> n]
    BY <1>1, <1>3 DEF Current
  <1> DEFINE pc == IF Via(h) = "direct" THEN "done" ELSE "finish"
             s == [call[h] EXCEPT !.pc = pc]
  <1>5. call' = [call EXCEPT ![h] = s]
    BY DEF CommitVersion, Goto
  <1>6. /\ s.pc = IF Via(h) = "direct" THEN "done" ELSE "finish"
        /\ s.op = call[h].op /\ s.key = k
    BY <1>1, <1>2 DEF Session
  <1> HIDE DEF s, pc
  <1>7. /\ OneCall' /\ call'[h] = s
        /\ \A g \in Calls : call[g].pc # "idle" => g = h
        /\ \A g \in Calls : call'[g].pc # "idle" => g = h
    BY <1>1, <1>5, AloneStep DEF Inv, SerialInv
  <1>8. AtVersion /\ ~AtVersion'
    BY <1>1, <1>6, <1>7 DEF AtVersion
  <1>9. /\ Len(versions) = n - 1 /\ policy.version = n
        /\ \A i \in 1..(n - 1) : versions[i] = [no |-> i + 1, value |-> SimOf[changes[i].key]]
        /\ \A i \in 1..n : baseline[SimOf[changes[i].key]] = i
    BY <1>3, <1>8 DEF SerialInv, History
  <1>10. PICK v : v = [no |-> n + 1, value |-> SimOf[changes[n].key]]
    OBVIOUS
  <1>11. policy'.version = n + 1 /\ versions' = Append(versions, v)
    BY <1>4, <1>10 DEF CommitVersion, Inv, TypeOK
  <1>12. /\ Len(versions') = n
         /\ \A i \in 1..n : versions'[i] = [no |-> i + 1, value |-> SimOf[changes[i].key]]
    <2> DEFINE V == [no : Nat, value : Sims]
    <2>1. versions \in Seq(V)
      BY DEF Inv, TypeOK
    <2>2. v \in V
      BY <1>3, <1>4, <1>10, ChangeKeys DEF Inv
    <2> HIDE DEF V
    <2>3. /\ Len(versions') = n /\ versions'[n] = v
          /\ \A i \in 1..(n - 1) : versions'[i] = versions[i]
      BY <1>3, <1>4, <1>9, <1>11, <2>1, <2>2
    <2>4. \A i \in 1..n : i = n \/ i \in 1..(n - 1)
      BY <1>3
    <2> QED BY <1>9, <1>10, <2>3, <2>4
  <1>13. History'
    BY <1>1, <1>3, <1>8, <1>9, <1>11, <1>12 DEF History
  <1>14. Via(h) = "direct" <=> call[h].op = "apply"
    BY DEF Via
  <1>15. call[h].op \in {"apply", "approve", "force"}
    BY <1>1 DEF Sound, ApplySound
  <1>16. ChangesFinished'
    <2> SUFFICES ASSUME NEW i \in 1..n, changes[i].via # "direct",
                        approval[changes[i].key].state # "approved"
                 PROVE  Finishing(s, changes[i].key)
      BY <1>1, <1>3, <1>7 DEF ChangesFinished, Finishing
    <2>1. PICK g \in Calls : Finishing(call[g], changes[i].key)
      BY <1>3 DEF SerialInv, ChangesFinished, Finishing
    <2>2. g = h
      BY <1>7, <2>1 DEF Finishing
    <2> QED BY <1>2, <1>6, <1>14, <2>1, <2>2 DEF Finishing
  <1>17. \A g \in Calls : call'[g].pc # "idle" => Current(call[g])'
    <2> SUFFICES ASSUME NEW g \in Calls, NEW t, t = call'[g], t.pc # "idle"
                 PROVE  Current(t)'
      BY DEF Current, Fresh
    <2>1. t = s
      BY <1>7
    <2>2. /\ s.op = "approve" => approval[k].state = "assigned"
          /\ s.op = "force" => approval[k].state = "expired"
      BY <1>1, <1>2, <1>6 DEF Current
    <2> QED BY <1>1, <1>6, <1>14, <1>15, <2>1, <2>2 DEF Current
  <1> QED BY <1>7, <1>13, <1>16, <1>17 DEF SerialInv

LEMMA SerialAround ==
    ASSUME Inv, SerialInv,
           (\E s \in Sims : Simulate(s)) \/ (\E k \in Keys : Timeout(k)) \/ (\E a \in Actors : Deactivate(a))
    PROVE  SerialInv'
  <1>1. UNCHANGED <<policy, approval, trace, changes, versions, call>>
    BY DEF Simulate, Timeout, Deactivate, tables
  <1>2. \A s \in Sims : baseline[s] # 0 => baseline'[s] = baseline[s]
    BY DEF Simulate, Timeout, Deactivate, tables, Inv, TypeOK
  <1>3. OneCall' /\ ChangesFinished'
    BY <1>1 DEF SerialInv, OneCall, ChangesFinished
  <1>4. AtVersion' <=> AtVersion
    BY <1>1 DEF AtVersion
  <1>5. \A i \in 1..Len(changes) : baseline'[SimOf[changes[i].key]] = i
    BY <1>2, ChangeKeys DEF Inv, SerialInv, History
  <1>6. History'
    BY <1>1, <1>4, <1>5 DEF SerialInv, History
  <1>7. policy.version # 0
    BY ChangeKeys DEF Inv, SerialInv, History, TypeOK, AtVersion, Current
  <1>8. \A g \in Calls : call'[g].pc # "idle" => Current(call[g])'
    <2> SUFFICES ASSUME NEW g \in Calls, NEW t, t = call[g], t.pc # "idle"
                 PROVE  Current(t)'
      BY <1>1 DEF Current, Fresh
    <2>1. Current(t) /\ SimOf[t.key] \in Sims
      BY CallType, ConstantsAssumption DEF Inv, SerialInv
    <2>2. Fresh(SimOf[t.key]) => Fresh(SimOf[t.key])'
      BY <1>1, <1>2, <1>7, <2>1 DEF Fresh
    <2> QED BY <1>1, <2>1, <2>2 DEF Current
  <1> QED BY <1>3, <1>6, <1>8 DEF SerialInv

LEMMA SerialStart ==
    ASSUME Inv, SerialInv, ~overlap,
           NEW h \in Calls, NEW op \in Operations, NEW a \in Actors, NEW k \in Keys,
           Start(h, op, a, k)
    PROVE  SerialInv'
  <1>1. /\ \A g \in Calls : call[g].pc = "idle"
        /\ UNCHANGED tables
    BY DEF Start
  <1> DEFINE s == [pc |-> IF op = "apply" THEN "look" ELSE "sweep",
                   op |-> op, actor |-> a, key |-> k,
                   todo |-> {j \in late : IsOpen(j)}, item |-> k,
                   back |-> "done", copy |-> NoRow, owner |-> None,
                   read |-> [value |-> NoSim, version |-> 0]]
  <1>2. s.pc \in {"look", "sweep"} /\ call' = [call EXCEPT ![h] = s]
    BY DEF Start
  <1> HIDE DEF s
  <1>3. \A g \in Calls : call'[g] = IF g = h THEN s ELSE call[g]
    BY <1>2 DEF Inv, TypeOK
  <1>4. OneCall' /\ ~AtVersion /\ ~AtVersion'
    BY <1>1, <1>2, <1>3 DEF OneCall, AtVersion
  <1>5. History'
    BY <1>1, <1>4 DEF tables, SerialInv, History
  <1>6. ChangesFinished'
    BY <1>1, <1>3 DEF tables, SerialInv, ChangesFinished
  <1>7. \A g \in Calls : call'[g].pc # "idle" => Current(call[g])'
    <2> SUFFICES ASSUME NEW g \in Calls, NEW t, t = call'[g], t.pc # "idle"
                 PROVE  Current(t)'
      BY DEF Current, Fresh
    <2>1. t = s
      BY <1>1, <1>3
    <2> QED BY <1>2, <2>1 DEF Current
  <1> QED BY <1>4, <1>5, <1>6, <1>7 DEF SerialInv

LEMMA SerialCallStep ==
    ASSUME Inv, SerialInv, NEW h \in Calls, CallStep(h)
    PROVE  SerialInv'
  <1>1. CASE \E override, confirmed \in BOOLEAN : Look(h, override, confirmed)
    BY <1>1, SerialLook
  <1>2. CASE Block(h) \/ Insert(h) \/ EnsureOwnership(h) \/ AssignCommit(h)
    BY <1>2, SerialBlockInsert, SerialOwnership
  <1>3. CASE (\E k \in Keys : SweepRow(h, k)) \/ SweepOwned(h) \/ ExpireCommit(h)
    BY <1>3, SerialSweep
  <1>4. CASE Done(h) \/ SweepDone(h) \/ Escalate(h)
    BY <1>4, SerialRest
  <1>5. CASE Approve(h) \/ Reject(h) \/ ForceApply(h) \/ \E a \in Actors : Assign(h, a)
    BY <1>5, SerialAct
  <1>6. CASE CommitValues(h) \/ CommitVersion(h) \/ Finalize(h) \/ Decide(h)
    BY <1>6, SerialCommitValues, SerialCommitVersion, SerialFinalize
  <1> QED BY <1>1, <1>2, <1>3, <1>4, <1>5, <1>6 DEF CallStep

LEMMA CallStepFrame ==
    ASSUME NEW h \in Calls, CallStep(h)
    PROVE  UNCHANGED world
  <1>1. CASE \/ \E override, confirmed \in BOOLEAN : Look(h, override, confirmed)
             \/ Block(h) \/ Insert(h) \/ EnsureOwnership(h) \/ AssignCommit(h) \/ Done(h)
    BY <1>1 DEF Look, Block, Insert, EnsureOwnership, AssignCommit, Done
  <1>2. CASE \/ \E k \in Keys : SweepRow(h, k)
             \/ SweepOwned(h) \/ ExpireCommit(h) \/ SweepDone(h) \/ Escalate(h)
    BY <1>2 DEF SweepRow, SweepOwned, ExpireCommit, SweepDone, Escalate
  <1>3. CASE Approve(h) \/ Reject(h) \/ ForceApply(h) \/ \E a \in Actors : Assign(h, a)
    BY <1>3 DEF Approve, Reject, ForceApply, Assign
  <1>4. CASE CommitValues(h) \/ CommitVersion(h) \/ Finalize(h) \/ Decide(h)
    BY <1>4 DEF CommitValues, CommitVersion, Finalize, Decide
  <1> QED BY <1>1, <1>2, <1>3, <1>4 DEF CallStep

LEMMA InitUndisturbed == Init => UndisturbedInv
  <1> SUFFICES ASSUME Init PROVE SerialInv
    BY DEF UndisturbedInv
  <1>1. \A h \in Calls : call[h].pc = "idle"
    BY DEF Init, Idle
  <1>2. changes = <<>> /\ versions = <<>> /\ policy.version = 1
    BY DEF Init
  <1>3. History
    BY <1>1, <1>2 DEF History, AtVersion
  <1> QED BY <1>1, <1>2, <1>3 DEF SerialInv, OneCall, ChangesFinished

LEMMA NextUndisturbed == Inv /\ UndisturbedInv /\ [Next]_vars => UndisturbedInv'
  <1> SUFFICES ASSUME Inv, UndisturbedInv, [Next]_vars, Undisturbed'
               PROVE  SerialInv'
    BY DEF UndisturbedInv
  <1>1. CASE (\E s \in Sims : Simulate(s)) \/ (\E k \in Keys : Timeout(k)) \/ (\E a \in Actors : Deactivate(a))
    <2>1. UNCHANGED <<overlap, crashes>>
      BY <1>1 DEF Simulate, Timeout, Deactivate, world
    <2>2. SerialInv
      BY <2>1 DEF UndisturbedInv, Undisturbed
    <2> QED BY <1>1, <2>2, SerialAround
  <1>2. CASE \E h \in Calls, op \in Operations, a \in Actors, k \in Keys : Start(h, op, a, k)
    <2>1. UNCHANGED <<overlap, crashes>>
      BY <1>2 DEF Start
    <2>2. SerialInv /\ ~overlap
      BY <2>1 DEF UndisturbedInv, Undisturbed
    <2> QED BY <1>2, <2>2, SerialStart
  <1>3. CASE \E h \in Calls : CallStep(h)
    <2>1. UNCHANGED <<overlap, crashes>>
      BY <1>3, CallStepFrame DEF world
    <2>2. SerialInv
      BY <2>1 DEF UndisturbedInv, Undisturbed
    <2> QED BY <1>3, <2>2, SerialCallStep
  <1>4. CASE \E h \in Calls : Crash(h)
    BY <1>4 DEF Crash, Undisturbed, Inv, TypeOK
  <1>5. CASE UNCHANGED vars
    <2> USE <1>5 DEF vars
    <2>1. SerialInv
      BY DEF UndisturbedInv, Undisturbed
    <2>2. OneCall' /\ History' /\ ChangesFinished'
      BY <2>1 DEF SerialInv, OneCall, History, AtVersion, ChangesFinished
    <2>3. \A g \in Calls : call'[g].pc # "idle" => Current(call[g])'
      BY <2>1 DEF SerialInv, Current, Fresh
    <2> QED BY <2>2, <2>3 DEF SerialInv
  <1> QED BY <1>1, <1>2, <1>3, <1>4, <1>5 DEF Next

\* Calls one after the other never apply a simulation twice, however many
\* requests, finalizes and forced applies compete for it: the simulation saw
\* exactly one version, and every change moves the policy on by one.
THEOREM SerialOnce == Spec => []SerialAppliedOnce
  <1>1. Spec => [](Inv /\ UndisturbedInv)
    BY InitInv, NextInv, InitUndisturbed, NextUndisturbed, PTL DEF Spec
  <1>2. Inv /\ UndisturbedInv => SerialAppliedOnce
    BY DEF UndisturbedInv, SerialInv, History, SerialAppliedOnce
  <1> QED BY <1>1, <1>2, PTL

\* Between calls one after the other every change has its version, numbered
\* without a gap, and every change made for a request left it approved.
THEOREM SerialRecorded == Spec => []SerialChangesRecorded
  <1>1. Spec => [](Inv /\ UndisturbedInv)
    BY InitInv, NextInv, InitUndisturbed, NextUndisturbed, PTL DEF Spec
  <1>2. Inv /\ UndisturbedInv => SerialChangesRecorded
    <2> SUFFICES ASSUME Inv, UndisturbedInv, Undisturbed, \A h \in Calls : call[h].pc = "idle"
                 PROVE  /\ Len(versions) = Len(changes)
                        /\ policy.version = Len(changes) + 1
                        /\ \A i \in 1..Len(versions) :
                              versions[i] = [no |-> i + 1, value |-> SimOf[changes[i].key]]
                        /\ \A i \in 1..Len(changes) :
                              changes[i].via # "direct" => approval[changes[i].key].state = "approved"
      BY DEF SerialChangesRecorded
    <2>1. ~AtVersion
      BY DEF AtVersion
    <2>2. History /\ ChangesFinished
      BY DEF UndisturbedInv, SerialInv
    <2> QED BY <2>1, <2>2 DEF History, ChangesFinished
  <1> QED BY <1>1, <1>2, PTL

=============================================================================
