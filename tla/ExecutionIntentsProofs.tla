----------------------- MODULE ExecutionIntentsProofs -----------------------
(***************************************************************************)
(* Safety of ExecutionIntents for every set of rows, payloads and requests *)
(* of each route, also where one request may take several routes.          *)
(***************************************************************************)
EXTENDS ExecutionIntents, FiniteSetTheorems, TLAPS

-----------------------------------------------------------------------------
(* The inductive invariants *)

\* The phases of a submit that has read its intent.
Working == {"checking", "submitted", "enqueue", "queued", "approve", "approved",
            "execute", "executing"}

SessionTargets ==
    \A r \in Requests : session[r].order.target \in 0 .. Len(position)

\* A request that has executed a row is through with it, and the row is not
\* one that a submit of the request could read again.
ThroughWith ==
    \A i \in Rows, r \in Requests :
        /\ executed[i][r] \in {0, 1}
        /\ executed[i][r] = 1 =>
              /\ intent[i].status \notin {"unused", "PREVIEWED"}
              /\ session[r].phase \in Working => session[r].row # i

Inv == TypeOK /\ SessionTargets /\ ThroughWith /\ ReleasedWasExecuted

\* The unique constraint on intent_id.
UniqueLive ==
    \A i, j \in Rows :
        Live(i) /\ Live(j) /\ intent[i].key = intent[j].key => i = j

\* The row lock of an execution keeps its row from being replaced.
ExecutingLive ==
    \A r \in Requests : session[r].phase = "executing" => Live(session[r].row)

LiveInv == Inv /\ UniqueLive /\ ExecutingLive

OneBusy ==
    \A r, q \in Requests :
        session[r].phase # "idle" /\ session[q].phase # "idle" => r = q

\* What a request that no other overlaps knows of the tables.
Fresh(s) ==
    LET i == s.row
        p == intent[i].order.target
    IN  /\ s.phase = "previewing" =>
              s.found = RowsOf(s.key)
              /\ \A n \in s.found : intent[n].status \in Replaceable
        /\ s.phase = "checking" => intent[i].status = "PREVIEWED"
        /\ s.phase \in {"submitted", "enqueue"} => intent[i].status = "SUBMITTED"
        /\ s.phase \in {"queued", "approve"} => intent[i].status = "QUEUED"
        /\ s.phase \in {"approved", "execute", "executing"} =>
              intent[i].status = "APPROVED"
        /\ s.phase = "cancelling" =>
              intent[i].status \in {"PREVIEWED", "SUBMITTED", "QUEUED", "APPROVED"}
        /\ s.phase \in {"checking", "enqueue", "approve", "execute", "cancelling"} =>
              s.loaded = intent[i].status
        /\ s.phase = "executing" /\ p # 0 =>
              position[p].open /\ s.seen = position[p].qty

\* A row that was executed is RELEASED, and one request has done it.
ExecutedReleased ==
    \A i \in Rows, r \in Requests :
        executed[i][r] # 0 =>
           /\ intent[i].status = "RELEASED"
           /\ \A q \in Requests : executed[i][q] # 0 => q = r

SerialFacts ==
    /\ OneBusy
    /\ \A r \in Requests : Fresh(session[r])
    /\ ExecutedReleased
    /\ QuantityConserved /\ MirrorAgrees

SerialInv == LiveInv /\ (overlap \/ SerialFacts)

-----------------------------------------------------------------------------
(* The parts of a step *)

LEMMA IdleSession ==
  /\ Idle \in Session /\ Idle.phase = "idle"
  /\ Idle.order = [target |-> 0, size |-> 0]
<1>1. (CHOOSE i \in Rows : TRUE) \in Rows
  BY IntentConstants
<1>2. (CHOOSE k \in Keys : TRUE) \in Keys
  BY IntentConstants
<1> QED
  BY <1>1, <1>2 DEF Idle, Session, Phases, Statuses, Orders

LEMMA InitInv == Init => Inv
<1> SUFFICES ASSUME Init PROVE Inv
  OBVIOUS
<1>1. Idle.key \in Keys /\ Idle.order \in Orders /\ Idle.order.target = 0
  BY IdleSession DEF Session
<1>2. TypeOK
  <2>1. intent \in [Rows -> IntentRow]
    BY <1>1 DEF Init, IntentRow
  <2>2. position \in Seq(PositionRow) /\ Len(position) = 0
    BY DEF Init
  <2>3. session \in [Requests -> Session]
    BY IdleSession DEF Init
  <2>4. \A i \in Rows : intent[i].order.target \in 0 .. Len(position)
    BY <1>1, <2>2 DEF Init
  <2>5. torn \subseteq DOMAIN position
    BY DEF Init
  <2> QED
    BY <2>1, <2>2, <2>3, <2>4, <2>5 DEF Init, TypeOK
<1>3. SessionTargets
  BY <1>1 DEF Init, SessionTargets
<1>4. ThroughWith
  BY DEF Init, ThroughWith
<1>5. ReleasedWasExecuted
  BY DEF Init, ReleasedWasExecuted
<1> QED
  BY <1>2, <1>3, <1>4, <1>5 DEF Inv

\* What a step may do to the rows when nothing is executed.
Gentle(rows) ==
    /\ rows \in [Rows -> IntentRow]
    /\ \A i \in Rows :
          /\ rows[i].order.target \in 0 .. Len(position)
          /\ rows[i].status \in {"unused", "PREVIEWED"} =>
                intent[i].status \in {"unused", "PREVIEWED"}
          /\ rows[i].status = "RELEASED" => intent[i].status = "RELEASED"

\* A request goes on to s without executing anything.
LEMMA StepInv ==
  ASSUME Inv, NEW r \in Requests, NEW s \in Session,
         session' = [session EXCEPT ![r] = s],
         Gentle(intent'),
         UNCHANGED <<position, executed, torn>>, overlap' \in BOOLEAN,
         s.order.target \in 0 .. Len(position),
         s.phase \in Working =>
            \/ session[r].phase \in Working /\ session[r].row = s.row
            \/ intent[s.row].status = "PREVIEWED"
  PROVE  Inv'
<1> USE DEF Inv
<1>1. session'[r] = s /\ \A q \in Requests \ {r} : session'[q] = session[q]
  BY DEF TypeOK
<1>2. TypeOK'
  BY DEF TypeOK, Gentle
<1>3. SessionTargets'
  BY <1>1 DEF SessionTargets
<1>4. ThroughWith'
  <2> SUFFICES ASSUME NEW i \in Rows, NEW q \in Requests
               PROVE  /\ executed'[i][q] \in {0, 1}
                      /\ executed'[i][q] = 1 =>
                            /\ intent'[i].status \notin {"unused", "PREVIEWED"}
                            /\ session'[q].phase \in Working => session'[q].row # i
    BY DEF ThroughWith
  <2>1. executed'[i][q] = executed[i][q]
    OBVIOUS
  <2>2. CASE q # r
    BY <1>1, <2>1, <2>2 DEF ThroughWith, Gentle
  <2>3. CASE q = r
    BY <1>1, <2>1, <2>3 DEF ThroughWith, Gentle
  <2> QED
    BY <2>2, <2>3
<1>5. ReleasedWasExecuted'
  BY DEF ReleasedWasExecuted, Executions, Gentle
<1> QED
  BY <1>2, <1>3, <1>4, <1>5

LEMMA SameRows == ASSUME Inv, UNCHANGED intent PROVE Gentle(intent')
  BY DEF Inv, TypeOK, Gentle

\* The statuses WriteStatus is called with.
Written == {"REJECTED", "SUBMITTED", "QUEUED", "APPROVED", "CANCELLED"}

LEMMA WrittenRows ==
  ASSUME Inv, NEW r \in Requests, NEW new \in Written, WriteStatus(r, new)
  PROVE  /\ Gentle(intent')
         /\ \A n \in Rows : n # session[r].row => intent'[n] = intent[n]
         /\ intent'[session[r].row].key = intent[session[r].row].key
         /\ intent'[session[r].row].order = intent[session[r].row].order
         /\ session[r].loaded = intent[session[r].row].status \/ session[r].loaded # new =>
               intent'[session[r].row].status = new
<1>1. PICK i \in Rows : i = session[r].row
  BY DEF Inv, TypeOK, Session
<1>2. CASE session[r].loaded = new
  BY <1>1, <1>2, SameRows DEF WriteStatus
<1>3. CASE session[r].loaded # new
  <2>1. PICK row \in IntentRow : row = intent[i]
    BY DEF Inv, TypeOK
  <2> DEFINE w == [row EXCEPT !.status = new]
  <2>2. w \in IntentRow /\ w.status = new /\ w.key = row.key /\ w.order = row.order
    BY DEF IntentRow, Statuses, Written
  <2>3. intent' = [intent EXCEPT ![i] = w]
    BY <1>1, <1>3, <2>1 DEF WriteStatus
  <2> HIDE DEF w
  <2>4. intent'[i] = w /\ \A n \in Rows : n # i => intent'[n] = intent[n]
    BY <2>3 DEF Inv, TypeOK
  <2>5. intent' \in [Rows -> IntentRow]
    BY <2>2, <2>3 DEF Inv, TypeOK
  <2>6. Gentle(intent')
    BY <2>1, <2>2, <2>4, <2>5 DEF Gentle, Inv, TypeOK, Written
  <2> QED
    BY <1>1, <2>1, <2>2, <2>4, <2>6
<1> QED
  BY <1>2, <1>3

\* The phase of r changes and the rest of its session stays.
LEMMA GotoMoves ==
  ASSUME TypeOK, NEW r \in Requests, NEW phase \in Phases, Goto(r, phase)
  PROVE  \E s \in Session :
            /\ session' = [session EXCEPT ![r] = s]
            /\ s.phase = phase
            /\ s.row = session[r].row /\ s.loaded = session[r].loaded
            /\ s.order = session[r].order
<1>1. PICK me \in Session : me = session[r]
  BY DEF TypeOK
<1> DEFINE s == [me EXCEPT !.phase = phase]
<1>2. /\ s \in Session /\ s.phase = phase /\ s.row = me.row
      /\ s.loaded = me.loaded /\ s.order = me.order
  BY DEF Session
<1>3. session' = [session EXCEPT ![r] = s]
  BY <1>1 DEF TypeOK, Goto
<1> HIDE DEF s
<1> QED
  BY <1>1, <1>2, <1>3

\* A request ends without executing anything.
LEMMA FinishInv ==
  ASSUME Inv, NEW r \in Requests, Finish(r), Gentle(intent'),
         UNCHANGED <<position, executed, torn, overlap>>
  PROVE  Inv'
<1>1. session' = [session EXCEPT ![r] = Idle]
  BY DEF Finish
<1>2. 0 \in 0 .. Len(position)
  BY DEF Inv, TypeOK
<1>3. Idle.phase \notin Working /\ Idle.order.target \in 0 .. Len(position)
  BY <1>2, IdleSession DEF Working
<1>4. overlap' \in BOOLEAN
  BY DEF Inv, TypeOK
<1> QED
  BY <1>1, <1>3, <1>4, IdleSession, StepInv

\* A submit goes on to another phase.
LEMMA GotoInv ==
  ASSUME Inv, NEW r \in Requests, NEW phase \in Phases, Goto(r, phase),
         session[r].phase \in Working, Gentle(intent'),
         UNCHANGED <<position, executed, torn, overlap>>
  PROVE  Inv'
<1>1. PICK s \in Session :
         /\ session' = [session EXCEPT ![r] = s]
         /\ s.row = session[r].row /\ s.order = session[r].order
  BY GotoMoves DEF Inv
<1>2. s.order.target \in 0 .. Len(position)
  BY <1>1 DEF Inv, SessionTargets
<1>3. overlap' \in BOOLEAN
  BY DEF Inv, TypeOK
<1> QED
  BY <1>1, <1>2, <1>3, StepInv

LEMMA BeginTyped ==
  ASSUME TypeOK, NEW r \in Requests, Begin(r)
  PROVE  /\ overlap' \in BOOLEAN
         /\ ~overlap' => ~overlap /\ \A q \in Requests : session[q].phase = "idle"
<1>1. (\E q \in Requests : session[q].phase # "idle") \in BOOLEAN
  BY Zenon
<1> QED
  BY <1>1, Zenon DEF TypeOK, Begin

-----------------------------------------------------------------------------
(* The preview *)

\* What a preview may ask for.
LEMMA OrderTyped ==
  ASSUME TypeOK, NEW k \in Keys, NEW order \in Order(k)
  PROVE  order \in Orders /\ order.target \in 0 .. Len(position)
<1>1. OpenQty \in Nat /\ 0 \in 0 .. Len(position)
  BY IntentConstants DEF TypeOK
<1>2. CASE KindOf[k] = "OPEN_POSITION"
  BY <1>1, <1>2 DEF Order, Orders
<1>3. CASE KindOf[k] # "OPEN_POSITION"
  <2>1. PICK p \in OpenPositions : \E n \in Nat : order = [target |-> p, size |-> n]
    <3>1. PICK p \in OpenPositions : \E n \in Sizes(KindOf[k], position[p].qty) :
             order = [target |-> p, size |-> n]
      BY <1>3 DEF Order
    <3>2. position[p].qty \in Nat
      <4>1. p \in 1 .. Len(position)
        BY DEF OpenPositions, TypeOK
      <4>2. position[p] \in PositionRow
        BY <4>1 DEF TypeOK
      <4> QED
        BY <4>2 DEF PositionRow
    <3>3. Sizes(KindOf[k], position[p].qty) \subseteq Nat
      BY <3>2, IntentConstants DEF Sizes
    <3> QED
      BY <3>1, <3>3
  <2>2. p \in 1 .. Len(position)
    BY DEF OpenPositions, TypeOK
  <2>3. p \in Nat /\ p \in 0 .. Len(position)
    BY <2>2 DEF TypeOK
  <2> QED
    BY <2>1, <2>3 DEF Orders
<1> QED
  BY <1>2, <1>3

LEMMA PreviewReadMoves ==
  ASSUME Inv, NEW r \in Requests, NEW k \in Keys, PreviewRead(r, k)
  PROVE  \E s \in Session :
            /\ session' = [session EXCEPT ![r] = s]
            /\ s.phase = "previewing" /\ s.key = k /\ s.found = RowsOf(k)
            /\ s.order.target \in 0 .. Len(position)
<1>1. PICK order \in Order(k) :
         session' = [session EXCEPT ![r].phase = "previewing", ![r].key = k,
                                    ![r].found = RowsOf(k), ![r].order = order]
  BY DEF PreviewRead
<1>2. order \in Orders /\ order.target \in 0 .. Len(position)
  BY OrderTyped DEF Inv
<1>3. PICK me \in Session : me = session[r]
  BY DEF Inv, TypeOK
<1>4. PICK found \in SUBSET Rows : found = RowsOf(k)
  BY DEF RowsOf
<1> DEFINE s == [me EXCEPT !.phase = "previewing", !.key = k, !.found = found,
                           !.order = order]
<1>5. /\ s \in Session /\ s.phase = "previewing" /\ s.key = k
      /\ s.found = found /\ s.order = order
  BY <1>2 DEF Session, Phases
<1>6. session' = [session EXCEPT ![r] = s]
  BY <1>1, <1>3, <1>4 DEF Inv, TypeOK
<1> HIDE DEF s
<1> QED
  BY <1>2, <1>4, <1>5, <1>6

LEMMA PreviewReadInv ==
  ASSUME Inv, NEW r \in Requests, NEW k \in Keys, PreviewRead(r, k)
  PROVE  Inv'
<1>1. PICK s \in Session :
         /\ session' = [session EXCEPT ![r] = s]
         /\ s.phase = "previewing" /\ s.order.target \in 0 .. Len(position)
  BY PreviewReadMoves
<1>2. overlap' \in BOOLEAN /\ Gentle(intent') /\ UNCHANGED <<position, executed, torn>>
  BY BeginTyped, SameRows DEF PreviewRead, Inv
<1>3. s.phase \notin Working
  BY <1>1 DEF Working
<1> QED
  BY <1>1, <1>2, <1>3, StepInv

\* The insert of a preview, with the delete of what it replaces.
LEMMA Inserted ==
  ASSUME Inv, NEW r \in Requests, PreviewWrite(r),
         RowsOf(session[r].key) \subseteq session[r].found
  PROVE  \E n \in Unused, verdict \in {"PREVIEWED", "REJECTED"} :
            \A i \in Rows :
               intent'[i] =
                  IF i = n THEN [status |-> verdict, key |-> session[r].key,
                                 order |-> session[r].order]
                  ELSE IF i \in session[r].found
                       THEN [intent[i] EXCEPT !.status = "deleted"]
                       ELSE intent[i]
<1>1. (CHOOSE n \in Unused : TRUE) \in Unused
  BY DEF PreviewWrite
<1> QED
  BY <1>1 DEF PreviewWrite

LEMMA PreviewWriteInv ==
  ASSUME Inv, NEW r \in Requests, PreviewWrite(r)
  PROVE  Inv'
<1>1. PICK me \in Session : me = session[r]
  BY DEF Inv, TypeOK
<1>2. Gentle(intent')
  <2>1. CASE RowsOf(session[r].key) \subseteq session[r].found
    <3>1. PICK n \in Unused, verdict \in {"PREVIEWED", "REJECTED"} :
             \A i \in Rows :
                intent'[i] =
                   IF i = n THEN [status |-> verdict, key |-> session[r].key,
                                  order |-> session[r].order]
                   ELSE IF i \in session[r].found
                        THEN [intent[i] EXCEPT !.status = "deleted"]
                        ELSE intent[i]
      BY <2>1, Inserted, Zenon
    <3> DEFINE new == [status |-> verdict, key |-> me.key, order |-> me.order]
    <3>2. new \in IntentRow
      BY DEF IntentRow, Session, Statuses
    <3>3. new.order.target \in 0 .. Len(position)
      BY <1>1 DEF Inv, SessionTargets
    <3>4. new.status # "RELEASED"
      OBVIOUS
    <3>5. \A i \in Rows :
             LET old == [intent[i] EXCEPT !.status = "deleted"]
             IN  /\ old \in IntentRow /\ old.status = "deleted"
                 /\ old.order = intent[i].order
      BY DEF Inv, TypeOK, IntentRow
    <3>6. n \in Rows /\ intent[n].status = "unused"
      BY DEF Unused
    <3>7. \A i \in Rows :
             /\ intent'[i] \in IntentRow
             /\ intent'[i].order.target \in 0 .. Len(position)
             /\ intent'[i].status \in {"unused", "PREVIEWED"} =>
                   intent[i].status \in {"unused", "PREVIEWED"}
             /\ intent'[i].status = "RELEASED" => intent[i].status = "RELEASED"
      <4> HIDE DEF new
      <4>1. TAKE i \in Rows
      <4>2. CASE i = n
        BY <1>1, <3>1, <3>2, <3>3, <3>4, <3>6, <4>2 DEF new
      <4>3. CASE i # n /\ i \in me.found
        BY <1>1, <3>1, <3>5, <4>3 DEF Inv, TypeOK
      <4>4. CASE i # n /\ i \notin me.found
        BY <1>1, <3>1, <4>4 DEF Inv, TypeOK
      <4> QED
        BY <4>2, <4>3, <4>4
    <3>8. intent' = [i \in Rows |-> intent'[i]]
      BY <2>1 DEF PreviewWrite
    <3> QED
      BY <3>7, <3>8 DEF Gentle
  <2>2. CASE ~(RowsOf(session[r].key) \subseteq session[r].found)
    BY <2>2, SameRows DEF PreviewWrite
  <2> QED
    BY <2>1, <2>2
<1>3. Finish(r) /\ UNCHANGED <<position, executed, torn, overlap>>
  BY DEF PreviewWrite
<1> QED
  BY <1>2, <1>3, FinishInv

-----------------------------------------------------------------------------
(* Submit and cancel *)

LEMMA SubmitReadMoves ==
  ASSUME Inv, NEW r \in Requests, NEW i \in Rows, SubmitRead(r, i)
  PROVE  \E s \in Session :
            /\ session' = [session EXCEPT ![r] = s]
            /\ s.phase = "checking" /\ s.row = i /\ s.loaded = "PREVIEWED"
            /\ s.order = session[r].order
<1>1. PICK phase \in Phases : phase = "checking"
  BY DEF Phases
<1>2. PICK loaded \in Statuses : loaded = "PREVIEWED"
  BY DEF Statuses, Live, SubmitRead
<1>3. PICK me \in Session : me = session[r]
  BY DEF Inv, TypeOK
<1> DEFINE s == [me EXCEPT !.phase = phase, !.row = i, !.loaded = loaded]
<1>4. /\ s \in Session /\ s.phase = phase /\ s.row = i /\ s.loaded = loaded
      /\ s.order = me.order
  BY DEF Session
<1>5. session' = [session EXCEPT ![r] = s]
  BY <1>1, <1>2, <1>3 DEF SubmitRead, Inv, TypeOK
<1> HIDE DEF s
<1> QED
  BY <1>1, <1>2, <1>3, <1>4, <1>5

LEMMA CancelReadMoves ==
  ASSUME Inv, NEW r \in Requests, NEW i \in Rows, CancelRead(r, i)
  PROVE  \E s \in Session :
            /\ session' = [session EXCEPT ![r] = s]
            /\ s.phase = "cancelling" /\ s.row = i
            /\ s.loaded = intent[i].status
            /\ s.order = session[r].order
<1>1. PICK phase \in Phases : phase = "cancelling"
  BY DEF Phases
<1>2. PICK loaded \in Statuses : loaded = intent[i].status
  BY DEF Statuses, Live, CancelRead
<1>3. PICK me \in Session : me = session[r]
  BY DEF Inv, TypeOK
<1> DEFINE s == [me EXCEPT !.phase = phase, !.row = i, !.loaded = loaded]
<1>4. /\ s \in Session /\ s.phase = phase /\ s.row = i /\ s.loaded = loaded
      /\ s.order = me.order
  BY DEF Session
<1>5. session' = [session EXCEPT ![r] = s]
  BY <1>1, <1>2, <1>3 DEF CancelRead, Inv, TypeOK
<1> HIDE DEF s
<1> QED
  BY <1>1, <1>2, <1>3, <1>4, <1>5

LEMMA SubmitReadInv ==
  ASSUME Inv, NEW r \in Requests, NEW i \in Rows, SubmitRead(r, i)
  PROVE  Inv'
<1>1. PICK s \in Session :
         /\ session' = [session EXCEPT ![r] = s]
         /\ s.row = i /\ s.order = session[r].order
  BY SubmitReadMoves
<1>2. overlap' \in BOOLEAN /\ Gentle(intent') /\ UNCHANGED <<position, executed, torn>>
  BY BeginTyped, SameRows DEF SubmitRead, Inv
<1>3. intent[s.row].status = "PREVIEWED"
  BY <1>1 DEF SubmitRead
<1>4. s.order.target \in 0 .. Len(position)
  BY <1>1 DEF Inv, SessionTargets
<1> QED
  BY <1>1, <1>2, <1>3, <1>4, StepInv

LEMMA CancelReadInv ==
  ASSUME Inv, NEW r \in Requests, NEW i \in Rows, CancelRead(r, i)
  PROVE  Inv'
<1>1. PICK s \in Session :
         /\ session' = [session EXCEPT ![r] = s]
         /\ s.phase = "cancelling" /\ s.order = session[r].order
  BY CancelReadMoves
<1>2. overlap' \in BOOLEAN /\ Gentle(intent') /\ UNCHANGED <<position, executed, torn>>
  BY BeginTyped, SameRows DEF CancelRead, Inv
<1>3. s.phase \notin Working
  BY <1>1 DEF Working
<1>4. s.order.target \in 0 .. Len(position)
  BY <1>1 DEF Inv, SessionTargets
<1> QED
  BY <1>1, <1>2, <1>3, <1>4, StepInv

\* The steps that end a request and leave the tables alone.
LEMMA EndsInv ==
  ASSUME Inv, NEW r \in Requests, Fail(r)
  PROVE  Inv'
<1>1. Finish(r) /\ UNCHANGED <<intent, position, executed, torn, overlap>>
  BY DEF Fail
<1> QED
  BY <1>1, SameRows, FinishInv

\* The steps that end a request with a status.
LEMMA VerdictInv ==
  ASSUME Inv, NEW r \in Requests, SubmitReject(r) \/ CancelWrite(r)
  PROVE  Inv'
<1>1. PICK new \in Written : WriteStatus(r, new)
  BY DEF SubmitReject, CancelWrite, Written
<1>2. Finish(r) /\ UNCHANGED <<position, executed, torn, overlap>>
  BY DEF SubmitReject, CancelWrite
<1> QED
  BY <1>1, <1>2, WrittenRows, FinishInv

\* The steps that move a submit on with a status.
LEMMA AdvanceInv ==
  ASSUME Inv, NEW r \in Requests, SubmitAccept(r) \/ Enqueue(r) \/ Approve(r)
  PROVE  Inv'
<1>1. PICK new \in Written, phase \in Phases :
         WriteStatus(r, new) /\ Goto(r, phase)
  BY DEF SubmitAccept, Enqueue, Approve, Written, Phases
<1>2. session[r].phase \in Working /\ UNCHANGED <<position, executed, torn, overlap>>
  BY DEF SubmitAccept, Enqueue, Approve, Working
<1>3. Gentle(intent')
  BY <1>1, WrittenRows
<1> QED
  BY <1>1, <1>2, <1>3, GotoInv

LEMMA RefreshMoves ==
  ASSUME Inv, NEW r \in Requests, Refresh(r)
  PROVE  \E s \in Session :
            /\ session' = [session EXCEPT ![r] = s]
            /\ \/ session[r].phase = "submitted" /\ s.phase = "enqueue"
               \/ session[r].phase = "queued" /\ s.phase = "approve"
               \/ session[r].phase = "approved" /\ s.phase = "execute"
            /\ s.row = session[r].row /\ s.loaded = intent[s.row].status
            /\ s.order = session[r].order
<1>1. PICK me \in Session : me = session[r]
  BY DEF Inv, TypeOK
<1>2. PICK phase \in Phases :
         /\ phase = AfterRefresh[me.phase]
         /\ \/ me.phase = "submitted" /\ phase = "enqueue"
            \/ me.phase = "queued" /\ phase = "approve"
            \/ me.phase = "approved" /\ phase = "execute"
  BY <1>1 DEF Refresh, AfterRefresh, Phases
<1>3. PICK loaded \in Statuses : loaded = intent[me.row].status
  BY <1>1 DEF Refresh, Live
<1> DEFINE s == [me EXCEPT !.phase = phase, !.loaded = loaded]
<1>4. /\ s \in Session /\ s.phase = phase /\ s.row = me.row
      /\ s.loaded = loaded /\ s.order = me.order
  BY DEF Session
<1>5. session' = [session EXCEPT ![r] = s]
  BY <1>1, <1>2, <1>3 DEF Refresh, Inv, TypeOK
<1> HIDE DEF s
<1> QED
  BY <1>1, <1>2, <1>3, <1>4, <1>5

LEMMA RefreshInv == ASSUME Inv, NEW r \in Requests, Refresh(r) PROVE Inv'
<1>1. PICK s \in Session :
         /\ session' = [session EXCEPT ![r] = s]
         /\ s.row = session[r].row /\ s.order = session[r].order
         /\ session[r].phase \in {"submitted", "queued", "approved"}
  BY RefreshMoves
<1>2. session[r].phase \in Working
  BY <1>1 DEF Working
<1>3. Gentle(intent') /\ UNCHANGED <<position, executed, torn>>
  BY SameRows DEF Refresh
<1>4. overlap' \in BOOLEAN
  BY DEF Refresh, Inv, TypeOK
<1>5. s.order.target \in 0 .. Len(position)
  BY <1>1 DEF Inv, SessionTargets
<1> QED
  BY <1>1, <1>2, <1>3, <1>4, <1>5, StepInv

-----------------------------------------------------------------------------
(* The execution *)

LEMMA ExecuteBeginMoves ==
  ASSUME Inv, NEW r \in Requests, ExecuteBegin(r)
  PROVE  \E s \in Session :
            /\ session' = [session EXCEPT ![r] = s]
            /\ s.phase = "executing"
            /\ s.row = session[r].row /\ s.order = session[r].order
            /\ LET p == intent[s.row].order.target
               IN  p # 0 => position[p].open /\ s.seen = position[p].qty
<1>1. PICK me \in Session : me = session[r]
  BY DEF Inv, TypeOK
<1>2. PICK i \in Rows : i = me.row
  BY DEF Session
<1>3. PICK p \in 0 .. Len(position) : p = intent[i].order.target
  BY DEF Inv, TypeOK
<1>4. PICK n \in Nat : n = IF p = 0 THEN 0 ELSE position[p].qty
  <2>1. CASE p = 0
    BY <2>1
  <2>2. CASE p # 0
    <3>1. p \in 1 .. Len(position)
      BY <2>2 DEF Inv, TypeOK
    <3>2. position[p] \in PositionRow
      BY <3>1 DEF Inv, TypeOK
    <3> QED
      BY <2>2, <3>2 DEF PositionRow
  <2> QED
    BY <2>1, <2>2
<1> DEFINE s == [me EXCEPT !.phase = "executing", !.seen = n]
<1>5. /\ s \in Session /\ s.phase = "executing" /\ s.row = me.row
      /\ s.seen = n /\ s.order = me.order
  BY DEF Session, Phases
<1>6. session' = [session EXCEPT ![r] = s]
  BY <1>1, <1>2, <1>3, <1>4 DEF ExecuteBegin, Inv, TypeOK
<1>7. p # 0 => position[p].open
  BY <1>1, <1>2, <1>3 DEF ExecuteBegin
<1> HIDE DEF s
<1> QED
  BY <1>1, <1>2, <1>3, <1>4, <1>5, <1>6, <1>7

LEMMA ExecuteBeginInv ==
  ASSUME Inv, NEW r \in Requests, ExecuteBegin(r) PROVE Inv'
<1>1. PICK s \in Session :
         /\ session' = [session EXCEPT ![r] = s]
         /\ s.row = session[r].row /\ s.order = session[r].order
  BY ExecuteBeginMoves
<1>2. session[r].phase \in Working
  BY DEF ExecuteBegin, Working
<1>3. Gentle(intent') /\ UNCHANGED <<position, executed, torn>>
  BY SameRows DEF ExecuteBegin
<1>4. overlap' \in BOOLEAN
  BY DEF ExecuteBegin, Inv, TypeOK
<1>5. s.order.target \in 0 .. Len(position)
  BY <1>1 DEF Inv, SessionTargets
<1> QED
  BY <1>1, <1>2, <1>3, <1>4, <1>5, StepInv

\* No more is closed than was seen.
LEMMA ClosedBound ==
  ASSUME NEW kind, NEW size \in Nat, NEW seen \in Nat
  PROVE  Closed(kind, size, seen) \in 0 .. seen
  BY DEF Closed

LEMMA ActOnTyped ==
  ASSUME NEW row \in PositionRow, NEW kind, NEW size \in Nat, NEW seen \in Nat
  PROVE  /\ ActOn(row, kind, size, seen) \in PositionRow
         /\ LET n == Closed(kind, size, seen)
                a == ActOn(row, kind, size, seen)
            IN  /\ a.qty = IF n = 0 THEN row.qty ELSE seen - n
                /\ a.open = IF seen - n = 0 THEN FALSE ELSE row.open
                /\ a.booked = row.booked + n /\ a.opened = row.opened
                /\ a.mirror = [qty |-> seen - n, open |-> seen - n # 0]
<1>1. PICK n \in Nat : n = Closed(kind, size, seen) /\ n <= seen
  BY ClosedBound
<1>2. PICK left \in Nat : left = seen - n
  BY <1>1
<1>3. PICK booked \in Nat : booked = row.booked + n
  BY DEF PositionRow
<1>4. PICK qty \in Nat : qty = IF n = 0 THEN row.qty ELSE left
  BY DEF PositionRow
<1>5. PICK open \in BOOLEAN : open = IF left = 0 THEN FALSE ELSE row.open
  BY DEF PositionRow
<1>6. PICK mopen \in BOOLEAN : mopen = (left # 0)
  OBVIOUS
<1> DEFINE a == [row EXCEPT !.qty = qty, !.open = open, !.booked = booked,
                            !.mirror = [qty |-> left, open |-> mopen]]
<1>7. /\ a \in PositionRow /\ a.qty = qty /\ a.open = open /\ a.booked = booked
      /\ a.opened = row.opened /\ a.mirror = [qty |-> left, open |-> mopen]
  BY DEF PositionRow
<1>8. a = ActOn(row, kind, size, seen)
  BY <1>1, <1>2, <1>3, <1>4, <1>5, <1>6 DEF ActOn
<1> HIDE DEF a
<1> QED
  BY <1>1, <1>2, <1>3, <1>4, <1>5, <1>6, <1>7, <1>8

\* The mirror is not written: the rest of the row is as it would be.
LEMMA UnsyncedTyped ==
  ASSUME NEW row \in PositionRow, NEW mirror \in [qty : Nat, open : BOOLEAN]
  PROVE  LET a == Unsynced(row, mirror)
         IN  /\ a \in PositionRow
             /\ a.qty = row.qty /\ a.open = row.open /\ a.booked = row.booked
             /\ a.opened = row.opened /\ a.mirror = mirror
  BY DEF Unsynced, PositionRow

LEMMA NewPositionTyped ==
  ASSUME NEW n \in Nat
  PROVE  NewPosition(n) \in PositionRow
  BY DEF NewPosition, PositionRow

\* Acting on a position of the list, also with a target that is none.
LEMMA ActedTyped ==
  ASSUME NEW list \in Seq(PositionRow), NEW p \in Nat, NEW kind,
         NEW size \in Nat, NEW seen \in Nat
  PROVE  LET acted == [list EXCEPT ![p] = ActOn(@, kind, size, seen)]
         IN  /\ acted \in Seq(PositionRow) /\ Len(acted) = Len(list)
             /\ \A n \in 1 .. Len(list) :
                   acted[n] = IF n = p THEN ActOn(list[n], kind, size, seen)
                              ELSE list[n]
<1> DEFINE acted == [list EXCEPT ![p] = ActOn(@, kind, size, seen)]
<1>1. DOMAIN list = 1 .. Len(list)
  OBVIOUS
<1>2. \A n \in 1 .. Len(list) :
         acted[n] = IF n = p THEN ActOn(list[n], kind, size, seen) ELSE list[n]
  BY <1>1
<1>3. \A n \in 1 .. Len(list) : acted[n] \in PositionRow
  <2>1. TAKE n \in 1 .. Len(list)
  <2>2. list[n] \in PositionRow
    OBVIOUS
  <2>3. ActOn(list[n], kind, size, seen) \in PositionRow
    BY <2>2, ActOnTyped
  <2> HIDE DEF acted
  <2> QED
    BY <1>2, <2>2, <2>3
<1>4. DOMAIN acted = 1 .. Len(list)
  BY <1>1
<1>5. acted = [n \in 1 .. Len(list) |-> acted[n]]
  BY <1>4
<1> HIDE DEF acted
<1>6. Len(list) \in Nat
  OBVIOUS
<1>7. acted \in Seq(PositionRow) /\ Len(acted) = Len(list)
  BY <1>3, <1>5, <1>6
<1> QED
  BY <1>2, <1>7 DEF acted

LEMMA AppendedRow ==
  ASSUME NEW list \in Seq(PositionRow), NEW row \in PositionRow
  PROVE  LET after == Append(list, row)
         IN  /\ after \in Seq(PositionRow) /\ Len(after) >= Len(list)
             /\ \A n \in 1 .. Len(after) :
                   IF n \in 1 .. Len(list) THEN after[n] = list[n]
                   ELSE after[n] = row
  OBVIOUS

\* Every position after an execution is one that was there, the one acted on,
\* or a new one.
LEMMA PositionsTyped ==
  ASSUME TypeOK, NEW k \in Keys, NEW order \in Orders, NEW seen \in Nat
  PROVE  LET after == Positions(k, order, seen)
         IN  /\ after \in Seq(PositionRow) /\ Len(after) >= Len(position)
             /\ \A n \in 1 .. Len(after) :
                   \/ /\ n \in 1 .. Len(position) /\ after[n] = position[n]
                      /\ n # order.target \/ KindOf[k] = "OPEN_POSITION"
                   \/ /\ n \in 1 .. Len(position) /\ n = order.target
                      /\ after[n] = ActOn(position[n], KindOf[k], order.size, seen)
                   \/ n \notin 1 .. Len(position) /\ after[n] = NewPosition(order.size)
<1>1. PICK p \in Nat, size \in Nat : p = order.target /\ size = order.size
  BY DEF Orders
<1>2. PICK kind : kind = KindOf[k]
  OBVIOUS
<1>3. PICK list \in Seq(PositionRow) : list = position
  BY DEF TypeOK
<1>4. PICK acted \in Seq(PositionRow) :
         /\ acted = [list EXCEPT ![p] = ActOn(@, kind, size, seen)]
         /\ Len(acted) = Len(list)
         /\ \A n \in 1 .. Len(list) :
               acted[n] = IF n = p THEN ActOn(list[n], kind, size, seen)
                          ELSE list[n]
  BY ActedTyped
<1>5. PICK new \in PositionRow : new = NewPosition(size)
  BY NewPositionTyped
<1>6. PICK after : after = Positions(k, order, seen)
  OBVIOUS
<1>7. CASE kind = "OPEN_POSITION"
  <2>1. after = Append(list, new)
    BY <1>1, <1>2, <1>3, <1>5, <1>6, <1>7 DEF Positions
  <2>2. /\ after \in Seq(PositionRow) /\ Len(after) >= Len(list)
        /\ \A n \in 1 .. Len(after) :
              IF n \in 1 .. Len(list) THEN after[n] = list[n] ELSE after[n] = new
    BY <2>1, AppendedRow
  <2> QED
    BY <1>1, <1>2, <1>3, <1>5, <1>6, <1>7, <2>2
<1>8. CASE kind = "REVERSE_POSITION"
  <2>1. after = Append(acted, new)
    BY <1>1, <1>2, <1>3, <1>4, <1>5, <1>6, <1>8 DEF Positions
  <2>2. /\ after \in Seq(PositionRow) /\ Len(after) >= Len(acted)
        /\ \A n \in 1 .. Len(after) :
              IF n \in 1 .. Len(acted) THEN after[n] = acted[n] ELSE after[n] = new
    BY <2>1, AppendedRow
  <2> QED
    BY <1>1, <1>2, <1>3, <1>4, <1>5, <1>6, <2>2
<1>9. CASE kind \notin {"OPEN_POSITION", "REVERSE_POSITION"}
  <2>1. after = acted
    BY <1>1, <1>2, <1>3, <1>4, <1>6, <1>9 DEF Positions
  <2>2. Len(acted) >= Len(list)
    BY <1>4
  <2> QED
    BY <1>1, <1>2, <1>3, <1>4, <1>6, <2>1, <2>2
<1> QED
  BY <1>7, <1>8, <1>9

\* A release that breaks off leaves the other positions, the one it acted on
\* with the mirror it had, and at most one new one without a mirror.
LEMMA BrokenOffTyped ==
  ASSUME TypeOK, NEW k \in Keys, NEW order \in Orders, NEW seen \in Nat,
         order.target \in 1 .. Len(position),
         NEW after \in BrokenOff(k, order, seen)
  PROVE  /\ after \in Seq(PositionRow) /\ Len(after) >= Len(position)
         /\ \A n \in 1 .. Len(after) :
               \/ /\ n \in 1 .. Len(position) /\ after[n] = position[n]
                  /\ n # order.target
               \/ /\ n \in 1 .. Len(position) /\ n = order.target
                  /\ after[n] = Unsynced(ActOn(position[n], KindOf[k], order.size, seen),
                                         position[n].mirror)
               \/ /\ n \notin 1 .. Len(position)
                  /\ after[n] = Unsynced(NewPosition(order.size), NoMirror)
<1>1. PICK p \in Nat, size \in Nat : p = order.target /\ size = order.size
  BY DEF Orders
<1>2. PICK kind : kind = KindOf[k]
  OBVIOUS
<1>3. PICK list \in Seq(PositionRow) : list = position
  BY DEF TypeOK
<1>4. PICK old \in PositionRow : old = list[p]
  BY <1>1, <1>3
<1>5. PICK row \in PositionRow :
         row = Unsynced(ActOn(old, kind, size, seen), old.mirror)
  <2>1. ActOn(old, kind, size, seen) \in PositionRow
    BY ActOnTyped
  <2>2. old.mirror \in [qty : Nat, open : BOOLEAN]
    BY DEF PositionRow
  <2> QED
    BY <2>1, <2>2, UnsyncedTyped
<1>6. PICK acted \in Seq(PositionRow) :
         /\ acted = [list EXCEPT ![p] = row]
         /\ Len(acted) = Len(list)
         /\ \A n \in 1 .. Len(list) : acted[n] = IF n = p THEN row ELSE list[n]
  <2>1. p \in 1 .. Len(list)
    BY <1>1, <1>3
  <2> DEFINE acted == [list EXCEPT ![p] = row]
  <2>2. \A n \in 1 .. Len(list) : acted[n] = IF n = p THEN row ELSE list[n]
    OBVIOUS
  <2>3. DOMAIN acted = 1 .. Len(list)
    OBVIOUS
  <2>4. acted = [n \in 1 .. Len(list) |-> acted[n]]
    BY <2>3
  <2> HIDE DEF acted
  <2>5. \A n \in 1 .. Len(list) : acted[n] \in PositionRow
    BY <2>2
  <2>6. acted \in Seq(PositionRow) /\ Len(acted) = Len(list)
    BY <2>4, <2>5
  <2> QED
    BY <2>2, <2>6 DEF acted
<1>7. PICK new \in PositionRow : new = Unsynced(NewPosition(size), NoMirror)
  <2>1. NoMirror \in [qty : Nat, open : BOOLEAN]
    BY DEF NoMirror
  <2> QED
    BY <2>1, NewPositionTyped, UnsyncedTyped
<1>8. acted = [list EXCEPT ![p] =
                 Unsynced(ActOn(@, kind, size, seen), list[p].mirror)]
  BY <1>4, <1>5, <1>6
<1>9. after \in {acted, Append(acted, new)}
  BY <1>1, <1>2, <1>3, <1>7, <1>8 DEF BrokenOff
<1>10. CASE after = acted
  <2>1. Len(acted) >= Len(list)
    BY <1>6
  <2> QED
    BY <1>1, <1>2, <1>3, <1>4, <1>5, <1>6, <1>10, <2>1
<1>11. CASE after = Append(acted, new)
  <2>1. /\ after \in Seq(PositionRow) /\ Len(after) >= Len(acted)
        /\ \A n \in 1 .. Len(after) :
              IF n \in 1 .. Len(acted) THEN after[n] = acted[n] ELSE after[n] = new
    BY <1>11, AppendedRow
  <2> QED
    BY <1>1, <1>2, <1>3, <1>4, <1>5, <1>6, <1>7, <2>1
<1> QED
  BY <1>9, <1>10, <1>11

\* What the commit of an execution writes.
LEMMA Commits ==
  ASSUME Inv, NEW r \in Requests, ExecuteCommit(r)
  PROVE  \E i \in Rows :
            /\ i = session[r].row
            /\ position' \in Seq(PositionRow) /\ Len(position') >= Len(position)
            /\ torn' \subseteq torn
            /\ intent' \in [Rows -> IntentRow]
            /\ \A n \in Rows : n # i => intent'[n] = intent[n]
            /\ intent'[i].status = "RELEASED"
            /\ intent'[i].key = intent[i].key
            /\ intent'[i].order = intent[i].order
            /\ executed' = [executed EXCEPT ![i][r] = 1]
            /\ executed[i][r] = 0
<1>1. PICK me \in Session : me = session[r]
  BY DEF Inv, TypeOK
<1>2. PICK i \in Rows : i = me.row
  BY DEF Session
<1>3. PICK row \in IntentRow : row = intent[i]
  BY DEF Inv, TypeOK
<1>4. PICK k \in Keys, order \in Orders, seen \in Nat :
         k = row.key /\ order = row.order /\ seen = me.seen
  BY DEF IntentRow, Session
<1>5. position' = Positions(k, order, seen)
  BY <1>1, <1>2, <1>3, <1>4 DEF ExecuteCommit
<1>6. position' \in Seq(PositionRow) /\ Len(position') >= Len(position)
  BY <1>5, PositionsTyped DEF Inv
<1> DEFINE w == [row EXCEPT !.status = "RELEASED"]
<1>7. w \in IntentRow /\ w.status = "RELEASED" /\ w.key = row.key /\ w.order = row.order
  BY DEF IntentRow, Statuses
<1>8. intent' = [intent EXCEPT ![i] = w]
  BY <1>1, <1>2, <1>3 DEF ExecuteCommit
<1> HIDE DEF w
<1>9. /\ intent'[i] = w /\ \A n \in Rows : n # i => intent'[n] = intent[n]
      /\ intent' \in [Rows -> IntentRow]
  BY <1>7, <1>8 DEF Inv, TypeOK
<1>10. executed[i][r] = 0
  BY <1>1, <1>2 DEF Inv, ThroughWith, ExecuteCommit, Working
<1>11. executed' = [executed EXCEPT ![i][r] = 1]
  BY <1>1, <1>2, <1>10 DEF ExecuteCommit, Inv, TypeOK
<1>12. torn' \subseteq torn
  BY DEF ExecuteCommit
<1> QED
  BY <1>1, <1>2, <1>3, <1>6, <1>7, <1>9, <1>10, <1>11, <1>12

LEMMA ExecuteCommitInv ==
  ASSUME Inv, NEW r \in Requests, ExecuteCommit(r) PROVE Inv'
<1>1. PICK i \in Rows :
         /\ i = session[r].row
         /\ position' \in Seq(PositionRow) /\ Len(position') >= Len(position)
         /\ torn' \subseteq torn
         /\ intent' \in [Rows -> IntentRow]
         /\ \A n \in Rows : n # i => intent'[n] = intent[n]
         /\ intent'[i].status = "RELEASED"
         /\ intent'[i].order = intent[i].order
         /\ executed' = [executed EXCEPT ![i][r] = 1]
         /\ executed[i][r] = 0
  BY Commits, Zenon
<1>2. session' = [session EXCEPT ![r] = Idle] /\ UNCHANGED overlap
  BY DEF ExecuteCommit, Finish
<1>3. session'[r] = Idle /\ \A q \in Requests \ {r} : session'[q] = session[q]
  BY <1>2 DEF Inv, TypeOK
<1>4. executed' \in [Rows -> [Requests -> Nat]]
  BY <1>1 DEF Inv, TypeOK
<1>5. \A n \in Rows, q \in Requests :
         executed'[n][q] = IF n = i /\ q = r THEN 1 ELSE executed[n][q]
  BY <1>1 DEF Inv, TypeOK
<1>6. PICK l \in Nat, m \in Nat : l = Len(position) /\ m = Len(position') /\ l <= m
  <2>1. PICK l \in Nat : l = Len(position)
    BY DEF Inv, TypeOK
  <2>2. PICK m \in Nat : m = Len(position')
    BY <1>1
  <2> QED
    BY <1>1, <2>1, <2>2
<1>7. \A n \in Rows : intent'[n].order = intent[n].order
  BY <1>1
<1>8. \A n \in Rows : intent'[n].order.target \in 0 .. m
  <2>1. \A n \in Rows : intent[n].order.target \in 0 .. l
    BY <1>6 DEF Inv, TypeOK
  <2> QED
    BY <1>6, <1>7, <2>1
<1>9. TypeOK'
  <2>1. session' \in [Requests -> Session]
    BY <1>2, IdleSession DEF Inv, TypeOK
  <2>2. torn' \subseteq DOMAIN position'
    <3>1. DOMAIN position = 1 .. l /\ DOMAIN position' = 1 .. m
      BY <1>1, <1>6 DEF Inv, TypeOK
    <3>2. torn \subseteq 1 .. l
      BY <3>1 DEF Inv, TypeOK
    <3> QED
      BY <1>1, <1>6, <3>1, <3>2
  <2> QED
    BY <1>1, <1>2, <1>4, <1>6, <1>8, <2>1, <2>2 DEF Inv, TypeOK
<1>10. SessionTargets'
  <2>1. \A q \in Requests : session[q].order.target \in 0 .. l
    BY <1>6 DEF Inv, SessionTargets
  <2>2. \A q \in Requests : session[q].order.target \in 0 .. m
    BY <1>6, <2>1
  <2>3. Idle.order.target \in 0 .. m
    BY IdleSession
  <2> QED
    BY <1>3, <1>6, <2>2, <2>3 DEF SessionTargets
<1>11. ThroughWith'
  <2> SUFFICES ASSUME NEW n \in Rows, NEW q \in Requests
               PROVE  /\ executed'[n][q] \in {0, 1}
                      /\ executed'[n][q] = 1 =>
                            /\ intent'[n].status \notin {"unused", "PREVIEWED"}
                            /\ session'[q].phase \in Working => session'[q].row # n
    BY DEF ThroughWith
  <2>1. Idle.phase \notin Working
    BY IdleSession DEF Working
  <2>2. CASE q = r
    BY <1>1, <1>3, <1>5, <2>1, <2>2 DEF Inv, ThroughWith
  <2>3. CASE q # r
    BY <1>1, <1>3, <1>5, <2>3 DEF Inv, ThroughWith
  <2> QED
    BY <2>2, <2>3
<1>12. ReleasedWasExecuted'
  <2> SUFFICES ASSUME NEW n \in Rows, intent'[n].status = "RELEASED"
               PROVE  \E q \in Requests : executed'[n][q] > 0
    BY DEF ReleasedWasExecuted, Executions
  <2>1. CASE n = i
    BY <1>5, <2>1
  <2>2. CASE n # i
    BY <1>1, <1>5, <2>2 DEF Inv, ReleasedWasExecuted, Executions
  <2> QED
    BY <2>1, <2>2
<1> QED
  BY <1>9, <1>10, <1>11, <1>12 DEF Inv

\* The positions a release that breaks off leaves.
Torn(kind, p, size, seen) ==
    \A n \in 1 .. Len(position') :
       \/ /\ n \in 1 .. Len(position) /\ position'[n] = position[n]
          /\ n # p
       \/ /\ n \in 1 .. Len(position) /\ n = p
          /\ position'[n] = Unsynced(ActOn(position[n], kind, size, seen),
                                     position[n].mirror)
       \/ /\ n \notin 1 .. Len(position)
          /\ position'[n] = Unsynced(NewPosition(size), NoMirror)

\* What a release that breaks off has written.
LEMMA Breaks ==
  ASSUME Inv, NEW r \in Requests, ReleaseBreaksOff(r)
  PROVE  \E p \in 1 .. Len(position), size \in Nat, seen \in Nat, kind \in Kinds :
            /\ p = intent[session[r].row].order.target /\ seen = session[r].seen
            /\ position' \in Seq(PositionRow) /\ Len(position') >= Len(position)
            /\ Torn(kind, p, size, seen)
            /\ torn' = torn \cup {p} \cup (DOMAIN position' \ DOMAIN position)
<1>1. PICK me \in Session : me = session[r]
  BY DEF Inv, TypeOK
<1>2. PICK i \in Rows : i = me.row
  BY DEF Session
<1>3. PICK row \in IntentRow : row = intent[i]
  BY DEF Inv, TypeOK
<1>4. PICK k \in Keys, order \in Orders, seen \in Nat :
         k = row.key /\ order = row.order /\ seen = me.seen
  BY DEF IntentRow, Session
<1>5. PICK p \in Nat, size \in Nat : p = order.target /\ size = order.size
  BY DEF Orders
<1>6. p \in 1 .. Len(position)
  <2>1. PICK l \in Nat : l = Len(position)
    BY DEF Inv, TypeOK
  <2>2. p \in 0 .. l /\ p # 0
    BY <1>1, <1>2, <1>3, <1>4, <1>5, <2>1 DEF Inv, TypeOK, ReleaseBreaksOff
  <2> QED
    BY <2>1, <2>2
<1>7. position' \in BrokenOff(k, order, seen)
  BY <1>1, <1>2, <1>3, <1>4 DEF ReleaseBreaksOff
<1>8. TypeOK /\ order.target \in 1 .. Len(position)
  BY <1>5, <1>6 DEF Inv
<1>9. /\ position' \in Seq(PositionRow) /\ Len(position') >= Len(position)
      /\ \A n \in 1 .. Len(position') :
            \/ /\ n \in 1 .. Len(position) /\ position'[n] = position[n]
               /\ n # order.target
            \/ /\ n \in 1 .. Len(position) /\ n = order.target
               /\ position'[n] = Unsynced(ActOn(position[n], KindOf[k], order.size, seen),
                                          position[n].mirror)
            \/ /\ n \notin 1 .. Len(position)
               /\ position'[n] = Unsynced(NewPosition(order.size), NoMirror)
  BY <1>7, <1>8, BrokenOffTyped, Zenon
<1>10. torn' = torn \cup {p} \cup (DOMAIN position' \ DOMAIN position)
  BY <1>1, <1>2, <1>3, <1>4, <1>5 DEF ReleaseBreaksOff
<1>11. p = intent[session[r].row].order.target /\ seen = session[r].seen
  BY <1>1, <1>2, <1>3, <1>4, <1>5
<1>12. PICK kind \in Kinds : kind = KindOf[k]
  BY IntentConstants
<1>13. Torn(kind, p, size, seen)
  BY <1>5, <1>9, <1>12, Zenon DEF Torn
<1> QED
  BY <1>6, <1>9, <1>10, <1>11, <1>13

LEMMA BreaksOffInv ==
  ASSUME Inv, NEW r \in Requests, ReleaseBreaksOff(r) PROVE Inv'
<1>1. /\ position' \in Seq(PositionRow) /\ Len(position') >= Len(position)
      /\ torn' \subseteq torn \cup DOMAIN position \cup DOMAIN position'
  <2>1. PICK p \in 1 .. Len(position) :
           /\ position' \in Seq(PositionRow) /\ Len(position') >= Len(position)
           /\ torn' = torn \cup {p} \cup (DOMAIN position' \ DOMAIN position)
    BY Breaks, Zenon
  <2>2. p \in DOMAIN position
    BY <2>1 DEF Inv, TypeOK
  <2> QED
    BY <2>1, <2>2
<1>2. /\ session' = [session EXCEPT ![r] = Idle]
      /\ UNCHANGED <<intent, executed, overlap>>
  BY DEF ReleaseBreaksOff, Finish
<1>3. session'[r] = Idle /\ \A q \in Requests \ {r} : session'[q] = session[q]
  BY <1>2 DEF Inv, TypeOK
<1>4. PICK l \in Nat, m \in Nat : l = Len(position) /\ m = Len(position') /\ l <= m
  <2>1. PICK l \in Nat : l = Len(position)
    BY DEF Inv, TypeOK
  <2>2. PICK m \in Nat : m = Len(position')
    BY <1>1
  <2> QED
    BY <1>1, <2>1, <2>2
<1>5. TypeOK'
  <2>1. session' \in [Requests -> Session]
    BY <1>2, IdleSession DEF Inv, TypeOK
  <2>2. \A n \in Rows : intent'[n].order.target \in 0 .. m
    <3>1. \A n \in Rows : intent[n].order.target \in 0 .. l
      BY <1>4 DEF Inv, TypeOK
    <3> QED
      BY <1>2, <1>4, <3>1
  <2>3. torn' \subseteq DOMAIN position'
    <3>1. DOMAIN position = 1 .. l /\ DOMAIN position' = 1 .. m
      BY <1>1, <1>4 DEF Inv, TypeOK
    <3>2. torn \subseteq 1 .. l
      BY <3>1 DEF Inv, TypeOK
    <3> QED
      BY <1>1, <1>4, <3>1, <3>2
  <2> QED
    BY <1>1, <1>2, <1>4, <2>1, <2>2, <2>3 DEF Inv, TypeOK
<1>6. SessionTargets'
  <2>1. \A q \in Requests : session[q].order.target \in 0 .. l
    BY <1>4 DEF Inv, SessionTargets
  <2>2. \A q \in Requests : session[q].order.target \in 0 .. m
    BY <1>4, <2>1
  <2>3. Idle.order.target \in 0 .. m
    BY IdleSession
  <2> QED
    BY <1>3, <1>4, <2>2, <2>3 DEF SessionTargets
<1>7. ThroughWith'
  <2>1. Idle.phase \notin Working
    BY IdleSession DEF Working
  <2> QED
    BY <1>2, <1>3, <2>1 DEF Inv, ThroughWith
<1>8. ReleasedWasExecuted'
  BY <1>2 DEF Inv, ReleasedWasExecuted, Executions
<1> QED
  BY <1>5, <1>6, <1>7, <1>8 DEF Inv

-----------------------------------------------------------------------------
(* What holds of racing requests, too *)

LEMMA NextInv == Inv /\ [Next]_vars => Inv'
<1> SUFFICES ASSUME Inv, [Next]_vars PROVE Inv'
  OBVIOUS
<1>1. CASE UNCHANGED vars
  BY <1>1 DEF vars, Inv, TypeOK, SessionTargets, ThroughWith,
              ReleasedWasExecuted, Executions
<1>2. ASSUME NEW r \in Requests, Submit(r) PROVE Inv'
  BY <1>2, SubmitReadInv, EndsInv, VerdictInv, AdvanceInv, RefreshInv,
     ExecuteBeginInv, ExecuteCommitInv, BreaksOffInv DEF Submit
<1> QED
  BY <1>1, <1>2, PreviewReadInv, PreviewWriteInv, CancelReadInv, VerdictInv,
     EndsInv DEF Next

THEOREM Invariance == Spec => []Inv
<1>1. Init => Inv
  BY InitInv
<1>2. Inv /\ [Next]_vars => Inv'
  BY NextInv
<1> QED
  BY <1>1, <1>2, PTL DEF Spec

\* The rows, positions and sessions keep their shape: no quantity becomes
\* negative, and an intent only names a position that was opened.
THEOREM IntentsTyped == Spec => []TypeOK
<1>1. Inv => TypeOK
  BY DEF Inv
<1> QED
  BY <1>1, Invariance, PTL

\* Whatever other clients preview, submit and cancel meanwhile, no request
\* executes an intent twice.
THEOREM SubmittedOnce == Spec => []SubmitOnce
<1>1. Inv => SubmitOnce
  BY DEF Inv, ThroughWith, SubmitOnce
<1> QED
  BY <1>1, Invariance, PTL

\* Whatever stale statuses racing sessions write, RELEASED is only ever
\* written with an execution.
THEOREM ReleasedExecuted == Spec => []ReleasedWasExecuted
<1>1. Inv => ReleasedWasExecuted
  BY DEF Inv
<1> QED
  BY <1>1, Invariance, PTL

-----------------------------------------------------------------------------
(* The unique constraint *)

LEMMA InitLive == Init => LiveInv
<1> SUFFICES ASSUME Init PROVE LiveInv
  OBVIOUS
<1>1. \A i \in Rows : ~Live(i)
  BY DEF Init, Live, Statuses
<1>2. \A r \in Requests : session[r].phase # "executing"
  BY IdleSession DEF Init
<1> QED
  BY <1>1, <1>2, InitInv DEF LiveInv, UniqueLive, ExecutingLive

\* A row that is alive was alive, under its key; a row that an execution has
\* locked stays alive.
LEMMA StepLive ==
  ASSUME LiveInv, Inv', NEW r \in Requests, NEW s \in Session,
         session' = [session EXCEPT ![r] = s],
         \A i \in Rows : Live(i)' => Live(i) /\ intent'[i].key = intent[i].key,
         \A i \in Rows : Live(i) => Live(i)' \/ Unlocked(i),
         s.phase = "executing" => Live(s.row)'
  PROVE  LiveInv'
<1>1. UniqueLive'
  BY DEF LiveInv, UniqueLive
<1>2. ASSUME NEW q \in Requests, session'[q].phase = "executing"
      PROVE  Live(session[q].row)'
  <2>1. CASE q = r
    BY <1>2, <2>1 DEF LiveInv, Inv, TypeOK
  <2>2. CASE q # r
    <3>1. session'[q] = session[q] /\ session[q].row \in Rows
      BY <2>2 DEF LiveInv, Inv, TypeOK, Session
    <3>2. Live(session[q].row) /\ ~Unlocked(session[q].row)
      BY <1>2, <3>1 DEF LiveInv, ExecutingLive, Unlocked
    <3> QED
      BY <3>1, <3>2
  <2> QED
    BY <2>1, <2>2
<1> QED
  BY <1>1, <1>2 DEF LiveInv, ExecutingLive

LEMMA SameLive ==
  ASSUME LiveInv, Inv', NEW r \in Requests, NEW s \in Session,
         session' = [session EXCEPT ![r] = s],
         UNCHANGED intent,
         s.phase = "executing" => Live(s.row)
  PROVE  LiveInv'
<1>1. \A i \in Rows : Live(i)' <=> Live(i)
  BY DEF Live
<1>2. s.row \in Rows
  BY DEF Session
<1> QED
  BY <1>1, <1>2, StepLive

LEMMA WrittenLive ==
  ASSUME LiveInv, Inv', NEW r \in Requests, NEW s \in Session,
         NEW new \in Written, WriteStatus(r, new),
         session' = [session EXCEPT ![r] = s],
         s.phase # "executing"
  PROVE  LiveInv'
<1>1. PICK i \in Rows : i = session[r].row
  BY DEF LiveInv, Inv, TypeOK, Session
<1>2. /\ \A n \in Rows : n # i => intent'[n] = intent[n]
      /\ intent'[i].key = intent[i].key
  BY <1>1, WrittenRows DEF LiveInv
<1>3. Live(i)
  BY <1>1 DEF WriteStatus
<1>4. Live(i)'
  <2>1. CASE session[r].loaded = new
    BY <1>1, <1>3, <2>1 DEF WriteStatus, Live
  <2>2. CASE session[r].loaded # new
    <3>1. intent'[i].status = new
      BY <1>1, <2>2, WrittenRows DEF LiveInv
    <3> QED
      BY <3>1 DEF Live, Written, Statuses
  <2> QED
    BY <2>1, <2>2
<1>5. \A n \in Rows : /\ Live(n)' <=> Live(n)
                      /\ intent'[n].key = intent[n].key
  BY <1>2, <1>3, <1>4 DEF Live
<1> QED
  BY <1>5, StepLive

\* The preview that inserts a row deletes every other one with its key.
LEMMA PreviewWriteLive ==
  ASSUME LiveInv, NEW r \in Requests, PreviewWrite(r)
  PROVE  LiveInv'
<1>1. Inv' /\ session' = [session EXCEPT ![r] = Idle]
  BY PreviewWriteInv DEF LiveInv, PreviewWrite, Finish
<1>2. Idle \in Session /\ Idle.phase # "executing"
  BY IdleSession
<1>3. CASE ~(RowsOf(session[r].key) \subseteq session[r].found)
  <2>1. UNCHANGED intent
    BY <1>3 DEF PreviewWrite
  <2> QED
    BY <1>1, <1>2, <2>1, SameLive
<1>4. CASE RowsOf(session[r].key) \subseteq session[r].found
  <2>1. PICK n \in Unused, verdict \in {"PREVIEWED", "REJECTED"} :
           \A i \in Rows :
              intent'[i] =
                 IF i = n THEN [status |-> verdict, key |-> session[r].key,
                                order |-> session[r].order]
                 ELSE IF i \in session[r].found
                      THEN [intent[i] EXCEPT !.status = "deleted"]
                      ELSE intent[i]
    BY <1>4, Inserted, Zenon DEF LiveInv
  <2>2. n \in Rows /\ intent[n].status = "unused" /\ ~Live(n)
    BY DEF Unused, Live, Statuses
  <2>3. intent'[n].key = session[r].key
    <3>1. intent'[n] = [status |-> verdict, key |-> session[r].key,
                        order |-> session[r].order]
      BY <2>1, <2>2
    <3> QED
      BY <3>1
  <2>4. ASSUME NEW i \in Rows, i # n, Live(i)'
        PROVE  /\ Live(i) /\ i \notin session[r].found
               /\ intent'[i] = intent[i]
    <3>1. i \notin session[r].found
      <4> SUFFICES ASSUME i \in session[r].found PROVE FALSE
        OBVIOUS
      <4>1. intent'[i] = [intent[i] EXCEPT !.status = "deleted"]
        BY <2>1, <2>4
      <4>2. intent'[i].status = "deleted"
        BY <4>1 DEF LiveInv, Inv, TypeOK, IntentRow
      <4> QED
        BY <2>4, <4>2 DEF Live, Statuses
    <3>2. intent'[i] = intent[i]
      BY <2>1, <2>4, <3>1
    <3> QED
      BY <2>4, <3>1, <3>2 DEF Live
  <2>5. ASSUME NEW i \in Rows, i # n, Live(i)' PROVE intent'[i].key # session[r].key
    BY <1>4, <2>4, <2>5 DEF RowsOf
  <2>6. UniqueLive'
    <3> SUFFICES ASSUME NEW i \in Rows, NEW j \in Rows, Live(i)', Live(j)',
                        intent'[i].key = intent'[j].key
                 PROVE  i = j
      BY DEF UniqueLive
    <3>1. CASE i = n \/ j = n
      BY <2>3, <2>5, <3>1
    <3>2. CASE i # n /\ j # n
      BY <2>4, <3>2 DEF LiveInv, UniqueLive
    <3> QED
      BY <3>1, <3>2
  <2>7. ASSUME NEW q \in Requests, session'[q].phase = "executing"
        PROVE  Live(session[q].row)'
    <3>1. q # r /\ session'[q] = session[q] /\ session[q].row \in Rows
      BY <1>1, <1>2, <2>7 DEF LiveInv, Inv, TypeOK, Session
    <3>2. PICK i \in Rows : i = session[q].row
      BY <3>1
    <3>3. Live(i) /\ ~Unlocked(i)
      BY <2>7, <3>1, <3>2 DEF LiveInv, ExecutingLive, Unlocked
    <3>4. i # n /\ i \notin session[r].found
      BY <2>2, <3>3 DEF PreviewWrite
    <3>5. intent'[i] = intent[i]
      BY <2>1, <3>4
    <3> QED
      BY <3>1, <3>2, <3>3, <3>5 DEF Live
  <2> QED
    BY <1>1, <2>6, <2>7 DEF LiveInv, ExecutingLive
<1> QED
  BY <1>3, <1>4

LEMMA ExecuteCommitLive ==
  ASSUME LiveInv, NEW r \in Requests, ExecuteCommit(r)
  PROVE  LiveInv'
<1>1. PICK i \in Rows :
         /\ i = session[r].row
         /\ \A n \in Rows : n # i => intent'[n] = intent[n]
         /\ intent'[i].status = "RELEASED"
         /\ intent'[i].key = intent[i].key
  BY Commits, Zenon DEF LiveInv
<1>2. session' = [session EXCEPT ![r] = Idle] /\ Inv'
  BY ExecuteCommitInv DEF LiveInv, ExecuteCommit, Finish
<1>3. Live(i) /\ Live(i)'
  BY <1>1 DEF LiveInv, ExecutingLive, ExecuteCommit, Live, Statuses
<1>4. \A n \in Rows : /\ Live(n)' <=> Live(n)
                      /\ intent'[n].key = intent[n].key
  BY <1>1, <1>3 DEF Live
<1>5. Idle \in Session /\ Idle.phase # "executing"
  BY IdleSession
<1> QED
  BY <1>2, <1>4, <1>5, StepLive

LEMMA EndsLive ==
  ASSUME LiveInv, NEW r \in Requests, Fail(r) \/ ReleaseBreaksOff(r)
  PROVE  LiveInv'
<1>1. session' = [session EXCEPT ![r] = Idle] /\ UNCHANGED intent /\ Inv'
  BY EndsInv, BreaksOffInv DEF LiveInv, Fail, ReleaseBreaksOff, Finish
<1>2. Idle \in Session /\ Idle.phase # "executing"
  BY IdleSession
<1> QED
  BY <1>1, <1>2, SameLive

LEMMA VerdictLive ==
  ASSUME LiveInv, NEW r \in Requests, SubmitReject(r) \/ CancelWrite(r)
  PROVE  LiveInv'
<1>1. PICK new \in Written : WriteStatus(r, new)
  BY DEF SubmitReject, CancelWrite, Written
<1>2. session' = [session EXCEPT ![r] = Idle] /\ Inv'
  BY VerdictInv DEF LiveInv, SubmitReject, CancelWrite, Finish
<1>3. Idle \in Session /\ Idle.phase # "executing"
  BY IdleSession
<1> QED
  BY <1>1, <1>2, <1>3, WrittenLive

LEMMA AdvanceLive ==
  ASSUME LiveInv, NEW r \in Requests, SubmitAccept(r) \/ Enqueue(r) \/ Approve(r)
  PROVE  LiveInv'
<1>1. PICK new \in Written, phase \in Phases \ {"executing"} :
         WriteStatus(r, new) /\ Goto(r, phase)
  BY DEF SubmitAccept, Enqueue, Approve, Written, Phases
<1>2. PICK s \in Session :
         session' = [session EXCEPT ![r] = s] /\ s.phase = phase
  BY <1>1, GotoMoves DEF LiveInv, Inv
<1>3. Inv' /\ s.phase # "executing"
  BY <1>2, AdvanceInv DEF LiveInv
<1> QED
  BY <1>1, <1>2, <1>3, WrittenLive

\* The steps that read, refresh or begin to execute.
LEMMA ReadsLive ==
  ASSUME LiveInv, NEW r \in Requests,
         \/ \E k \in Keys : PreviewRead(r, k)
         \/ \E i \in Rows : SubmitRead(r, i) \/ CancelRead(r, i)
         \/ Refresh(r) \/ ExecuteBegin(r)
  PROVE  LiveInv'
<1>1. Inv'
  BY PreviewReadInv, SubmitReadInv, CancelReadInv, RefreshInv, ExecuteBeginInv
     DEF LiveInv
<1>2. UNCHANGED intent
  BY DEF PreviewRead, SubmitRead, CancelRead, Refresh, ExecuteBegin
<1>3. PICK s \in Session :
         /\ session' = [session EXCEPT ![r] = s]
         /\ s.phase = "executing" => Live(s.row)
  <2>1. ASSUME NEW k \in Keys, PreviewRead(r, k)
        PROVE  \E s \in Session : /\ session' = [session EXCEPT ![r] = s]
                                  /\ s.phase # "executing"
    <3>1. PICK s \in Session :
             session' = [session EXCEPT ![r] = s] /\ s.phase = "previewing"
      BY <2>1, PreviewReadMoves DEF LiveInv
    <3> QED
      BY <3>1
  <2>2. ASSUME NEW i \in Rows, SubmitRead(r, i)
        PROVE  \E s \in Session : /\ session' = [session EXCEPT ![r] = s]
                                  /\ s.phase # "executing"
    <3>1. PICK s \in Session :
             session' = [session EXCEPT ![r] = s] /\ s.phase = "checking"
      BY <2>2, SubmitReadMoves DEF LiveInv
    <3> QED
      BY <3>1
  <2>3. ASSUME NEW i \in Rows, CancelRead(r, i)
        PROVE  \E s \in Session : /\ session' = [session EXCEPT ![r] = s]
                                  /\ s.phase # "executing"
    <3>1. PICK s \in Session :
             session' = [session EXCEPT ![r] = s] /\ s.phase = "cancelling"
      BY <2>3, CancelReadMoves DEF LiveInv
    <3> QED
      BY <3>1
  <2>4. ASSUME Refresh(r)
        PROVE  \E s \in Session : /\ session' = [session EXCEPT ![r] = s]
                                  /\ s.phase # "executing"
    <3>1. PICK s \in Session :
             /\ session' = [session EXCEPT ![r] = s]
             /\ s.phase \in {"enqueue", "approve", "execute"}
      BY <2>4, RefreshMoves DEF LiveInv
    <3> QED
      BY <3>1
  <2>5. ASSUME ExecuteBegin(r)
        PROVE  \E s \in Session : /\ session' = [session EXCEPT ![r] = s]
                                  /\ Live(s.row)
    <3>1. PICK s \in Session :
             session' = [session EXCEPT ![r] = s] /\ s.row = session[r].row
      BY <2>5, ExecuteBeginMoves DEF LiveInv
    <3> QED
      BY <2>5, <3>1 DEF ExecuteBegin
  <2> QED
    BY <2>1, <2>2, <2>3, <2>4, <2>5
<1> QED
  BY <1>1, <1>2, <1>3, SameLive

LEMMA NextLive == LiveInv /\ [Next]_vars => LiveInv'
<1> SUFFICES ASSUME LiveInv, [Next]_vars PROVE LiveInv'
  OBVIOUS
<1>1. CASE UNCHANGED vars
  <2>1. Inv'
    BY <1>1, NextInv DEF LiveInv
  <2> QED
    BY <1>1, <2>1 DEF vars, LiveInv, UniqueLive, ExecutingLive, Live
<1> QED
  BY <1>1, PreviewWriteLive, ExecuteCommitLive, EndsLive, VerdictLive,
     AdvanceLive, ReadsLive DEF Next, Submit

-----------------------------------------------------------------------------
(* Requests one after the other *)

\* A request under way is alone.
LEMMA AloneAtWork ==
  ASSUME SerialFacts, NEW r \in Requests, session[r].phase # "idle"
  PROVE  \A q \in Requests \ {r} : session[q].phase = "idle"
  BY DEF SerialFacts, OneBusy

LEMMA IdleFresh == \A s \in Session : s.phase = "idle" => Fresh(s)
  BY DEF Fresh

\* A lone request goes on to s.
LEMMA StepSerial ==
  ASSUME Inv, SerialFacts, NEW r \in Requests, NEW s \in Session,
         \A q \in Requests \ {r} : session[q].phase = "idle",
         session' = [session EXCEPT ![r] = s],
         Fresh(s)', ExecutedReleased', QuantityConserved', MirrorAgrees'
  PROVE  SerialFacts'
<1>1. session'[r] = s /\ \A q \in Requests \ {r} : session'[q] = session[q]
  BY DEF Inv, TypeOK
<1>2. OneBusy'
  BY <1>1 DEF OneBusy
<1>3. ASSUME NEW q \in Requests PROVE Fresh(session[q])'
  <2>1. CASE q = r
    BY <1>1, <2>1 DEF Fresh
  <2>2. CASE q # r
    <3>1. session'[q].phase = "idle"
      BY <1>1, <2>2
    <3> QED
      BY <3>1 DEF Fresh
  <2> QED
    BY <2>1, <2>2
<1> QED
  BY <1>2, <1>3 DEF SerialFacts

\* The request reads, or ends without a write.
LEMMA QuietSerial ==
  ASSUME Inv, SerialFacts, NEW r \in Requests, NEW s \in Session,
         \A q \in Requests \ {r} : session[q].phase = "idle",
         session' = [session EXCEPT ![r] = s],
         UNCHANGED <<intent, position, executed, torn>>,
         Fresh(s)
  PROVE  SerialFacts' /\ TerminalKept
<1>1. Fresh(s)'
  BY DEF Fresh, RowsOf, Live
<1>2. (ExecutedReleased /\ QuantityConserved /\ MirrorAgrees)'
  BY DEF SerialFacts, ExecutedReleased, QuantityConserved, MirrorAgrees
<1>3. TerminalKept
  BY DEF TerminalKept
<1> QED
  BY <1>1, <1>2, <1>3, StepSerial

\* The request writes the status of its row: what it has loaded is true, and
\* the row is not at its end.
LEMMA WrittenSerial ==
  ASSUME Inv, SerialFacts, NEW r \in Requests, NEW s \in Session,
         NEW new \in Written, WriteStatus(r, new),
         session[r].phase \in {"checking", "enqueue", "approve", "cancelling"},
         session' = [session EXCEPT ![r] = s],
         UNCHANGED <<position, executed, torn>>,
         \/ s.phase = "idle"
         \/ s.phase = "submitted" /\ s.row = session[r].row /\ new = "SUBMITTED"
         \/ s.phase = "queued" /\ s.row = session[r].row /\ new = "QUEUED"
         \/ s.phase = "approved" /\ s.row = session[r].row /\ new = "APPROVED"
  PROVE  SerialFacts' /\ TerminalKept
<1>1. PICK i \in Rows : i = session[r].row
  BY DEF Inv, TypeOK, Session
<1>2. /\ intent[i].status \in {"PREVIEWED", "SUBMITTED", "QUEUED", "APPROVED"}
      /\ session[r].loaded = intent[i].status
  BY <1>1 DEF SerialFacts, Fresh
<1>3. /\ intent'[i].status = new
      /\ \A n \in Rows : n # i => intent'[n] = intent[n]
  BY <1>1, <1>2, WrittenRows
<1>4. \A n \in Rows : intent[n].status \in {"RELEASED", "CANCELLED"} =>
         n # i /\ intent'[n].status = intent[n].status
  BY <1>2, <1>3
<1>5. TerminalKept
  BY <1>4 DEF TerminalKept, Terminal
<1>6. ExecutedReleased'
  BY <1>4 DEF SerialFacts, ExecutedReleased
<1>7. (QuantityConserved /\ MirrorAgrees)'
  BY DEF SerialFacts, QuantityConserved, MirrorAgrees
<1>8. Fresh(s)'
  BY <1>1, <1>3 DEF Fresh
<1>9. \A q \in Requests \ {r} : session[q].phase = "idle"
  BY AloneAtWork
<1> QED
  BY <1>5, <1>6, <1>7, <1>8, <1>9, StepSerial

\* A request that begins alone knows what it has read.
LEMMA BeginsSerial ==
  ASSUME Inv, ~overlap', overlap \/ SerialFacts, NEW r \in Requests,
         \/ \E k \in Keys : PreviewRead(r, k)
         \/ \E i \in Rows : SubmitRead(r, i) \/ CancelRead(r, i)
  PROVE  SerialFacts' /\ TerminalKept
<1>1. /\ Begin(r) /\ UNCHANGED <<intent, position, executed, torn>>
  BY DEF PreviewRead, SubmitRead, CancelRead
<1>2. ~overlap /\ \A q \in Requests : session[q].phase = "idle"
  BY <1>1, BeginTyped DEF Inv
<1>3. PICK s \in Session : session' = [session EXCEPT ![r] = s] /\ Fresh(s)
  <2>1. ASSUME NEW k \in Keys, PreviewRead(r, k)
        PROVE  \E s \in Session :
                  session' = [session EXCEPT ![r] = s] /\ Fresh(s)
    <3>1. PICK s \in Session :
             /\ session' = [session EXCEPT ![r] = s]
             /\ s.phase = "previewing" /\ s.key = k /\ s.found = RowsOf(k)
      BY <2>1, PreviewReadMoves
    <3>2. \A n \in RowsOf(k) : intent[n].status \in Replaceable
      BY <2>1 DEF PreviewRead
    <3>3. Fresh(s)
      BY <3>1, <3>2 DEF Fresh
    <3> QED
      BY <3>1, <3>3
  <2>2. ASSUME NEW i \in Rows, SubmitRead(r, i)
        PROVE  \E s \in Session :
                  session' = [session EXCEPT ![r] = s] /\ Fresh(s)
    <3>1. PICK s \in Session :
             /\ session' = [session EXCEPT ![r] = s]
             /\ s.phase = "checking" /\ s.row = i /\ s.loaded = "PREVIEWED"
      BY <2>2, SubmitReadMoves
    <3>2. Fresh(s)
      BY <2>2, <3>1 DEF Fresh, SubmitRead
    <3> QED
      BY <3>1, <3>2
  <2>3. ASSUME NEW i \in Rows, CancelRead(r, i)
        PROVE  \E s \in Session :
                  session' = [session EXCEPT ![r] = s] /\ Fresh(s)
    <3>1. PICK s \in Session :
             /\ session' = [session EXCEPT ![r] = s]
             /\ s.phase = "cancelling" /\ s.row = i
             /\ s.loaded = intent[i].status
      BY <2>3, CancelReadMoves
    <3>2. intent[i].status \in {"PREVIEWED", "SUBMITTED", "QUEUED", "APPROVED"}
      BY <2>3 DEF CancelRead, Live, Statuses
    <3>3. Fresh(s)
      BY <3>1, <3>2 DEF Fresh
    <3> QED
      BY <3>1, <3>3
  <2> QED
    BY <2>1, <2>2, <2>3
<1> QED
  BY <1>1, <1>2, <1>3, QuietSerial

LEMMA ContinuesSerial ==
  ASSUME Inv, SerialFacts, NEW r \in Requests, Refresh(r) \/ ExecuteBegin(r)
  PROVE  SerialFacts' /\ TerminalKept
<1>1. \A q \in Requests \ {r} : session[q].phase = "idle"
  BY AloneAtWork DEF Refresh, AfterRefresh, ExecuteBegin
<1>2. UNCHANGED <<intent, position, executed, torn>>
  BY DEF Refresh, ExecuteBegin
<1>3. PICK s \in Session : session' = [session EXCEPT ![r] = s] /\ Fresh(s)
  <2>1. ASSUME Refresh(r)
        PROVE  \E s \in Session :
                  session' = [session EXCEPT ![r] = s] /\ Fresh(s)
    <3>1. PICK s \in Session :
             /\ session' = [session EXCEPT ![r] = s]
             /\ \/ session[r].phase = "submitted" /\ s.phase = "enqueue"
                \/ session[r].phase = "queued" /\ s.phase = "approve"
                \/ session[r].phase = "approved" /\ s.phase = "execute"
             /\ s.row = session[r].row /\ s.loaded = intent[s.row].status
      BY <2>1, RefreshMoves
    <3>2. Fresh(s)
      BY <3>1 DEF SerialFacts, Fresh
    <3> QED
      BY <3>1, <3>2
  <2>2. ASSUME ExecuteBegin(r)
        PROVE  \E s \in Session :
                  session' = [session EXCEPT ![r] = s] /\ Fresh(s)
    <3>1. PICK s \in Session :
             /\ session' = [session EXCEPT ![r] = s]
             /\ s.phase = "executing" /\ s.row = session[r].row
             /\ LET p == intent[s.row].order.target
                IN  p # 0 => position[p].open /\ s.seen = position[p].qty
      BY <2>2, ExecuteBeginMoves
    <3>2. intent[s.row].status = "APPROVED"
      BY <2>2, <3>1 DEF SerialFacts, Fresh, ExecuteBegin
    <3>3. Fresh(s)
      BY <3>1, <3>2 DEF Fresh
    <3> QED
      BY <3>1, <3>3
  <2> QED
    BY <2>1, <2>2
<1> QED
  BY <1>1, <1>2, <1>3, QuietSerial

LEMMA EndsSerial ==
  ASSUME Inv, SerialFacts, NEW r \in Requests, Fail(r)
  PROVE  SerialFacts' /\ TerminalKept
<1>1. \A q \in Requests \ {r} : session[q].phase = "idle"
  BY AloneAtWork DEF Fail
<1>2. /\ session' = [session EXCEPT ![r] = Idle]
      /\ UNCHANGED <<intent, position, executed, torn>>
  BY DEF Fail, Finish
<1>3. Idle \in Session /\ Fresh(Idle)
  BY IdleSession, IdleFresh
<1> QED
  BY <1>1, <1>2, <1>3, QuietSerial

LEMMA VerdictSerial ==
  ASSUME Inv, SerialFacts, NEW r \in Requests, SubmitReject(r) \/ CancelWrite(r)
  PROVE  SerialFacts' /\ TerminalKept
<1>1. PICK new \in Written : WriteStatus(r, new)
  BY DEF SubmitReject, CancelWrite, Written
<1>2. /\ session' = [session EXCEPT ![r] = Idle]
      /\ UNCHANGED <<position, executed, torn>>
      /\ session[r].phase \in {"checking", "cancelling"}
  BY DEF SubmitReject, CancelWrite, Finish
<1>3. Idle \in Session /\ Idle.phase = "idle"
  BY IdleSession
<1> QED
  BY <1>1, <1>2, <1>3, WrittenSerial

LEMMA AdvanceSerial ==
  ASSUME Inv, SerialFacts, NEW r \in Requests,
         SubmitAccept(r) \/ Enqueue(r) \/ Approve(r)
  PROVE  SerialFacts' /\ TerminalKept
<1>1. PICK new \in Written, phase \in Phases :
         /\ WriteStatus(r, new) /\ Goto(r, phase)
         /\ \/ phase = "submitted" /\ new = "SUBMITTED"
            \/ phase = "queued" /\ new = "QUEUED"
            \/ phase = "approved" /\ new = "APPROVED"
  BY DEF SubmitAccept, Enqueue, Approve, Written, Phases
<1>2. PICK s \in Session :
         /\ session' = [session EXCEPT ![r] = s]
         /\ s.phase = phase /\ s.row = session[r].row
  BY <1>1, GotoMoves DEF Inv
<1>3. /\ UNCHANGED <<position, executed, torn>>
      /\ session[r].phase \in {"checking", "enqueue", "approve"}
  BY DEF SubmitAccept, Enqueue, Approve
<1> QED
  BY <1>1, <1>2, <1>3, WrittenSerial

LEMMA PreviewWriteSerial ==
  ASSUME Inv, SerialFacts, NEW r \in Requests, PreviewWrite(r)
  PROVE  SerialFacts' /\ TerminalKept
<1>1. /\ session[r].phase = "previewing"
      /\ session' = [session EXCEPT ![r] = Idle]
      /\ UNCHANGED <<position, executed, torn>>
  BY DEF PreviewWrite, Finish
<1>2. \A q \in Requests \ {r} : session[q].phase = "idle"
  BY <1>1, AloneAtWork
<1>3. /\ session[r].found = RowsOf(session[r].key)
      /\ \A n \in session[r].found : intent[n].status \in Replaceable
  BY <1>1 DEF SerialFacts, Fresh
<1>4. PICK n \in Unused, verdict \in {"PREVIEWED", "REJECTED"} :
         \A i \in Rows :
            intent'[i] =
               IF i = n THEN [status |-> verdict, key |-> session[r].key,
                              order |-> session[r].order]
               ELSE IF i \in session[r].found
                    THEN [intent[i] EXCEPT !.status = "deleted"]
                    ELSE intent[i]
  BY <1>3, Inserted, Zenon
<1>5. ASSUME NEW i \in Rows, intent[i].status \in {"RELEASED", "CANCELLED"}
      PROVE  \/ intent'[i].status = intent[i].status
             \/ intent[i].status = "CANCELLED" /\ intent'[i].status = "deleted"
  <2>1. i # n
    BY <1>5 DEF Unused
  <2>2. CASE i \in session[r].found
    <3>1. intent'[i] = [intent[i] EXCEPT !.status = "deleted"]
      BY <1>4, <2>1, <2>2
    <3>2. intent'[i].status = "deleted"
      BY <3>1 DEF Inv, TypeOK, IntentRow
    <3>3. intent[i].status = "CANCELLED"
      BY <1>3, <1>5, <2>2 DEF Replaceable
    <3> QED
      BY <3>2, <3>3
  <2>3. CASE i \notin session[r].found
    BY <1>4, <2>1, <2>3
  <2> QED
    BY <2>2, <2>3
<1>6. TerminalKept
  BY <1>5 DEF TerminalKept, Terminal
<1>7. ExecutedReleased'
  BY <1>1, <1>5 DEF SerialFacts, ExecutedReleased
<1>8. (QuantityConserved /\ MirrorAgrees)'
  BY <1>1 DEF SerialFacts, QuantityConserved, MirrorAgrees
<1>9. Idle \in Session /\ Fresh(Idle)'
  BY IdleSession DEF Fresh
<1> QED
  BY <1>1, <1>2, <1>6, <1>7, <1>8, <1>9, StepSerial

\* What is closed and what is left of a position add up to what was opened.
AddsUp(row) == row.qty + row.booked = row.opened /\ row.booked <= row.opened

Mirrored(row) == row.mirror = [qty |-> row.qty, open |-> row.open]

\* A position acted on with all its quantity in sight stays in balance.
LEMMA ActOnBalanced ==
  ASSUME NEW row \in PositionRow, NEW kind, NEW size \in Nat,
         AddsUp(row), row.open
  PROVE  LET a == ActOn(row, kind, size, row.qty) IN AddsUp(a) /\ Mirrored(a)
<1>1. PICK qty \in Nat, booked \in Nat, opened \in Nat :
         qty = row.qty /\ booked = row.booked /\ opened = row.opened
  BY DEF PositionRow
<1>2. PICK n \in Nat : n = Closed(kind, size, qty) /\ n <= qty
  BY ClosedBound
<1>3. PICK a \in PositionRow : a = ActOn(row, kind, size, qty)
  BY ActOnTyped
<1>4. /\ a.qty = IF n = 0 THEN qty ELSE qty - n
      /\ a.open = IF qty - n = 0 THEN FALSE ELSE row.open
      /\ a.booked = booked + n /\ a.opened = opened
      /\ a.mirror = [qty |-> qty - n, open |-> qty - n # 0]
  <2>1. DOMAIN row = {"qty", "open", "opened", "booked", "mirror"}
    BY DEF PositionRow
  <2> QED
    BY <1>1, <1>2, <1>3, <2>1 DEF ActOn
<1>5. qty + booked = opened
  BY <1>1 DEF AddsUp
<1>6. a.qty = qty - n
  BY <1>2, <1>4
<1>7. AddsUp(a)
  BY <1>2, <1>4, <1>5, <1>6 DEF AddsUp
<1>8. a.open = (qty - n # 0)
  <2>1. CASE qty - n = 0
    BY <1>4, <2>1
  <2>2. CASE qty - n # 0
    BY <1>4, <2>2 DEF PositionRow
  <2> QED
    BY <2>1, <2>2
<1>9. Mirrored(a)
  BY <1>4, <1>6, <1>8 DEF Mirrored
<1> QED
  BY <1>1, <1>3, <1>7, <1>9

LEMMA NewBalanced ==
  ASSUME NEW n \in Nat
  PROVE  /\ AddsUp(NewPosition(n)) /\ Mirrored(NewPosition(n))
         /\ AddsUp(Unsynced(NewPosition(n), NoMirror))
  BY DEF NewPosition, AddsUp, Mirrored, Unsynced

LEMMA BooksBalanced ==
  QuantityConserved /\ MirrorAgrees <=>
     \A p \in DOMAIN position :
        AddsUp(position[p]) /\ (p \notin torn => Mirrored(position[p]))
  BY DEF QuantityConserved, MirrorAgrees, AddsUp, Mirrored

\* A lone execution knows the quantity it acts on.
LEMMA ExecutingKnows ==
  ASSUME SerialFacts, NEW r \in Requests, session[r].phase = "executing",
         NEW p, p = intent[session[r].row].order.target, p # 0
  PROVE  position[p].open /\ session[r].seen = position[p].qty
  BY DEF SerialFacts, Fresh

LEMMA ExecuteCommitBooks ==
  ASSUME Inv, SerialFacts, NEW r \in Requests, ExecuteCommit(r)
  PROVE  (QuantityConserved /\ MirrorAgrees)'
<1>1. PICK me \in Session : me = session[r]
  BY DEF Inv, TypeOK
<1>2. PICK i \in Rows : i = me.row
  BY DEF Session
<1>3. PICK k \in Keys, order \in Orders, seen \in Nat :
         k = intent[i].key /\ order = intent[i].order /\ seen = me.seen
  BY DEF Inv, TypeOK, IntentRow, Session
<1>4. PICK p \in Nat, size \in Nat : p = order.target /\ size = order.size
  BY DEF Orders
<1>5. /\ position' = Positions(k, order, seen)
      /\ torn' = IF KindOf[k] = "OPEN_POSITION" THEN torn ELSE torn \ {p}
  BY <1>1, <1>2, <1>3, <1>4 DEF ExecuteCommit
<1>6. \A n \in DOMAIN position :
         AddsUp(position[n]) /\ (n \notin torn => Mirrored(position[n]))
  BY BooksBalanced DEF SerialFacts
<1>7. p # 0 => position[p].open /\ seen = position[p].qty
  <2>1. session[r].phase = "executing" /\ p = intent[session[r].row].order.target
    BY <1>1, <1>2, <1>3, <1>4 DEF ExecuteCommit
  <2> QED
    BY <1>1, <1>3, <2>1, ExecutingKnows
<1>8. PICK after \in Seq(PositionRow) :
         /\ after = position'
         /\ \A n \in 1 .. Len(after) :
               \/ /\ n \in 1 .. Len(position) /\ after[n] = position[n]
                  /\ n # p \/ KindOf[k] = "OPEN_POSITION"
               \/ /\ n \in 1 .. Len(position) /\ n = p
                  /\ after[n] = ActOn(position[n], KindOf[k], size, seen)
               \/ n \notin 1 .. Len(position) /\ after[n] = NewPosition(size)
  BY <1>4, <1>5, PositionsTyped DEF Inv
<1>9. PICK list \in Seq(PositionRow) : list = position
  BY DEF Inv, TypeOK
<1>10. ASSUME NEW n \in 1 .. Len(after)
       PROVE  AddsUp(after[n]) /\ (n \notin torn' => Mirrored(after[n]))
  <2>1. CASE /\ n \in 1 .. Len(list) /\ after[n] = list[n]
             /\ n # p \/ KindOf[k] = "OPEN_POSITION"
    BY <1>5, <1>6, <1>9, <2>1
  <2>2. CASE /\ n \in 1 .. Len(list) /\ n = p
             /\ after[n] = ActOn(list[n], KindOf[k], size, seen)
    <3>1. PICK row \in PositionRow : row = list[n]
      BY <2>2
    <3>2. AddsUp(row) /\ row.open /\ seen = row.qty
      BY <1>6, <1>7, <1>9, <2>2, <3>1
    <3> QED
      BY <2>2, <3>1, <3>2, ActOnBalanced
  <2>3. CASE after[n] = NewPosition(size)
    BY <2>3, NewBalanced
  <2> QED
    BY <1>8, <1>9, <2>1, <2>2, <2>3
<1>11. \A n \in DOMAIN position' :
          AddsUp(position'[n]) /\ (n \notin torn' => Mirrored(position'[n]))
  <2>1. DOMAIN after = 1 .. Len(after)
    OBVIOUS
  <2> QED
    BY <1>8, <1>10, <2>1
<1> QED
  BY <1>11 DEF QuantityConserved, MirrorAgrees, AddsUp, Mirrored

\* A release that breaks off has closed what it has booked, too, and marks
\* every position whose mirror it did not write.
LEMMA BreaksOffBooks ==
  ASSUME Inv, SerialFacts, NEW r \in Requests, ReleaseBreaksOff(r)
  PROVE  (QuantityConserved /\ MirrorAgrees)'
<1>1. PICK p \in 1 .. Len(position), size \in Nat, seen \in Nat, kind \in Kinds :
         /\ p = intent[session[r].row].order.target /\ seen = session[r].seen
         /\ position' \in Seq(PositionRow) /\ Len(position') >= Len(position)
         /\ Torn(kind, p, size, seen)
         /\ torn' = torn \cup {p} \cup (DOMAIN position' \ DOMAIN position)
  BY Breaks, Zenon
<1>2. PICK list \in Seq(PositionRow) : list = position
  BY DEF Inv, TypeOK
<1>3. PICK after \in Seq(PositionRow) : after = position'
  BY <1>1
<1>4. DOMAIN list = 1 .. Len(list) /\ DOMAIN after = 1 .. Len(after)
  OBVIOUS
<1>5. \A n \in 1 .. Len(list) :
         AddsUp(list[n]) /\ (n \notin torn => Mirrored(list[n]))
  BY <1>2, <1>4, BooksBalanced DEF SerialFacts
<1>6. PICK row \in PositionRow : row = list[p]
  BY <1>1, <1>2
<1>7. AddsUp(row) /\ row.open /\ seen = row.qty
  <2>1. /\ session[r].phase = "executing" /\ p # 0
        /\ p = intent[session[r].row].order.target
    BY <1>1, <1>2 DEF ReleaseBreaksOff
  <2>2. position[p].open /\ seen = position[p].qty
    BY <1>1, <2>1, ExecutingKnows
  <2> QED
    BY <1>1, <1>2, <1>5, <1>6, <2>2
<1>8. AddsUp(Unsynced(ActOn(row, kind, size, seen), row.mirror))
  <2>1. PICK a \in PositionRow : a = ActOn(row, kind, size, seen)
    BY ActOnTyped
  <2>2. AddsUp(a)
    BY <1>7, <2>1, ActOnBalanced
  <2>3. row.mirror \in [qty : Nat, open : BOOLEAN]
    BY DEF PositionRow
  <2>4. LET u == Unsynced(a, row.mirror)
        IN  u.qty = a.qty /\ u.booked = a.booked /\ u.opened = a.opened
    BY <2>3, UnsyncedTyped
  <2> QED
    BY <2>1, <2>2, <2>4 DEF AddsUp
<1>9. ASSUME NEW n \in 1 .. Len(after)
      PROVE  AddsUp(after[n]) /\ (n \notin torn' => Mirrored(after[n]))
  <2>1. CASE n \in 1 .. Len(list) /\ after[n] = list[n] /\ n # p
    BY <1>1, <1>5, <2>1
  <2>2. CASE /\ n = p
             /\ after[n] = Unsynced(ActOn(list[n], kind, size, seen),
                                    list[n].mirror)
    BY <1>1, <1>6, <1>8, <2>2
  <2>3. CASE /\ n \notin 1 .. Len(list)
             /\ after[n] = Unsynced(NewPosition(size), NoMirror)
    <3>1. n \in torn'
      BY <1>1, <1>2, <1>3, <1>4, <2>3
    <3> QED
      BY <2>3, <3>1, NewBalanced
  <2> QED
    BY <1>1, <1>2, <1>3, <2>1, <2>2, <2>3 DEF Torn
<1>10. \A n \in DOMAIN position' :
          AddsUp(position'[n]) /\ (n \notin torn' => Mirrored(position'[n]))
  BY <1>3, <1>4, <1>9
<1> QED
  BY <1>10 DEF QuantityConserved, MirrorAgrees, AddsUp, Mirrored

LEMMA BreaksOffSerial ==
  ASSUME Inv, SerialFacts, NEW r \in Requests, ReleaseBreaksOff(r)
  PROVE  SerialFacts' /\ TerminalKept
<1>1. /\ session[r].phase = "executing" /\ session' = [session EXCEPT ![r] = Idle]
      /\ UNCHANGED <<intent, executed>>
  BY DEF ReleaseBreaksOff, Finish
<1>2. \A q \in Requests \ {r} : session[q].phase = "idle"
  BY <1>1, AloneAtWork
<1>3. ExecutedReleased' /\ TerminalKept
  BY <1>1 DEF SerialFacts, ExecutedReleased, TerminalKept
<1>4. Idle \in Session /\ Fresh(Idle)'
  BY IdleSession DEF Fresh
<1> QED
  BY <1>1, <1>2, <1>3, <1>4, BreaksOffBooks, StepSerial

LEMMA ExecuteCommitSerial ==
  ASSUME Inv, SerialFacts, NEW r \in Requests, ExecuteCommit(r)
  PROVE  SerialFacts' /\ TerminalKept
<1>1. PICK i \in Rows :
         /\ i = session[r].row
         /\ \A n \in Rows : n # i => intent'[n] = intent[n]
         /\ intent'[i].status = "RELEASED"
         /\ executed' = [executed EXCEPT ![i][r] = 1]
         /\ executed[i][r] = 0
  BY Commits, Zenon
<1>2. session[r].phase = "executing" /\ session' = [session EXCEPT ![r] = Idle]
  BY DEF ExecuteCommit, Finish
<1>3. \A q \in Requests \ {r} : session[q].phase = "idle"
  BY <1>2, AloneAtWork
<1>4. intent[i].status = "APPROVED"
  BY <1>1, <1>2 DEF SerialFacts, Fresh
<1>5. \A q \in Requests : executed[i][q] = 0
  BY <1>4 DEF SerialFacts, ExecutedReleased
<1>6. \A n \in Rows, q \in Requests :
         executed'[n][q] = IF n = i /\ q = r THEN 1 ELSE executed[n][q]
  BY <1>1 DEF Inv, TypeOK
<1>7. ExecutedReleased'
  <2> SUFFICES ASSUME NEW n \in Rows, NEW q \in Requests, executed'[n][q] # 0
               PROVE  /\ intent'[n].status = "RELEASED"
                      /\ \A o \in Requests : executed'[n][o] # 0 => o = q
    BY DEF ExecutedReleased
  <2>1. CASE n = i
    BY <1>1, <1>5, <1>6, <2>1
  <2>2. CASE n # i
    BY <1>1, <1>6, <2>2 DEF SerialFacts, ExecutedReleased
  <2> QED
    BY <2>1, <2>2
<1>8. TerminalKept
  BY <1>1, <1>4 DEF TerminalKept, Terminal
<1>9. Idle \in Session /\ Fresh(Idle)'
  BY IdleSession DEF Fresh
<1> QED
  BY <1>2, <1>3, <1>7, <1>8, <1>9, ExecuteCommitBooks, StepSerial

LEMMA InitSerial == Init => SerialInv
<1> SUFFICES ASSUME Init PROVE SerialInv
  OBVIOUS
<1>1. \A r \in Requests : session[r] = Idle
  BY DEF Init
<1>2. OneBusy /\ \A r \in Requests : Fresh(session[r])
  BY <1>1, IdleSession, IdleFresh DEF OneBusy
<1>3. ExecutedReleased
  BY DEF Init, ExecutedReleased
<1>4. QuantityConserved /\ MirrorAgrees
  BY DEF Init, QuantityConserved, MirrorAgrees
<1> QED
  BY <1>2, <1>3, <1>4, InitLive DEF SerialInv, SerialFacts

LEMMA NextSerial ==
  SerialInv /\ [Next]_vars => SerialInv' /\ (overlap \/ TerminalKept \/ UNCHANGED vars)
<1> SUFFICES ASSUME SerialInv, [Next]_vars
             PROVE  SerialInv' /\ (overlap \/ TerminalKept \/ UNCHANGED vars)
  OBVIOUS
<1>1. LiveInv' /\ Inv /\ overlap \in BOOLEAN
  BY NextLive DEF SerialInv, LiveInv, Inv, TypeOK
<1>2. SUFFICES (overlap' \/ SerialFacts') /\ (overlap \/ TerminalKept \/ UNCHANGED vars)
  BY <1>1 DEF SerialInv
<1>3. CASE UNCHANGED vars
  <2>1. UNCHANGED <<intent, position, session, executed, torn, overlap>>
    BY <1>3 DEF vars
  <2>2. ASSUME NEW r \in Requests, Fresh(session[r]) PROVE Fresh(session[r])'
    BY <2>1, <2>2 DEF Fresh, RowsOf, Live
  <2>3. ASSUME SerialFacts PROVE SerialFacts'
    <3>1. OneBusy' /\ ExecutedReleased'
      BY <2>1, <2>3 DEF SerialFacts, OneBusy, ExecutedReleased
    <3>2. QuantityConserved' /\ MirrorAgrees'
      BY <2>1, <2>3 DEF SerialFacts, QuantityConserved, MirrorAgrees
    <3> QED
      BY <2>2, <2>3, <3>1, <3>2 DEF SerialFacts
  <2> QED
    BY <1>3, <2>1, <2>3 DEF SerialInv
<1>4. ASSUME NEW r \in Requests,
             \/ \E k \in Keys : PreviewRead(r, k)
             \/ \E i \in Rows : SubmitRead(r, i) \/ CancelRead(r, i)
      PROVE  (overlap' \/ SerialFacts') /\ (overlap \/ TerminalKept)
  <2>1. TerminalKept
    <3>1. UNCHANGED intent
      BY <1>4 DEF PreviewRead, SubmitRead, CancelRead
    <3> QED
      BY <3>1 DEF TerminalKept
  <2>2. CASE ~overlap'
    BY <1>1, <1>4, <2>1, <2>2, BeginsSerial DEF SerialInv
  <2> QED
    BY <2>1, <2>2
<1>5. ASSUME NEW r \in Requests,
             \/ PreviewWrite(r) \/ CancelWrite(r) \/ Fail(r)
             \/ SubmitReject(r) \/ SubmitAccept(r)
             \/ Refresh(r) \/ Enqueue(r) \/ Approve(r)
             \/ ExecuteBegin(r) \/ ExecuteCommit(r) \/ ReleaseBreaksOff(r)
      PROVE  (overlap' \/ SerialFacts') /\ (overlap \/ TerminalKept)
  <2>1. overlap' = overlap
    BY <1>5 DEF PreviewWrite, CancelWrite, Fail, SubmitReject, SubmitAccept,
                Refresh, Enqueue, Approve, ExecuteBegin, ExecuteCommit,
                ReleaseBreaksOff
  <2>2. ASSUME SerialFacts PROVE SerialFacts' /\ TerminalKept
    BY <1>1, <1>5, <2>2, PreviewWriteSerial, VerdictSerial, EndsSerial,
       AdvanceSerial, ContinuesSerial, ExecuteCommitSerial, BreaksOffSerial
  <2> QED
    BY <2>1, <2>2 DEF SerialInv
<1> QED
  BY <1>3, <1>4, <1>5 DEF Next, Submit

THEOREM SerialInvariance == Spec => []SerialInv
<1>1. Init => SerialInv
  BY InitSerial
<1>2. SerialInv /\ [Next]_vars => SerialInv'
  BY NextSerial
<1> QED
  BY <1>1, <1>2, PTL DEF Spec

\* As long as no two requests overlap, a canonical payload is released by one
\* request and on one row, however often it is previewed, submitted and
\* cancelled.
THEOREM SerialExecutedOnce == Spec => []SerialOneExecutionPerKey
<1>1. SerialInv => SerialOneExecutionPerKey
  <2> SUFFICES ASSUME SerialInv, ~overlap PROVE OneExecutionPerKey
    BY DEF SerialOneExecutionPerKey
  <2> SUFFICES ASSUME NEW i \in Rows, NEW j \in Rows,
                      Executions(i) # {}, Executions(j) # {},
                      intent[i].key = intent[j].key
               PROVE  i = j /\ Cardinality(Executions(i)) = 1
    BY DEF OneExecutionPerKey
  <2>1. ExecutedReleased /\ UniqueLive /\ TypeOK
    BY DEF SerialInv, SerialFacts, LiveInv, Inv
  <2>2. \A n \in Rows, q \in Requests : executed[n][q] > 0 <=> executed[n][q] # 0
    BY <2>1 DEF TypeOK
  <2>3. PICK r \in Requests : executed[i][r] # 0
    BY <2>2 DEF Executions
  <2>4. PICK o \in Requests : executed[j][o] # 0
    BY <2>2 DEF Executions
  <2>5. Live(i) /\ Live(j)
    BY <2>1, <2>3, <2>4 DEF ExecutedReleased, Live, Statuses
  <2>6. i = j
    BY <2>1, <2>5 DEF UniqueLive
  <2>7. Executions(i) = {r}
    BY <2>1, <2>2, <2>3 DEF ExecutedReleased, Executions
  <2> QED
    BY <2>6, <2>7, FS_Singleton
<1> QED
  BY <1>1, SerialInvariance, PTL

\* As long as no two requests overlap, what was closed and what is left of a
\* position add up to what was opened, wherever a request fails, and its
\* positions row mirrors it unless the last release on it broke off.
THEOREM SerialBooks == Spec => []SerialBooksAgree
<1>1. SerialInv => SerialBooksAgree
  BY DEF SerialInv, SerialFacts, SerialBooksAgree
<1> QED
  BY <1>1, SerialInvariance, PTL

\* As long as no two requests overlap, no step moves a released or cancelled
\* intent on, but for the preview that replaces a cancelled one.
THEOREM SerialTerminal == Spec => SerialTerminalIsFinal
<1>1. SerialInv /\ [Next]_vars => [overlap \/ TerminalKept]_vars
  BY NextSerial
<1>2. [][SerialInv /\ SerialInv' /\ [Next]_vars]_vars => [][overlap \/ TerminalKept]_vars
  BY <1>1, PTL
<1> QED
  BY <1>1, SerialInvariance, PTL DEF Spec, SerialTerminalIsFinal

=============================================================================
