-------------------------- MODULE ExecutionIntents --------------------------
(***************************************************************************)
(* The user's execution intents, services/execution_intent_service.py: a   *)
(* preview records an intent under its idempotency key, a submit carries   *)
(* it through SUBMITTED, QUEUED, APPROVED and RELEASED (the auto release   *)
(* runs approve_execution_intent and execute_approved_intent in the same   *)
(* session), and execution opens a paper position or acts on one.          *)
(*                                                                         *)
(* A request is one HTTP request (or scanner dispatch) with its own        *)
(* SQLAlchemy session; a step is what it does between two points another   *)
(* request can see.  The session keeps the status it last loaded: the      *)
(* status checks read that copy, with_for_update locks the row but leaves  *)
(* the copy alone, and a commit sends only columns that differ from it.    *)
(* Transactions are READ COMMITTED, the engine's default.                  *)
(*                                                                         *)
(* A request may fail at every point: an exception, or the death of its    *)
(* process.  Inside the auto release an exception is caught, and the audit *)
(* log written for it commits what the session has changed by then.        *)
(*                                                                         *)
(* The admin service functions (reject, retry, admin cancel, edit and the  *)
(* admin's approve and execute) are left out: every route to them answers  *)
(* 410 Gone (routers/admin_execution.py:121).  So are the admin's stop and *)
(* requeue buttons, which close positions and move rows that are not       *)
(* released to REJECTED, QUEUED or CANCELLED, and                          *)
(* EXECUTION_PREVIEW_FAST_MODE, which gives each intent a random key.      *)
(***************************************************************************)
EXTENDS Integers, Sequences, FiniteSets

CONSTANTS
    Rows,           \* rows of user_execution_intents that are ever inserted
    Keys,           \* canonical payload hashes (one intent_id for each)
    KindOf,         \* [Keys -> Kinds]: the intent_type the payload names
    Previewers, Submitters, Cancellers,   \* the requests of each route
    OpenQty,        \* quantity of a position a released intent opens
    ReverseSizes,   \* quantities a reversal may ask to open instead
    PricesFromRedis \* POSITION_PRICE_FROM_REDIS: the mirror's price may fail

Kinds == {"OPEN_POSITION", "CLOSE_POSITION", "PARTIAL_CLOSE",
          "REVERSE_POSITION", "MOVE_STOP"}

Requests == Previewers \cup Submitters \cup Cancellers

ASSUME IntentConstants ==
    /\ Rows # {} /\ Keys # {}
    /\ KindOf \in [Keys -> Kinds]
    /\ OpenQty \in Nat \ {0}
    /\ ReverseSizes \subseteq Nat \ {0}
    /\ PricesFromRedis \in BOOLEAN

VARIABLES
    intent,         \* [Rows -> IntentRow]: user_execution_intents
    position,       \* paper_positions, in the order they were opened
    session,        \* [Requests -> Session]: what each request holds
    executed,       \* history: [Rows -> [Requests -> Nat]], releases
    torn,           \* history: positions whose last release broke off
    overlap         \* history: two requests were in progress at once

vars == <<intent, position, session, executed, torn, overlap>>

Statuses == {"PREVIEWED", "SUBMITTED", "QUEUED", "APPROVED", "RELEASED",
             "REJECTED", "CANCELLED"}

\* The position an intent acts on (0: a new one) and the quantity it asks for.
Orders == [target : Nat, size : Nat]

\* "unused" has not been inserted, "deleted" has been replaced by a preview.
IntentRow == [status : Statuses \cup {"unused", "deleted"}, key : Keys,
              order : Orders]

\* booked is history: the quantity the intents have closed.  mirror is the
\* positions row that sync_position_state keeps beside this one.
PositionRow == [qty : Nat, open : BOOLEAN, opened : Nat, booked : Nat,
                mirror : [qty : Nat, open : BOOLEAN]]

Phases == {"idle", "previewing", "checking", "submitted", "enqueue", "queued",
           "approve", "approved", "execute", "executing", "cancelling"}

\* A submit or a cancel holds the row and its loaded status, and while it
\* executes the quantity it has seen; a preview holds its key, the row its
\* look-up found, if any, and what it will ask for.
Session == [phase : Phases, row : Rows, loaded : Statuses, seen : Nat,
            key : Keys, found : SUBSET Rows, order : Orders]

Live(i) == intent[i].status \in Statuses

\* Written rows block the other writers: SELECT ... FOR UPDATE in
\* execute_approved_intent holds the row until its commit.
Unlocked(i) == \A r \in Requests :
    ~(session[r].phase = "executing" /\ session[r].row = i)

Idle == [phase |-> "idle", row |-> CHOOSE i \in Rows : TRUE,
         loaded |-> "PREVIEWED", seen |-> 0, key |-> CHOOSE k \in Keys : TRUE,
         found |-> {}, order |-> [target |-> 0, size |-> 0]]

Goto(r, phase) == session' = [session EXCEPT ![r].phase = phase]

\* A request begins, alone or with others under way.
Begin(r) ==
    overlap' = (overlap \/ \E q \in Requests : session[q].phase # "idle")

\* The request ends, with an answer or with an exception.
Finish(r) == session' = [session EXCEPT ![r] = Idle]

\* A commit of status new from r's session: SQLAlchemy updates the column
\* only when it differs from the loaded copy.
WriteStatus(r, new) ==
    LET i == session[r].row IN
    /\ Live(i) /\ Unlocked(i)
    /\ intent' = IF session[r].loaded = new THEN intent
                 ELSE [intent EXCEPT ![i].status = new]

\* An exception or a crash, wherever the request is: its row was deleted by a
\* preview meanwhile, the safety gate or commercial control raises, a service
\* is down, the process dies.  What was not committed is lost.
Fail(r) ==
    /\ session[r].phase # "idle"
    /\ Finish(r)
    /\ UNCHANGED <<intent, position, executed, torn, overlap>>

-----------------------------------------------------------------------------
(* preview_execution_intent *)

OpenPositions == {p \in DOMAIN position : position[p].open}

\* The size a payload may ask of a position: a partial close is cut to the
\* quantity, a reversal may open more or less than it closes.
Sizes(kind, qty) ==
    CASE kind = "PARTIAL_CLOSE" -> 1..qty
      [] kind = "REVERSE_POSITION" -> ReverseSizes \cup {qty}
      [] OTHER -> {qty}

\* What the payload asks of which open position.
Order(k) ==
    IF KindOf[k] = "OPEN_POSITION" THEN {[target |-> 0, size |-> OpenQty]}
    ELSE UNION {{[target |-> p, size |-> n] :
                    n \in Sizes(KindOf[k], position[p].qty)} : p \in OpenPositions}

\* Faulty: an executed intent can be replaced by a new preview too.
ReplaceableDone == {"PREVIEWED", "REJECTED", "CANCELLED", "RELEASED"}

Replaceable == {"PREVIEWED", "REJECTED", "CANCELLED"}

RowsOf(k) == {i \in Rows : Live(i) /\ intent[i].key = k}

\* The checks and the look-up by intent_id; an intent that is already on its
\* way is reported as a duplicate and nothing changes.
PreviewRead(r, k) ==
    /\ r \in Previewers /\ session[r].phase = "idle"
    /\ \A i \in RowsOf(k) : intent[i].status \in Replaceable
    /\ \E order \in Order(k) :
          session' = [session EXCEPT ![r].phase = "previewing", ![r].key = k,
                                     ![r].found = RowsOf(k),
                                     ![r].order = order]
    /\ Begin(r)
    /\ UNCHANGED <<intent, position, executed, torn>>

Unused == {i \in Rows : intent[i].status = "unused"}

\* The delete of the row found, the insert and the commit.  A second row with
\* this intent_id breaks the unique constraint and rolls both back.
PreviewWrite(r) ==
    LET me == session[r]
    IN  /\ me.phase = "previewing"
        /\ \A i \in me.found : Unlocked(i)
        /\ \/ /\ RowsOf(me.key) \subseteq me.found
              /\ Unused # {}
              /\ \E verdict \in {"PREVIEWED", "REJECTED"} :
                    intent' = [i \in Rows |->
                        IF i = CHOOSE n \in Unused : TRUE
                        THEN [status |-> verdict, key |-> me.key,
                              order |-> me.order]
                        ELSE IF i \in me.found
                             THEN [intent[i] EXCEPT !.status = "deleted"]
                             ELSE intent[i]]
           \/ /\ ~(RowsOf(me.key) \subseteq me.found)
              /\ UNCHANGED intent
        /\ Finish(r)
        /\ UNCHANGED <<position, executed, torn, overlap>>

-----------------------------------------------------------------------------
(* submit_execution_intent *)

\* Faulty: an intent that has been queued before can be submitted again.
SubmitReadAgain(r, i) ==
    /\ r \in Submitters /\ session[r].phase = "idle"
    /\ intent[i].status \in {"PREVIEWED", "QUEUED", "RELEASED"}
    /\ session' = [session EXCEPT ![r].phase = "checking", ![r].row = i,
                                  ![r].loaded = "PREVIEWED"]
    /\ Begin(r)
    /\ UNCHANGED <<intent, position, executed, torn>>

\* The intent is read, without a lock, and its status checked.
SubmitRead(r, i) ==
    /\ r \in Submitters /\ session[r].phase = "idle"
    /\ intent[i].status = "PREVIEWED"
    /\ session' = [session EXCEPT ![r].phase = "checking", ![r].row = i,
                                  ![r].loaded = "PREVIEWED"]
    /\ Begin(r)
    /\ UNCHANGED <<intent, position, executed, torn>>

\* The wallet, the pipeline or the order precheck says no.
SubmitReject(r) ==
    /\ session[r].phase = "checking"
    /\ WriteStatus(r, "REJECTED")
    /\ Finish(r)
    /\ UNCHANGED <<position, executed, torn, overlap>>

\* The checks passed; the status read before them is not looked at again.
SubmitAccept(r) ==
    /\ session[r].phase = "checking"
    /\ WriteStatus(r, "SUBMITTED")
    /\ Goto(r, "submitted")
    /\ UNCHANGED <<position, executed, torn, overlap>>

\* db.refresh(intent) after each of the commits.
AfterRefresh == [submitted |-> "enqueue", queued |-> "approve",
                 approved |-> "execute"]

Refresh(r) ==
    /\ session[r].phase \in DOMAIN AfterRefresh
    /\ Live(session[r].row)
    /\ session' = [session EXCEPT
                      ![r].phase = AfterRefresh[session[r].phase],
                      ![r].loaded = intent[session[r].row].status]
    /\ UNCHANGED <<intent, position, executed, torn, overlap>>

Enqueue(r) ==
    /\ session[r].phase = "enqueue"
    /\ WriteStatus(r, "QUEUED")
    /\ Goto(r, "queued")
    /\ UNCHANGED <<position, executed, torn, overlap>>

\* Faulty: the auto release goes straight to RELEASED.
ApproveReleases(r) ==
    /\ session[r].phase = "approve"
    /\ session[r].loaded = "QUEUED"
    /\ WriteStatus(r, "RELEASED")
    /\ Goto(r, "approved")
    /\ UNCHANGED <<position, executed, torn, overlap>>

Approve(r) ==
    /\ session[r].phase = "approve"
    /\ session[r].loaded = "QUEUED"
    /\ WriteStatus(r, "APPROVED")
    /\ Goto(r, "approved")
    /\ UNCHANGED <<position, executed, torn, overlap>>

-----------------------------------------------------------------------------
(* execute_approved_intent *)

\* The row is locked, the loaded status checked, and for a position action the
\* open position read, without a lock.
ExecuteBegin(r) ==
    LET i == session[r].row
        p == intent[i].order.target
    IN  /\ session[r].phase = "execute"
        /\ session[r].loaded = "APPROVED"
        /\ Live(i) /\ Unlocked(i)
        /\ p # 0 => position[p].open
        /\ session' = [session EXCEPT ![r].phase = "executing",
                            ![r].seen = IF p = 0 THEN 0 ELSE position[p].qty]
        /\ UNCHANGED <<intent, position, executed, torn, overlap>>

NewPosition(qty) ==
    [qty |-> qty, open |-> TRUE, opened |-> qty, booked |-> 0,
     mirror |-> [qty |-> qty, open |-> TRUE]]

\* Faulty: a partial close is not limited to what is left.
ClosedUncapped(kind, size, seen) ==
    CASE kind \in {"CLOSE_POSITION", "REVERSE_POSITION"} -> seen
      [] kind = "PARTIAL_CLOSE" -> size
      [] OTHER -> 0

\* The quantity a position action closes of the seen quantity.
Closed(kind, size, seen) ==
    CASE kind \in {"CLOSE_POSITION", "REVERSE_POSITION"} -> seen
      [] kind = "PARTIAL_CLOSE" -> IF size < seen THEN size ELSE seen
      [] OTHER -> 0

\* Faulty: a partial close that leaves nothing keeps the mirror open.
ActOnKeepsMirror(row, kind, size, seen) ==
    LET n == Closed(kind, size, seen)
        left == seen - n
    IN  [row EXCEPT !.qty = IF n = 0 THEN @ ELSE left,
                    !.open = IF left = 0 THEN FALSE ELSE @,
                    !.booked = @ + n,
                    !.mirror = [qty |-> left, open |-> TRUE]]

\* The position row after the commit: the columns the session changed, from
\* what it had seen.  sync_position_state copies the session's view of the
\* position to the mirror.
ActOn(row, kind, size, seen) ==
    LET n == Closed(kind, size, seen)
        left == seen - n
    IN  [row EXCEPT !.qty = IF n = 0 THEN @ ELSE left,
                    !.open = IF left = 0 THEN FALSE ELSE @,
                    !.booked = @ + n,
                    !.mirror = [qty |-> left, open |-> left # 0]]

\* _open_position_from_intent and _apply_position_action_intent.
Positions(k, order, seen) ==
    LET kind == KindOf[k]
        acted == [position EXCEPT ![order.target] =
                                        ActOn(@, kind, order.size, seen)]
    IN  CASE kind = "OPEN_POSITION" -> Append(position, NewPosition(order.size))
          [] kind = "REVERSE_POSITION" -> Append(acted, NewPosition(order.size))
          [] OTHER -> acted

\* The position and the RELEASED status are committed together.
ExecuteCommit(r) ==
    LET i == session[r].row
    IN  /\ session[r].phase = "executing"
        /\ position' = Positions(intent[i].key, intent[i].order,
                                 session[r].seen)
        /\ intent' = [intent EXCEPT ![i].status = "RELEASED"]
        /\ executed' = [executed EXCEPT ![i][r] = @ + 1]
        /\ torn' = IF KindOf[intent[i].key] = "OPEN_POSITION" THEN torn
                   ELSE torn \ {intent[i].order.target}
        /\ UNCHANGED overlap
        /\ Finish(r)

\* A position acted on, or opened, whose mirror was not written.
Unsynced(row, mirror) == [row EXCEPT !.mirror = mirror]

NoMirror == [qty |-> 0, open |-> FALSE]

\* What a position action that breaks off leaves to be committed.  The price of
\* a reversal's new leg is read when the old one is closed already; with
\* prices from Redis sync_position_state may raise, too, after the flush of the
\* position, and a new position has no positions row then.
BrokenOff(k, order, seen) ==
    LET p == order.target
        acted == [position EXCEPT ![p] = Unsynced(
                     ActOn(@, KindOf[k], order.size, seen), position[p].mirror)]
        reversed == Append(acted, Unsynced(NewPosition(order.size), NoMirror))
    IN  {after \in {acted, reversed} :
            IF KindOf[k] = "REVERSE_POSITION"
            THEN after = acted \/ PricesFromRedis
            ELSE after = acted /\ PricesFromRedis}

\* EXECUTION_AUTO_RELEASE_FAILED after the position was changed: the audit log
\* commits the session with what it has changed, and the intent stays APPROVED.
ReleaseBreaksOff(r) ==
    LET i == session[r].row
        p == intent[i].order.target
    IN  /\ session[r].phase = "executing"
        /\ p # 0
        /\ position' \in BrokenOff(intent[i].key, intent[i].order, session[r].seen)
        /\ torn' = torn \cup {p} \cup (DOMAIN position' \ DOMAIN position)
        /\ UNCHANGED <<intent, executed, overlap>>
        /\ Finish(r)

-----------------------------------------------------------------------------
(* cancel_execution_intent *)

\* Faulty: a released intent can be cancelled.
CancelReadReleased(r, i) ==
    /\ r \in Cancellers /\ session[r].phase = "idle"
    /\ Live(i)
    /\ intent[i].status \notin {"REJECTED", "CANCELLED"}
    /\ session' = [session EXCEPT ![r].phase = "cancelling", ![r].row = i,
                                  ![r].loaded = intent[i].status]
    /\ Begin(r)
    /\ UNCHANGED <<intent, position, executed, torn>>

CancelRead(r, i) ==
    /\ r \in Cancellers /\ session[r].phase = "idle"
    /\ Live(i)
    /\ intent[i].status \notin {"RELEASED", "REJECTED", "CANCELLED"}
    /\ session' = [session EXCEPT ![r].phase = "cancelling", ![r].row = i,
                                  ![r].loaded = intent[i].status]
    /\ Begin(r)
    /\ UNCHANGED <<intent, position, executed, torn>>

CancelWrite(r) ==
    /\ session[r].phase = "cancelling"
    /\ WriteStatus(r, "CANCELLED")
    /\ Finish(r)
    /\ UNCHANGED <<position, executed, torn, overlap>>

-----------------------------------------------------------------------------

Init ==
    /\ intent = [i \in Rows |-> [status |-> "unused", key |-> Idle.key,
                                 order |-> Idle.order]]
    /\ position = <<>>
    /\ session = [r \in Requests |-> Idle]
    /\ executed = [i \in Rows |-> [r \in Requests |-> 0]]
    /\ torn = {}
    /\ overlap = FALSE

Submit(r) ==
    \/ \E i \in Rows : SubmitRead(r, i)
    \/ SubmitReject(r) \/ SubmitAccept(r)
    \/ Refresh(r) \/ Enqueue(r) \/ Approve(r)
    \/ ExecuteBegin(r) \/ ExecuteCommit(r) \/ ReleaseBreaksOff(r)

Next == \E r \in Requests :
    \/ \E k \in Keys : PreviewRead(r, k)
    \/ PreviewWrite(r)
    \/ Submit(r)
    \/ \E i \in Rows : CancelRead(r, i)
    \/ CancelWrite(r)
    \/ Fail(r)

Spec == Init /\ [][Next]_vars

-----------------------------------------------------------------------------
(* Properties *)

\* Every variable stays in its type.
TypeOK ==
    /\ intent \in [Rows -> IntentRow]
    /\ position \in Seq(PositionRow)
    /\ session \in [Requests -> Session]
    /\ executed \in [Rows -> [Requests -> Nat]]
    /\ torn \subseteq DOMAIN position
    /\ overlap \in BOOLEAN
    /\ \A i \in Rows : intent[i].order.target \in 0..Len(position)

Executions(i) == {r \in Requests : executed[i][r] > 0}

\* A client that waits for the answer of a submit before it sends the next one
\* executes an intent at most once, whatever cancels, previews and other
\* clients do to the row in between: the row never goes back to PREVIEWED.
SubmitOnce == \A i \in Rows, r \in Requests : executed[i][r] <= 1

\* An intent is RELEASED only with the position its execution opened or acted
\* on, whatever stale statuses other sessions write.
ReleasedWasExecuted ==
    \A i \in Rows : intent[i].status = "RELEASED" => Executions(i) # {}

\* The statuses EXECUTION_INTENT_ALLOWED_TRANSITIONS ends at.
Terminal == {"RELEASED", "CANCELLED"}

\* RELEASED and CANCELLED have no way out but the replacement of a cancelled
\* intent by a new preview.
TerminalKept ==
    \A i \in Rows : intent[i].status \in Terminal =>
       \/ intent'[i].status = intent[i].status
       \/ intent[i].status = "CANCELLED" /\ intent'[i].status = "deleted"

\* The canonical payload is released once, however often it is previewed and
\* submitted: the duplicate check lets only unreleased intents be replaced.
OneExecutionPerKey ==
    \A i, j \in Rows :
        /\ Executions(i) # {} /\ Executions(j) # {}
        /\ intent[i].key = intent[j].key
        => i = j /\ Cardinality(Executions(i)) = 1

\* What the closes, partial closes and reversals have booked and what
\* is left of a position add up to what was opened, and no more is closed than
\* was opened.
QuantityConserved ==
    \A p \in DOMAIN position :
        /\ position[p].qty + position[p].booked = position[p].opened
        /\ position[p].booked <= position[p].opened

\* The positions row agrees with the paper position it mirrors, unless the last
\* release that acted on the position broke off before it was synced.
MirrorAgrees ==
    \A p \in DOMAIN position \ torn :
        position[p].mirror = [qty |-> position[p].qty, open |-> position[p].open]

-----------------------------------------------------------------------------
(* What holds as long as no two requests have ever overlapped;             *)
(* OneExecutionPerKey does not hold of racing requests, see the run        *)
(* IntentDoubleSubmit.                                                     *)

\* Of requests one after the other a canonical payload is released once,
\* however often they preview, submit and cancel it and wherever they fail.  A
\* release that broke off does not count: its intent can be cancelled,
\* previewed and submitted once more.
SerialOneExecutionPerKey == overlap \/ OneExecutionPerKey

\* Of requests one after the other the closes, partial closes and reversals add
\* up, also where they fail half-way, and only a release that broke off leaves
\* a positions row that disagrees, until the next release on that position.
SerialBooksAgree == overlap \/ (QuantityConserved /\ MirrorAgrees)

\* Requests one after the other never move a released or cancelled intent on.
SerialTerminalIsFinal == [][overlap \/ TerminalKept]_vars

=============================================================================
