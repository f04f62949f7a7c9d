----------------------- MODULE RuntimeEventBusProofs -----------------------
(***************************************************************************)
(* Safety of RuntimeEventBus for every number of intents, retries,         *)
(* operator actions, gate changes and crashes; the promises that need a    *)
(* single consumer say so.                                                 *)
(***************************************************************************)
EXTENDS RuntimeEventBus, SequenceTheorems, FiniteSetTheorems, TLAPS

-----------------------------------------------------------------------------
(* What dispatchers, consumers and operators may rely on *)

\* The unique index: of the dispatches of one decision at most one has an open
\* or committed row.
OneRowPerHash ==
    \A i, j \in Intents :
        /\ i # j /\ HashOf[i] = HashOf[j]
        /\ dispatch[i] \in {"inserted", "published", "committed"}
        => dispatch[j] \notin {"inserted", "published", "committed"}

LedgerSound == \A i \in Intents : ledger[i] # <<>> => Exists(i)

\* An attempt counts once, and an operator's replay allows for one more.
Spare(env) == env.retry < MaxRetry + ops

Counters ==
    /\ ops \in 0..MaxOps
    /\ \A i \in Intents :
          replays[i] + (IF op.act = "replay" /\ op.target = i THEN 1 ELSE 0) <= ops
    /\ \A env \in CopiesIn(queue) \cup CopiesIn(retryQueue) : Spare(env)
    /\ \A e \in Events : /\ failed[e].retryCount <= MaxRetry + ops
                         /\ failed[e].envelope.retry <= MaxRetry + ops

OpSound ==
    /\ op \in {NoOp} \cup [act : {"replayed"}, target : Events]
              \cup [act : {"replay", "finalize"}, target : Intents]
    /\ op.act = "replayed" => HasRow(op.target)
    /\ op.act \in {"replay", "finalize"} => Exists(op.target)

Releasing == {"trim", "release"}
Attempting == {"check", "load", "execute", "commit", "mark", "ack", "fail"}
Handling == Attempting \cup {"park", "record"}

\* The rows of an attempt that reached its commit, and of one that failed.
FullRows == {<<"blocked">>, ExecutionRows}
SomeRows == {<<>>, <<"submitted">>, ExecutionRows}

\* What a consumer holds fits its step: an event is final before it is marked,
\* and rows are added only for an intent that exists.
Fits(step, s) ==
    /\ step \in Handling => s.env \in Envelopes
    /\ step \notin Handling => s.env = NoEnvelope
    /\ step \in Attempting => Spare(s.env)
    /\ s.env.retry <= MaxRetry + ops
    /\ \A env \in CopiesIn(s.batch) \cup CopiesIn(s.deferred) : Spare(env)
    /\ step = "commit" => s.pend \in FullRows
    /\ step \in {"fail", "park", "record"} => s.pend \in SomeRows
    /\ step \notin {"commit", "fail", "park", "record"} => s.pend = <<>>
    /\ step = "execute" \/ s.pend # <<>> => Exists(IntentOf(s.env))
    /\ step \in {"mark", "ack"} => Terminal(IntentOf(s.env))

WorkersSound == \A w \in Workers : Fits(pc[w], sess[w])

Inv == /\ TypeOK /\ OneRowPerHash /\ LedgerSound /\ Counters /\ OpSound
       /\ WorkersSound /\ ProcessedHadEffect

-----------------------------------------------------------------------------
(* The elements of a sequence *)

LEMMA CopiesOf ==
    ASSUME NEW S, NEW s \in Seq(S)
    PROVE  /\ CopiesIn(s) = {s[k] : k \in 1..Len(s)}
           /\ CopiesIn(s) \subseteq S
           /\ Len(s) \in Nat
  <1>1. DOMAIN s = 1..Len(s) /\ Len(s) \in Nat /\ \A k \in 1..Len(s) : s[k] \in S
    BY LenProperties, ElementOfSeq
  <1> QED BY <1>1 DEF CopiesIn

LEMMA NoCopies == CopiesIn(<<>>) = {}
  <1>1. ASSUME NEW S PROVE CopiesIn(<<>>) \subseteq S
    BY EmptySeq, CopiesOf
  <1> QED BY <1>1

LEMMA CopiesAppend ==
    ASSUME NEW S, NEW s \in Seq(S), NEW e \in S
    PROVE  /\ Append(s, e) \in Seq(S)
           /\ CopiesIn(Append(s, e)) = CopiesIn(s) \cup {e}
  <1> DEFINE t == Append(s, e)
  <1>1. /\ t \in Seq(S) /\ Len(t) = Len(s) + 1 /\ t[Len(s) + 1] = e
        /\ \A i \in 1..Len(s) : t[i] = s[i]
    BY AppendProperties
  <1> HIDE DEF t
  <1>2. /\ CopiesIn(t) = {t[k] : k \in 1..Len(t)} /\ CopiesIn(s) = {s[k] : k \in 1..Len(s)}
        /\ Len(s) \in Nat
    BY <1>1, CopiesOf
  <1>3. CopiesIn(t) = CopiesIn(s) \cup {e}
    BY <1>1, <1>2
  <1> QED BY <1>1, <1>3 DEF t

LEMMA CopiesConcat ==
    ASSUME NEW S, NEW s \in Seq(S), NEW t \in Seq(S)
    PROVE  s \o t \in Seq(S) /\ CopiesIn(s \o t) = CopiesIn(s) \cup CopiesIn(t)
  <1>1. s \o t \in Seq(S)
    BY ConcatProperties
  <1>2. Range(s \o t) = Range(s) \cup Range(t)
    BY RangeConcatenation
  <1> QED BY <1>1, <1>2 DEF Range, CopiesIn

\* A sequence in two parts.
LEMMA CopiesSplit ==
    ASSUME NEW S, NEW s \in Seq(S), NEW n \in 0..Len(s)
    PROVE  /\ SubSeq(s, 1, n) \in Seq(S) /\ Len(SubSeq(s, 1, n)) = n
           /\ SubSeq(s, n + 1, Len(s)) \in Seq(S)
           /\ \A k \in 1..n : SubSeq(s, 1, n)[k] = s[k]
           /\ CopiesIn(s) = CopiesIn(SubSeq(s, 1, n)) \cup CopiesIn(SubSeq(s, n + 1, Len(s)))
  <1>1. Len(s) \in Nat /\ \A i \in 1..Len(s) : s[i] \in S
    BY LenProperties, ElementOfSeq
  <1>2. /\ SubSeq(s, 1, n) \in Seq(S) /\ Len(SubSeq(s, 1, n)) = n
        /\ \A i \in 1..n : SubSeq(s, 1, n)[i] = s[i]
    <2>1. \A i \in 1..n : s[i] \in S
      BY <1>1
    <2>2. /\ SubSeq(s, 1, n) \in Seq(S)
          /\ Len(SubSeq(s, 1, n)) = IF 1 <= n THEN n - 1 + 1 ELSE 0
          /\ \A i \in 1..(n - 1 + 1) : SubSeq(s, 1, n)[i] = s[1 + i - 1]
      BY <1>1, <2>1, SubSeqProperties
    <2>3. n \in Nat /\ n - 1 + 1 = n /\ \A i \in 1..n : 1 + i - 1 = i
      BY <1>1
    <2> QED BY <2>2, <2>3
  <1>3. SubSeq(s, n + 1, Len(s)) \in Seq(S)
    <2>1. \A i \in (n + 1)..Len(s) : s[i] \in S
      BY <1>1
    <2> QED BY <1>1, <2>1, SubSeqProperties
  <1>4. SubSeq(s, 1, n) \o SubSeq(s, n + 1, Len(s)) = s
    <2>1. SubSeq(s, 1, n) \o SubSeq(s, n + 1, Len(s)) = SubSeq(s, 1, Len(s))
      <3>1. /\ 1 \in 1..(Len(s) + 1) /\ n \in (1 - 1)..Len(s)
            /\ Len(s) \in n..Len(s)
        BY <1>1
      <3> QED BY <3>1, ConcatAdjacentSubSeq
    <2> QED BY <2>1, SubSeqFull
  <1> QED BY <1>2, <1>3, <1>4, CopiesConcat

LEMMA CopiesOne ==
    ASSUME NEW S, NEW e \in S
    PROVE  <<e>> \in Seq(S) /\ CopiesIn(<<e>>) = {e}
  <1> DEFINE none == <<>>
  <1>1. none \in Seq(S) /\ <<e>> \in Seq(S)
    BY EmptySeq
  <1>2. Append(none, e) = none \o <<e>>
    BY <1>1, AppendIsConcat
  <1>3. none \o <<e>> = <<e>>
    BY <1>1, ConcatEmptySeq
  <1>4. CopiesIn(none) = {}
    BY NoCopies
  <1> HIDE DEF none
  <1>5. CopiesIn(Append(none, e)) = CopiesIn(none) \cup {e}
    BY <1>1, CopiesAppend
  <1> QED BY <1>1, <1>2, <1>3, <1>4, <1>5

LEMMA CopiesHeadTail ==
    ASSUME NEW S, NEW s \in Seq(S), s # <<>>
    PROVE  /\ Head(s) \in S /\ Tail(s) \in Seq(S) /\ Len(Tail(s)) = Len(s) - 1
           /\ Len(s) \in Nat
           /\ CopiesIn(s) = CopiesIn(Tail(s)) \cup {Head(s)}
  <1>1. /\ Head(s) \in S /\ Tail(s) \in Seq(S) /\ Len(Tail(s)) = Len(s) - 1
    BY HeadTailProperties
  <1>2. Len(s) \in Nat /\ Len(s) > 0
    BY EmptySeq
  <1>3. s = <<Head(s)>> \o Tail(s)
    <2>1. SubSeq(s, 1, Len(s)) = <<s[1]>> \o SubSeq(s, 1 + 1, Len(s))
      BY <1>2, SubSeqRecursiveFirst
    <2>2. SubSeq(s, 1, Len(s)) = s /\ Tail(s) = SubSeq(s, 2, Len(s))
      BY SubSeqFull, TailIsSubSeq
    <2>3. Head(s) = s[1]
      BY <1>2, <2>2, HeadTailOfSubSeq
    <2> QED BY <2>1, <2>2, <2>3
  <1> DEFINE first == <<Head(s)>>
             rest  == Tail(s)
  <1>4. first \in Seq(S) /\ CopiesIn(first) = {Head(s)} /\ rest \in Seq(S)
    BY <1>1, CopiesOne
  <1> HIDE DEF first, rest
  <1>5. CopiesIn(first \o rest) = CopiesIn(first) \cup CopiesIn(rest)
    BY <1>4, CopiesConcat
  <1> USE DEF first, rest
  <1> QED BY <1>1, <1>2, <1>3, <1>4, <1>5

LEMMA CopiesFrontLast ==
    ASSUME NEW S, NEW s \in Seq(S), s # <<>>
    PROVE  /\ Seqs!Last(s) \in S /\ Seqs!Front(s) \in Seq(S)
           /\ CopiesIn(s) = CopiesIn(Seqs!Front(s)) \cup {Seqs!Last(s)}
  <1>1. Len(s) \in Nat /\ Len(s) > 0 /\ s[Len(s)] \in S
    BY EmptySeq, ElementOfSeq
  <1>2. SubSeq(s, 1, Len(s)) = SubSeq(s, 1, Len(s) - 1) \o <<s[Len(s)]>>
    BY <1>1, SubSeqRecursiveSecond
  <1>3. Len(s) - 1 \in 0..Len(s)
    BY <1>1
  <1>4. SubSeq(s, 1, Len(s) - 1) \in Seq(S)
    BY <1>3, CopiesSplit
  <1> DEFINE first == SubSeq(s, 1, Len(s) - 1)
             rest  == <<s[Len(s)]>>
  <1>5. first \in Seq(S) /\ rest \in Seq(S) /\ CopiesIn(rest) = {s[Len(s)]}
    BY <1>1, <1>4, CopiesOne
  <1> HIDE DEF first, rest
  <1>6. CopiesIn(first \o rest) = CopiesIn(first) \cup CopiesIn(rest)
    BY <1>5, CopiesConcat
  <1> USE DEF first, rest
  <1>7. SubSeq(s, 1, Len(s)) = s
    BY SubSeqFull
  <1> QED BY <1>1, <1>2, <1>4, <1>5, <1>6, <1>7 DEF Seqs!Last, Seqs!Front

LEMMA MinOfTwo ==
    ASSUME NEW m \in Nat, NEW n \in Nat
    PROVE  Sets!Min({m, n}) \in {m, n} /\ Sets!Min({m, n}) <= m /\ Sets!Min({m, n}) <= n
  <1>1. \E x \in {m, n} : \A y \in {m, n} : x <= y
    OBVIOUS
  <1> QED BY <1>1 DEF Sets!Min

-----------------------------------------------------------------------------
(* The records *)

LEMMA ConstantFacts ==
    /\ MaxRetry \in Nat /\ MaxRetry > 0 /\ ReleaseLimit \in Nat /\ ReleaseLimit > 0
    /\ MaxOps \in Nat /\ MaxToggles \in Nat /\ MaxCrashes \in Nat
    /\ HashOf \in [Intents -> Hashes]
  BY BusConstants

LEMMA EnvelopeFacts ==
    ASSUME NEW env \in Envelopes
    PROVE  /\ env.event \in Events /\ IntentOf(env) \in Intents
           /\ env.retry \in 0..(MaxRetry + MaxOps) /\ env.retry \in Nat
  BY ConstantFacts DEF Envelopes, Events, IntentOf

LEMMA EventFacts ==
    ASSUME NEW i \in Intents, NEW n \in 0..MaxOps
    PROVE  <<i, n>> \in Events /\ <<i, n>>[1] = i
  BY DEF Events

LEMMA EventNotEmpty == ASSUME NEW e \in Events PROVE e # <<>>
  <1>1. PICK i \in Intents, n \in 0..MaxOps : e = <<i, n>>
    BY DEF Events
  <1>2. Len(<<i, n>>) = 2 /\ Len(<<>>) = 0
    OBVIOUS
  <1> QED BY <1>1, <1>2

LEMMA RowFacts ==
    ASSUME NEW row \in FailedRow
    PROVE  /\ row # NoRow => row.envelope \in Envelopes
           /\ row # NoRow => row.status \in {"retrying", "quarantined", "resolved", "dead"}
           /\ row = NoRow <=> row.status = "none"
           /\ row.retryCount \in Nat
  BY ConstantFacts DEF FailedRow, NoRow

LEMMA NoEnvelopeRetry == NoEnvelope.retry = 0
  BY DEF NoEnvelope

\* What an attempt adds to its session.
LEMMA PendingRows ==
    /\ \A rows \in FullRows \cup SomeRows :
          /\ rows \in Seq(Rows)
          /\ \A k, n \in DOMAIN rows :
                rows[k] \in ConsumerRows /\ rows[n] \in ConsumerRows => k = n
    /\ \A rows \in FullRows : \E k \in DOMAIN rows : Final(rows[k])
    /\ \A rows \in FullRows : rows # <<>>
  <1>1. <<"blocked">> \in Seq(Rows) /\ <<"submitted">> \in Seq(Rows) /\ <<>> \in Seq(Rows)
    BY DEF Rows, FinalRows
  <1>2. ExecutionRows \in Seq(Rows)
    BY DEF Rows, FinalRows, ExecutionRows
  <1>3. /\ DOMAIN <<"blocked">> = 1..1 /\ DOMAIN <<"submitted">> = 1..1
        /\ DOMAIN ExecutionRows = 1..2 /\ ExecutionRows[1] = "submitted"
        /\ ExecutionRows[2] = "executed" /\ DOMAIN <<>> = {}
    BY DEF ExecutionRows
  <1>4. ASSUME NEW rows \in FullRows \cup SomeRows, NEW k \in DOMAIN rows, NEW n \in DOMAIN rows,
               rows[k] \in ConsumerRows, rows[n] \in ConsumerRows
        PROVE  k = n
    BY <1>3, <1>4 DEF FullRows, SomeRows, ConsumerRows
  <1>5. ASSUME NEW rows \in FullRows PROVE \E k \in DOMAIN rows : Final(rows[k])
    <2>1. CASE rows = <<"blocked">>
      <3>1. 1 \in DOMAIN rows /\ Final(rows[1])
        BY <1>3, <2>1 DEF Final, FinalRows
      <3> QED BY <3>1
    <2>2. CASE rows = ExecutionRows
      <3>1. 2 \in DOMAIN rows /\ Final(rows[2])
        BY <1>3, <2>2 DEF Final, FinalRows
      <3> QED BY <3>1
    <2> QED BY <2>1, <2>2 DEF FullRows
  <1>6. \A rows \in FullRows : rows # <<>>
    BY <1>3, <1>5
  <1> QED BY <1>1, <1>2, <1>4, <1>5, <1>6 DEF FullRows, SomeRows

-----------------------------------------------------------------------------
(* What every step keeps *)

\* Rows added to an intent's ledger are at its end.
LEMMA LedgerGrows ==
    ASSUME TypeOK, NEW i \in Intents, NEW rows \in Seq(Rows),
           ledger' = [ledger EXCEPT ![i] = @ \o rows]
    PROVE  /\ ledger' \in [Intents -> Seq(Rows)]
           /\ \A j \in Intents : Terminal(j) => Terminal(j)'
           /\ (\E k \in DOMAIN rows : Final(rows[k])) => Terminal(i)'
           /\ \A j \in Intents : j # i => ledger'[j] = ledger[j]
           /\ ledger'[i] = ledger[i] \o rows
           /\ LedgerSound /\ Exists(i) /\ UNCHANGED dispatch => LedgerSound'
  <1>1. /\ ledger[i] \in Seq(Rows) /\ ledger'[i] = ledger[i] \o rows
        /\ \A j \in Intents : j # i => ledger'[j] = ledger[j]
        /\ ledger \in [Intents -> Seq(Rows)]
    BY DEF TypeOK
  <1> DEFINE old == ledger[i]
             new == ledger'[i]
  <1>2. /\ new \in Seq(Rows) /\ Len(new) = Len(old) + Len(rows)
        /\ \A k \in 1..(Len(old) + Len(rows)) :
              new[k] = IF k <= Len(old) THEN old[k] ELSE rows[k - Len(old)]
    BY <1>1, ConcatProperties
  <1>3. /\ Len(old) \in Nat /\ Len(rows) \in Nat /\ DOMAIN old = 1..Len(old)
        /\ DOMAIN rows = 1..Len(rows) /\ DOMAIN new = 1..Len(new)
    BY <1>1, <1>2, LenProperties
  <1>4. ledger' \in [Intents -> Seq(Rows)]
    BY <1>1, <1>2
  <1> HIDE DEF old, new
  <1>5. \A k \in DOMAIN old : k \in DOMAIN new /\ new[k] = old[k]
    BY <1>2, <1>3
  <1>6. \A k \in DOMAIN rows : Len(old) + k \in DOMAIN new /\ new[Len(old) + k] = rows[k]
    BY <1>2, <1>3
  <1> USE DEF old, new
  <1>7. ASSUME NEW j \in Intents, Terminal(j) PROVE Terminal(j)'
    <2>1. CASE j = i
      BY <1>5, <1>7, <2>1 DEF Terminal
    <2>2. CASE j # i
      BY <1>1, <1>7, <2>2 DEF Terminal
    <2> QED BY <2>1, <2>2
  <1>8. ASSUME NEW k \in DOMAIN rows, Final(rows[k]) PROVE Terminal(i)'
    BY <1>6, <1>8 DEF Terminal
  <1>9. ASSUME LedgerSound, Exists(i), UNCHANGED dispatch PROVE LedgerSound'
    BY <1>1, <1>9 DEF LedgerSound, Exists
  <1> QED BY <1>1, <1>4, <1>7, <1>8, <1>9

\* Rows, committed intents and operator actions are never taken back.
Growth ==
    /\ ops <= ops' /\ ops' \in Nat
    /\ \A i \in Intents : Exists(i) => Exists(i)'
    /\ \A i \in Intents : Terminal(i) => Terminal(i)'

LEMMA FitsGrows ==
    ASSUME Inv, Growth, NEW step \in Steps, NEW s \in Session, Fits(step, s)
    PROVE  Fits(step, s)'
  <1>1. ops \in Nat /\ ops' \in Nat /\ ops <= ops'
    BY DEF Inv, Counters, Growth
  <1>2. \A env \in Envelopes : Spare(env) => Spare(env)'
    BY <1>1, EnvelopeFacts, ConstantFacts DEF Spare
  <1>3. \A env \in CopiesIn(s.batch) \cup CopiesIn(s.deferred) : env \in Envelopes
    <2>1. s.batch \in Seq(Envelopes) /\ s.deferred \in Seq(Envelopes)
      BY DEF Session
    <2> QED BY <2>1, CopiesOf
  <1>4. s.env.retry <= MaxRetry + ops => s.env.retry <= MaxRetry + ops'
    <2>1. s.env.retry \in Nat
      BY EnvelopeFacts, NoEnvelopeRetry DEF Session
    <2> QED BY <1>1, <2>1, ConstantFacts
  <1>5. step = "execute" \/ s.pend # <<>> \/ step \in {"mark", "ack"} => s.env \in Envelopes
    BY DEF Fits, Handling, Attempting
  <1>6. s.env \in Envelopes => IntentOf(s.env) \in Intents
    BY EnvelopeFacts
  <1>7. (\A env \in CopiesIn(s.batch) \cup CopiesIn(s.deferred) : Spare(env))'
    BY <1>2, <1>3 DEF Fits
  <1>8. step \in Attempting => Spare(s.env)'
    BY <1>2 DEF Fits, Handling
  <1>9. step = "execute" \/ s.pend # <<>> => Exists(IntentOf(s.env))'
    BY <1>5, <1>6 DEF Fits, Growth
  <1>10. step \in {"mark", "ack"} => Terminal(IntentOf(s.env))'
    BY <1>5, <1>6 DEF Fits, Growth
  <1> QED BY <1>4, <1>7, <1>8, <1>9, <1>10 DEF Fits

\* Of the consumers only w moves.
LEMMA OneMoves ==
    ASSUME Inv, Growth, NEW w \in Workers, NEW step \in Steps, NEW s \in Session,
           pc' = [pc EXCEPT ![w] = step], sess' = [sess EXCEPT ![w] = s],
           Fits(step, s)'
    PROVE  /\ WorkersSound'
           /\ pc' \in [Workers -> Steps] /\ sess' \in [Workers -> Session]
  <1>1. pc \in [Workers -> Steps] /\ sess \in [Workers -> Session]
    BY DEF Inv, TypeOK
  <1>2. ASSUME NEW v \in Workers, NEW p, NEW t, p = pc'[v], t = sess'[v]
        PROVE  Fits(p, t)'
    <2>1. CASE v = w
      BY <1>1, <1>2, <2>1
    <2>2. CASE v # w
      <3>1. p = pc[v] /\ t = sess[v] /\ p \in Steps /\ t \in Session
        BY <1>1, <1>2, <2>2
      <3>2. Fits(p, t)
        BY <3>1 DEF Inv, WorkersSound
      <3> QED BY <3>1, <3>2, FitsGrows
    <2> QED BY <2>1, <2>2
  <1>3. WorkersSound'
    BY <1>2 DEF WorkersSound, Fits, Spare, Exists, Terminal
  <1> QED BY <1>1, <1>3

LEMMA NoneMoves ==
    ASSUME Inv, Growth, UNCHANGED <<pc, sess>>
    PROVE  WorkersSound'
  <1>1. pc \in [Workers -> Steps] /\ sess \in [Workers -> Session]
    BY DEF Inv, TypeOK
  <1>2. ASSUME NEW v \in Workers, NEW p, NEW t, p = pc'[v], t = sess'[v]
        PROVE  Fits(p, t)'
    <2>1. p = pc[v] /\ t = sess[v] /\ p \in Steps /\ t \in Session
      BY <1>1, <1>2
    <2>2. Fits(p, t)
      BY <2>1 DEF Inv, WorkersSound
    <2> QED BY <2>1, <2>2, FitsGrows
  <1> QED BY <1>2 DEF WorkersSound, Fits, Spare, Exists, Terminal

-----------------------------------------------------------------------------
(* One lemma for each kind of step *)

\* A step of consumer w: what it must show of the stores it touches.
LEMMA WorkerStepInv ==
    ASSUME Inv, NEW w \in Workers, NEW step \in Steps, NEW s \in Session,
           pc' = [pc EXCEPT ![w] = step], sess' = [sess EXCEPT ![w] = s],
           UNCHANGED <<dispatch, gateOpen, op, replays, ops>>,
           queue' \in Seq(Envelopes), retryQueue' \in Seq(Envelopes),
           \A env \in CopiesIn(queue') \cup CopiesIn(retryQueue') : Spare(env),
           deadLetter' \subseteq Events, processed' \subseteq Events,
           failed' \in [Events -> FailedRow],
           \A e \in Events : /\ HasRow(e) => HasRow(e)'
                             /\ failed'[e].retryCount <= MaxRetry + ops
                             /\ failed'[e].envelope.retry <= MaxRetry + ops,
           ledger' \in [Intents -> Seq(Rows)], LedgerSound',
           \A i \in Intents : Terminal(i) => Terminal(i)',
           \A e \in processed' : Terminal(e[1])',
           Fits(step, s)'
    PROVE  Inv'
  <1>1. Growth
    BY ConstantFacts DEF Growth, Exists, Inv, Counters
  <1>2. /\ WorkersSound' /\ pc' \in [Workers -> Steps] /\ sess' \in [Workers -> Session]
    BY <1>1, OneMoves
  <1>3. TypeOK'
    BY <1>2 DEF Inv, TypeOK
  <1>4. OneRowPerHash'
    BY DEF Inv, OneRowPerHash
  <1>5. Counters'
    BY DEF Inv, Counters, Spare
  <1>6. OpSound'
    <2>1. OpSound /\ op' = op
      BY DEF Inv
    <2>2. op.act = "replayed" => op.target \in Events
      BY <2>1 DEF OpSound, NoOp
    <2>3. op.act = "replayed" => HasRow(op.target)'
      BY <2>1, <2>2 DEF OpSound, HasRow
    <2>4. op.act \in {"replay", "finalize"} => Exists(op.target)'
      BY <2>1 DEF OpSound, Exists
    <2> QED BY <2>1, <2>3, <2>4 DEF OpSound
  <1>7. ProcessedHadEffect'
    BY DEF ProcessedHadEffect
  <1> QED BY <1>2, <1>3, <1>4, <1>5, <1>6, <1>7 DEF Inv

\* A consumer's step that touches no row: it moves copies between the two
\* queues and what it holds.
LEMMA QuietStepInv ==
    ASSUME Inv, NEW w \in Workers, NEW step \in Steps, NEW s \in Session,
           pc' = [pc EXCEPT ![w] = step], sess' = [sess EXCEPT ![w] = s],
           UNCHANGED <<dispatch, gateOpen, op, replays, ops>>,
           UNCHANGED <<ledger, failed>>,
           deadLetter' \subseteq Events, processed' \subseteq Events,
           \A e \in processed' : Terminal(e[1]),
           queue' \in Seq(Envelopes), retryQueue' \in Seq(Envelopes),
           \A env \in CopiesIn(queue') \cup CopiesIn(retryQueue') : Spare(env),
           Fits(step, s)
    PROVE  Inv'
  <1>1. /\ failed' \in [Events -> FailedRow] /\ ledger' \in [Intents -> Seq(Rows)]
    BY DEF Inv, TypeOK
  <1>2. \A e \in Events : /\ HasRow(e) => HasRow(e)'
                          /\ failed'[e].retryCount <= MaxRetry + ops
                          /\ failed'[e].envelope.retry <= MaxRetry + ops
    BY DEF Inv, Counters, HasRow
  <1>3. \A i \in Intents : Terminal(i) => Terminal(i)'
    BY DEF Terminal
  <1>4. \A e \in processed' : Terminal(e[1])'
    BY DEF Terminal
  <1>5. LedgerSound'
    BY DEF Inv, LedgerSound, Exists
  <1>6. Fits(step, s)'
    <2>1. Growth
      BY <1>3, ConstantFacts DEF Growth, Exists, Inv, Counters
    <2> QED BY <2>1, FitsGrows
  <1> QED BY <1>1, <1>2, <1>3, <1>4, <1>5, <1>6, WorkerStepInv

\* What consumer w holds, in constants.
LEMMA Holding ==
    ASSUME Inv, NEW w \in Workers
    PROVE  /\ pc[w] \in Steps /\ sess[w] \in Session /\ Fits(pc[w], sess[w])
           /\ sess[w].batch \in Seq(Envelopes) /\ sess[w].deferred \in Seq(Envelopes)
           /\ sess[w].pend \in Seq(Rows)
           /\ \A env \in CopiesIn(sess[w].batch) \cup CopiesIn(sess[w].deferred) :
                 Spare(env)
           /\ pc[w] \in Handling => /\ sess[w].env \in Envelopes
                                    /\ sess[w].env.event \in Events
                                    /\ IntentOf(sess[w].env) \in Intents
           /\ queue \in Seq(Envelopes) /\ retryQueue \in Seq(Envelopes)
           /\ \A env \in CopiesIn(queue) \cup CopiesIn(retryQueue) : Spare(env)
           /\ deadLetter \subseteq Events /\ processed \subseteq Events
           /\ \A e \in processed : Terminal(e[1])
  <1>1. pc[w] \in Steps /\ sess[w] \in Session /\ Fits(pc[w], sess[w])
    BY DEF Inv, TypeOK, WorkersSound
  <1>2. pc[w] \in Handling => /\ sess[w].env \in Envelopes
                              /\ sess[w].env.event \in Events
                              /\ IntentOf(sess[w].env) \in Intents
    BY <1>1, EnvelopeFacts DEF Fits
  <1>3. \A env \in CopiesIn(sess[w].batch) \cup CopiesIn(sess[w].deferred) : Spare(env)
    BY <1>1 DEF Fits
  <1>4. /\ sess[w].batch \in Seq(Envelopes) /\ sess[w].deferred \in Seq(Envelopes)
        /\ sess[w].pend \in Seq(Rows)
    BY <1>1 DEF Session
  <1> QED BY <1>1, <1>2, <1>3, <1>4 DEF Inv, TypeOK, Counters, ProcessedHadEffect

LEMMA IdleFits ==
    ASSUME Inv, NEW step \in {"idle", "consume"}
    PROVE  NoSession \in Session /\ Fits(step, NoSession)
  <1>1. NoSession \in Session
    BY EmptySeq DEF Session, NoSession, Reasons
  <1>2. /\ NoSession.env = NoEnvelope /\ NoSession.batch = <<>> /\ NoSession.deferred = <<>>
        /\ NoSession.pend = <<>>
    BY DEF NoSession
  <1>3. 0 <= MaxRetry + ops
    BY ConstantFacts DEF Inv, Counters
  <1> QED BY <1>1, <1>2, <1>3, NoCopies, NoEnvelopeRetry DEF Fits, Handling, Attempting

LEMMA ReleaseReadInv ==
    ASSUME Inv, NEW w \in Workers, ReleaseRead(w)
    PROVE  Inv'
  <1> DEFINE n == Sets!Min({ReleaseLimit, Len(retryQueue)})
             step == IF retryQueue = <<>> THEN "consume" ELSE "trim"
             b == SubSeq(retryQueue, 1, n)
             s == [sess[w] EXCEPT !.batch = b]
  <1>1. pc' = [pc EXCEPT ![w] = step] /\ sess' = [sess EXCEPT ![w] = s]
    BY DEF ReleaseRead, Goto
  <1>2. n \in 0..Len(retryQueue)
    <2>1. Len(retryQueue) \in Nat
      BY Holding, CopiesOf
    <2> QED BY <2>1, ConstantFacts, MinOfTwo
  <1>3. b \in Seq(Envelopes) /\ CopiesIn(b) \subseteq CopiesIn(retryQueue)
    <2> HIDE DEF n
    <2> QED BY <1>2, Holding, CopiesSplit
  <1> HIDE DEF n, b
  <1>4. s \in Session /\ s.batch = b /\ \A f \in {"env", "deferred", "pend"} : s[f] = sess[w][f]
    BY <1>3, Holding DEF Session
  <1> HIDE DEF s
  <1>5. pc[w] = "idle" /\ step \in Steps /\ step \in {"consume", "trim"}
    BY DEF ReleaseRead, Steps
  <1>6. Fits(step, s)
    BY <1>3, <1>4, <1>5, Holding DEF Fits, Handling, Attempting
  <1> HIDE DEF step
  <1> QED BY <1>1, <1>4, <1>5, <1>6, Holding, QuietStepInv
          DEF ReleaseRead, workerUnchanged, storesUnchanged

LEMMA ReleaseTrimInv ==
    ASSUME Inv, NEW w \in Workers, ReleaseTrim(w)
    PROVE  Inv'
  <1> DEFINE s == sess[w]
             n == Len(s.batch) + 1
  <1>1. pc' = [pc EXCEPT ![w] = "release"] /\ sess' = [sess EXCEPT ![w] = s]
    BY DEF ReleaseTrim, Goto, Inv, TypeOK
  <1>2. retryQueue' \in Seq(Envelopes) /\ CopiesIn(retryQueue') \subseteq CopiesIn(retryQueue)
    <2>1. /\ Len(s.batch) \in Nat /\ Len(retryQueue) \in Nat /\ retryQueue \in Seq(Envelopes)
      BY Holding, CopiesOf
    <2>2. CASE Len(s.batch) <= Len(retryQueue)
      BY <2>1, <2>2, CopiesSplit DEF ReleaseTrim
    <2>3. CASE Len(s.batch) > Len(retryQueue)
      <3>1. n \in Int /\ Len(retryQueue) \in Int /\ Len(retryQueue) < n
        BY <2>1, <2>3
      <3>2. retryQueue' = SubSeq(retryQueue, n, Len(retryQueue))
        BY DEF ReleaseTrim
      <3> HIDE DEF n
      <3>3. retryQueue' = <<>>
        BY <3>1, <3>2, SubSeqEmpty
      <3> QED BY <3>3, EmptySeq, NoCopies
    <2> QED BY <2>1, <2>2, <2>3
  <1>3. pc[w] = "trim"
    BY DEF ReleaseTrim
  <1>4. Fits("release", s) /\ s \in Session
    BY <1>3, Holding DEF Fits, Handling, Attempting
  <1> HIDE DEF s
  <1> QED BY <1>1, <1>2, <1>4, Holding, QuietStepInv
          DEF ReleaseTrim, workerUnchanged, storesUnchanged, Steps

LEMMA ReleaseDueInv ==
    ASSUME Inv, NEW w \in Workers, ReleaseDue(w)
    PROVE  Inv'
  <1> DEFINE b == Tail(sess[w].batch)
             s == [sess[w] EXCEPT !.batch = b]
  <1>1. pc' = [pc EXCEPT ![w] = "release"] /\ sess' = [sess EXCEPT ![w] = s]
    BY DEF ReleaseDue, Inv, TypeOK
  <1>2. /\ b \in Seq(Envelopes) /\ Head(sess[w].batch) \in Envelopes
        /\ CopiesIn(sess[w].batch) = CopiesIn(b) \cup {Head(sess[w].batch)}
    BY Holding, CopiesHeadTail DEF ReleaseDue
  <1> HIDE DEF b
  <1>3. queue' \in Seq(Envelopes) /\ CopiesIn(queue') = CopiesIn(queue) \cup {Head(sess[w].batch)}
    BY <1>2, Holding, CopiesAppend DEF ReleaseDue
  <1>4. s \in Session /\ s.batch = b /\ \A f \in {"env", "deferred", "pend"} : s[f] = sess[w][f]
    BY <1>2, Holding DEF Session
  <1> HIDE DEF s
  <1>5. pc[w] = "release"
    BY DEF ReleaseDue
  <1>6. Fits("release", s)
    BY <1>2, <1>4, <1>5, Holding DEF Fits, Handling, Attempting
  <1>7. \A env \in CopiesIn(queue') \cup CopiesIn(retryQueue') : Spare(env)
    BY <1>2, <1>3, Holding DEF ReleaseDue
  <1>8. /\ UNCHANGED <<retryQueue, ledger, deadLetter, processed, failed>>
        /\ UNCHANGED <<dispatch, gateOpen, op, replays, ops>>
    BY DEF ReleaseDue, storesUnchanged, workerUnchanged
  <1>9. /\ retryQueue' \in Seq(Envelopes) /\ deadLetter' \subseteq Events
        /\ processed' \subseteq Events /\ \A e \in processed' : Terminal(e[1])
    BY <1>8, Holding
  <1>10. "release" \in Steps
    BY DEF Steps
  <1> QED BY <1>1, <1>3, <1>4, <1>6, <1>7, <1>8, <1>9, <1>10, QuietStepInv

LEMMA ReleaseDeferInv ==
    ASSUME Inv, NEW w \in Workers, ReleaseDefer(w)
    PROVE  Inv'
  <1> DEFINE b == Tail(sess[w].batch)
             d == Append(sess[w].deferred, Head(sess[w].batch))
             s == [sess[w] EXCEPT !.batch = b, !.deferred = d]
  <1>1. pc' = [pc EXCEPT ![w] = "release"] /\ sess' = [sess EXCEPT ![w] = s]
    BY DEF ReleaseDefer, Inv, TypeOK
  <1>2. /\ b \in Seq(Envelopes) /\ Head(sess[w].batch) \in Envelopes
        /\ CopiesIn(sess[w].batch) = CopiesIn(b) \cup {Head(sess[w].batch)}
    BY Holding, CopiesHeadTail DEF ReleaseDefer
  <1>3. /\ d \in Seq(Envelopes)
        /\ CopiesIn(d) = CopiesIn(sess[w].deferred) \cup {Head(sess[w].batch)}
    BY <1>2, Holding, CopiesAppend
  <1> HIDE DEF b, d
  <1>4. /\ s \in Session /\ s.batch = b /\ s.deferred = d
        /\ \A f \in {"env", "pend"} : s[f] = sess[w][f]
    BY <1>2, <1>3, Holding DEF Session
  <1> HIDE DEF s
  <1>5. pc[w] = "release"
    BY DEF ReleaseDefer
  <1>6. Fits("release", s)
    BY <1>2, <1>3, <1>4, <1>5, Holding DEF Fits, Handling, Attempting
  <1> QED BY <1>1, <1>4, <1>6, Holding, QuietStepInv
          DEF ReleaseDefer, workerUnchanged, storesUnchanged, Steps

LEMMA ReleaseDeferredInv ==
    ASSUME Inv, NEW w \in Workers, ReleaseDeferred(w)
    PROVE  Inv'
  <1>1. pc' = [pc EXCEPT ![w] = "consume"] /\ sess' = [sess EXCEPT ![w] = NoSession]
    BY DEF ReleaseDeferred, Goto
  <1>2. /\ retryQueue' \in Seq(Envelopes)
        /\ CopiesIn(retryQueue') = CopiesIn(retryQueue) \cup CopiesIn(sess[w].deferred)
    BY Holding, CopiesConcat DEF ReleaseDeferred
  <1>3. NoSession \in Session /\ Fits("consume", NoSession)
    BY IdleFits
  <1>4. \A env \in CopiesIn(queue') \cup CopiesIn(retryQueue') : Spare(env)
    BY <1>2, Holding DEF ReleaseDeferred
  <1> QED BY <1>1, <1>2, <1>3, <1>4, Holding, QuietStepInv
          DEF ReleaseDeferred, workerUnchanged, storesUnchanged, Steps

\* A step that touches no store and no queue.
LEMMA PrivateStepInv ==
    ASSUME Inv, NEW w \in Workers, NEW step \in Steps, NEW s \in Session,
           pc' = [pc EXCEPT ![w] = step], sess' = [sess EXCEPT ![w] = s],
           UNCHANGED <<dispatch, gateOpen, op, replays, ops>>,
           storesUnchanged, queuesUnchanged, Fits(step, s)
    PROVE  Inv'
  <1>1. /\ queue' \in Seq(Envelopes) /\ retryQueue' \in Seq(Envelopes)
        /\ \A env \in CopiesIn(queue') \cup CopiesIn(retryQueue') : Spare(env)
        /\ deadLetter' \subseteq Events /\ processed' \subseteq Events
        /\ \A e \in processed' : Terminal(e[1])
        /\ UNCHANGED <<ledger, failed>>
    BY Holding DEF storesUnchanged, queuesUnchanged
  <1> QED BY <1>1, QuietStepInv

LEMMA ConsumeInv ==
    ASSUME Inv, NEW w \in Workers, Consume(w)
    PROVE  Inv'
  <1>1. pc[w] = "consume"
    BY DEF Consume
  <1>2. CASE queue = <<>>
    <2>1. pc' = [pc EXCEPT ![w] = "idle"] /\ sess' = [sess EXCEPT ![w] = sess[w]]
      BY <1>2 DEF Consume, Goto, Inv, TypeOK
    <2>2. Fits("idle", sess[w])
      BY <1>1, Holding DEF Fits, Handling, Attempting
    <2>3. storesUnchanged /\ queuesUnchanged /\ workerUnchanged /\ "idle" \in Steps
      BY <1>2 DEF Consume, queuesUnchanged, Steps
    <2> QED BY <2>1, <2>2, <2>3, Holding, PrivateStepInv DEF workerUnchanged
  <1>3. CASE queue # <<>>
    <2> DEFINE e == Seqs!Last(queue)
               q == Seqs!Front(queue)
               s == [sess[w] EXCEPT !.env = e]
    <2>1. pc' = [pc EXCEPT ![w] = "check"] /\ sess' = [sess EXCEPT ![w] = s] /\ queue' = q
      BY <1>3 DEF Consume, Goto
    <2>2. e \in Envelopes /\ q \in Seq(Envelopes) /\ CopiesIn(queue) = CopiesIn(q) \cup {e}
      BY <1>3, Holding, CopiesFrontLast
    <2> HIDE DEF e, q
    <2>3. /\ s \in Session /\ s.env = e
          /\ \A f \in {"batch", "deferred", "pend"} : s[f] = sess[w][f]
      BY <2>2, Holding DEF Session
    <2> HIDE DEF s
    <2>4. Spare(e) /\ e.retry <= MaxRetry + ops
      BY <2>2, Holding, EnvelopeFacts, ConstantFacts DEF Spare, Inv, Counters
    <2>5. Fits("check", s)
      BY <1>1, <2>2, <2>3, <2>4, Holding DEF Fits, Handling, Attempting
    <2>6. /\ UNCHANGED <<dispatch, gateOpen, op, replays, ops>>
          /\ UNCHANGED <<retryQueue, ledger, deadLetter, processed, failed>>
          /\ "check" \in Steps
      BY DEF Consume, workerUnchanged, storesUnchanged, Steps
    <2> QED BY <2>1, <2>2, <2>3, <2>5, <2>6, Holding, QuietStepInv
  <1> QED BY <1>2, <1>3

LEMMA CheckProcessedInv ==
    ASSUME Inv, NEW w \in Workers, CheckProcessed(w)
    PROVE  Inv'
  <1>1. /\ pc[w] = "check" /\ storesUnchanged /\ queuesUnchanged
        /\ UNCHANGED <<dispatch, gateOpen, op, replays, ops>>
    BY DEF CheckProcessed, workerUnchanged
  <1>2. CASE sess[w].env.event \in processed
    <2>1. pc' = [pc EXCEPT ![w] = "idle"] /\ sess' = [sess EXCEPT ![w] = NoSession]
      BY <1>2 DEF CheckProcessed, Goto
    <2> QED BY <1>1, <2>1, IdleFits, PrivateStepInv DEF Steps
  <1>3. CASE sess[w].env.event \notin processed
    <2>1. pc' = [pc EXCEPT ![w] = "load"] /\ sess' = [sess EXCEPT ![w] = sess[w]]
      BY <1>3 DEF CheckProcessed, Goto, Inv, TypeOK
    <2>2. Fits("load", sess[w])
      BY <1>1, Holding DEF Fits, Handling, Attempting
    <2> QED BY <1>1, <2>1, <2>2, Holding, PrivateStepInv DEF Steps
  <1> QED BY <1>2, <1>3

LEMMA LoadIntentInv ==
    ASSUME Inv, NEW w \in Workers, LoadIntent(w)
    PROVE  Inv'
  <1> DEFINE i == IntentOf(sess[w].env)
  <1>1. /\ pc[w] = "load" /\ storesUnchanged /\ queuesUnchanged
        /\ UNCHANGED <<dispatch, gateOpen, op, replays, ops>>
    BY DEF LoadIntent, workerUnchanged
  <1>2. Admission(i) \in {"open", "blocked"} => Exists(i)
    BY DEF Admission
  <1>3. CASE Admission(i) = "open"
    <2>1. pc' = [pc EXCEPT ![w] = "execute"] /\ sess' = [sess EXCEPT ![w] = sess[w]]
      BY <1>3 DEF LoadIntent, Goto, Inv, TypeOK, ImmediateQuarantine
    <2>2. Fits("execute", sess[w])
      BY <1>1, <1>2, <1>3, Holding DEF Fits, Handling, Attempting
    <2> QED BY <1>1, <2>1, <2>2, Holding, PrivateStepInv DEF Steps
  <1>4. CASE Admission(i) = "blocked"
    <2> DEFINE s == [sess[w] EXCEPT !.pend = <<"blocked">>]
    <2>1. pc' = [pc EXCEPT ![w] = "commit"] /\ sess' = [sess EXCEPT ![w] = s]
      BY <1>4 DEF LoadIntent, Goto, ImmediateQuarantine
    <2>2. <<"blocked">> \in Seq(Rows) /\ <<"blocked">> \in FullRows
      BY PendingRows DEF FullRows
    <2>3. /\ s \in Session /\ s.pend \in FullRows
          /\ \A f \in {"env", "batch", "deferred"} : s[f] = sess[w][f]
      BY <2>2, Holding DEF Session
    <2> HIDE DEF s
    <2>4. Fits("commit", s)
      BY <1>1, <1>2, <1>4, <2>3, Holding DEF Fits, Handling, Attempting
    <2> QED BY <1>1, <2>1, <2>3, <2>4, PrivateStepInv DEF Steps
  <1>5. CASE Admission(i) \in ImmediateQuarantine
    <2> DEFINE r == Admission(i)
               s == [sess[w] EXCEPT !.reason = r]
    <2>1. pc' = [pc EXCEPT ![w] = "fail"] /\ sess' = [sess EXCEPT ![w] = s]
      BY <1>5 DEF LoadIntent, Goto, ImmediateQuarantine
    <2>2. r \in Reasons
      BY <1>5 DEF Reasons, ImmediateQuarantine
    <2> HIDE DEF r
    <2>3. /\ s \in Session
          /\ \A f \in {"env", "batch", "deferred", "pend"} : s[f] = sess[w][f]
      BY <2>2, Holding DEF Session
    <2> HIDE DEF s
    <2>4. Fits("fail", s)
      BY <1>1, <2>3, Holding DEF Fits, Handling, Attempting, SomeRows
    <2> QED BY <1>1, <2>1, <2>3, <2>4, PrivateStepInv DEF Steps
  <1> QED BY <1>3, <1>4, <1>5 DEF LoadIntent

LEMMA ExecuteOrderInv ==
    ASSUME Inv, NEW w \in Workers, ExecuteOrder(w)
    PROVE  Inv'
  <1> DEFINE s == [sess[w] EXCEPT !.pend = ExecutionRows]
  <1>1. /\ pc[w] = "execute" /\ storesUnchanged /\ queuesUnchanged
        /\ UNCHANGED <<dispatch, gateOpen, op, replays, ops>>
        /\ pc' = [pc EXCEPT ![w] = "commit"] /\ sess' = [sess EXCEPT ![w] = s]
    BY DEF ExecuteOrder, workerUnchanged, Goto
  <1>2. ExecutionRows \in Seq(Rows) /\ ExecutionRows \in FullRows
    BY PendingRows DEF FullRows
  <1>3. /\ s \in Session /\ s.pend \in FullRows
        /\ \A f \in {"env", "batch", "deferred"} : s[f] = sess[w][f]
    BY <1>2, Holding DEF Session
  <1> HIDE DEF s
  <1>4. Fits("commit", s)
    BY <1>1, <1>3, Holding DEF Fits, Handling, Attempting
  <1> QED BY <1>1, <1>3, <1>4, PrivateStepInv DEF Steps

LEMMA ExecuteFaultInv ==
    ASSUME Inv, NEW w \in Workers, ExecuteFault(w)
    PROVE  Inv'
  <1>1. /\ pc[w] = "execute" /\ storesUnchanged /\ queuesUnchanged
        /\ UNCHANGED <<dispatch, gateOpen, op, replays, ops>>
        /\ pc' = [pc EXCEPT ![w] = "fail"]
    BY DEF ExecuteFault, workerUnchanged, Goto
  <1>2. PICK n \in 0..Len(ExecutionRows) :
          sess' = [sess EXCEPT ![w].pend = SubSeq(ExecutionRows, 1, n),
                               ![w].reason = IF n = 0 THEN "exchange_adapter_failure"
                                             ELSE "worker_internal_error"]
    BY DEF ExecuteFault
  <1> DEFINE p == SubSeq(ExecutionRows, 1, n)
             r == IF n = 0 THEN "exchange_adapter_failure" ELSE "worker_internal_error"
             s == [sess[w] EXCEPT !.pend = p, !.reason = r]
  <1>3. p \in SomeRows
    <2>1. n = 0 \/ n = 1 \/ n = 2
      BY DEF ExecutionRows
    <2>2. ExecutionRows \in Seq(Rows) /\ Len(ExecutionRows) = 2 /\ ExecutionRows[1] = "submitted"
      BY PendingRows DEF FullRows, ExecutionRows
    <2>3. CASE n = 0
      <3>1. p = <<>>
        BY <2>3, SubSeqEmpty
      <3> QED BY <3>1 DEF SomeRows
    <2>4. CASE n = 1
      <3> DEFINE x == <<"submitted">>
      <3>1. x \in Seq(Rows) /\ Len(x) = 1 /\ x[1] = "submitted" /\ x \in SomeRows
        BY DEF Rows, SomeRows
      <3>2. p \in Seq(Rows) /\ Len(p) = 1 /\ p[1] = "submitted"
        BY <2>2, <2>4, CopiesSplit
      <3> HIDE DEF p, x
      <3>3. p = x
        BY <3>1, <3>2, SeqEqual
      <3> QED BY <3>1, <3>3
    <2>5. CASE n = 2
      <3>1. p = ExecutionRows
        BY <2>2, <2>5, SubSeqFull
      <3> QED BY <3>1 DEF SomeRows
    <2> QED BY <2>1, <2>3, <2>4, <2>5
  <1>4. r \in Reasons
    BY DEF Reasons
  <1>5. p \in Seq(Rows)
    BY <1>3, PendingRows
  <1>6. sess' = [sess EXCEPT ![w] = s]
    BY <1>2, Holding DEF Inv, TypeOK, Session
  <1> HIDE DEF p, r
  <1>7. /\ s \in Session /\ s.pend = p
        /\ \A f \in {"env", "batch", "deferred"} : s[f] = sess[w][f]
    BY <1>4, <1>5, Holding DEF Session
  <1> HIDE DEF s
  <1>8. Fits("fail", s)
    BY <1>1, <1>3, <1>7, Holding DEF Fits, Handling, Attempting
  <1> QED BY <1>1, <1>6, <1>7, <1>8, PrivateStepInv DEF Steps

LEMMA FailAckInv ==
    ASSUME Inv, NEW w \in Workers, FailAck(w)
    PROVE  Inv'
  <1>1. /\ pc[w] = "fail" /\ storesUnchanged /\ queuesUnchanged
        /\ UNCHANGED <<dispatch, gateOpen, op, replays, ops>>
        /\ pc' = [pc EXCEPT ![w] = "park"]
    BY DEF FailAck, workerUnchanged, Goto
  <1> DEFINE e == [sess[w].env EXCEPT !.retry = @ + 1]
             s == [sess[w] EXCEPT !.env = e]
  <1>2. sess' = [sess EXCEPT ![w] = s]
    BY DEF FailAck
  <1>3. sess[w].env \in Envelopes /\ Spare(sess[w].env)
    BY <1>1, Holding DEF Fits, Handling, Attempting
  <1>4. /\ e \in Envelopes /\ e.retry <= MaxRetry + ops /\ e.event = sess[w].env.event
    BY <1>3, ConstantFacts DEF Spare, Inv, Counters, Envelopes
  <1> HIDE DEF e
  <1>5. /\ s \in Session /\ s.env = e
        /\ \A f \in {"batch", "deferred", "pend"} : s[f] = sess[w][f]
    BY <1>4, Holding DEF Session
  <1> HIDE DEF s
  <1>6. Fits("park", s)
    BY <1>1, <1>4, <1>5, Holding DEF Fits, Handling, Attempting, IntentOf
  <1> QED BY <1>1, <1>2, <1>5, <1>6, PrivateStepInv DEF Steps

LEMMA AckInv ==
    ASSUME Inv, NEW w \in Workers, Ack(w)
    PROVE  Inv'
  <1>1. /\ pc' = [pc EXCEPT ![w] = "idle"] /\ sess' = [sess EXCEPT ![w] = NoSession]
        /\ storesUnchanged /\ queuesUnchanged
        /\ UNCHANGED <<dispatch, gateOpen, op, replays, ops>>
    BY DEF Ack, Goto, workerUnchanged
  <1> QED BY <1>1, IdleFits, PrivateStepInv DEF Steps

LEMMA WorkerCrashInv ==
    ASSUME Inv, NEW w \in Workers, WorkerCrash(w)
    PROVE  Inv'
  <1>1. /\ pc' = [pc EXCEPT ![w] = "idle"] /\ sess' = [sess EXCEPT ![w] = NoSession]
        /\ storesUnchanged /\ queuesUnchanged
        /\ UNCHANGED <<dispatch, gateOpen, op, replays, ops>>
    BY DEF WorkerCrash, Goto
  <1> QED BY <1>1, IdleFits, PrivateStepInv DEF Steps

\* A step that adds the rows of the attempt to the ledger and may change
\* failed rows.
LEMMA RowStepInv ==
    ASSUME Inv, NEW w \in Workers, NEW step \in Steps, NEW s \in Session,
           NEW i \in Intents, NEW rows \in Seq(Rows), Exists(i) \/ rows = <<>>,
           pc' = [pc EXCEPT ![w] = step], sess' = [sess EXCEPT ![w] = s],
           UNCHANGED <<dispatch, gateOpen, op, replays, ops>>,
           ledger' = [ledger EXCEPT ![i] = @ \o rows],
           UNCHANGED <<queue, retryQueue, deadLetter, processed>>,
           failed' \in [Events -> FailedRow],
           \A e \in Events : /\ HasRow(e) => HasRow(e)'
                             /\ failed'[e].retryCount <= MaxRetry + ops
                             /\ failed'[e].envelope.retry <= MaxRetry + ops,
           Fits(step, s)'
    PROVE  Inv'
  <1>1. /\ ledger' \in [Intents -> Seq(Rows)]
        /\ \A j \in Intents : Terminal(j) => Terminal(j)'
        /\ \A j \in Intents : j # i => ledger'[j] = ledger[j]
        /\ ledger'[i] = ledger[i] \o rows
        /\ LedgerSound /\ Exists(i) /\ UNCHANGED dispatch => LedgerSound'
    BY LedgerGrows DEF Inv
  <1>2. LedgerSound'
    <2>1. CASE Exists(i)
      BY <1>1, <2>1 DEF Inv
    <2>2. CASE rows = <<>>
      <3>1. ledger'[i] = ledger[i]
        BY <1>1, <2>2, ConcatEmptySeq DEF Inv, TypeOK
      <3> QED BY <1>1, <3>1 DEF Inv, LedgerSound, Exists
    <2> QED BY <2>1, <2>2
  <1>3. \A e \in processed' : Terminal(e[1])'
    <2>1. \A e \in processed : e[1] \in Intents /\ Terminal(e[1])
      BY DEF Inv, TypeOK, ProcessedHadEffect, Events
    <2> QED BY <1>1, <2>1
  <1>4. /\ queue' \in Seq(Envelopes) /\ retryQueue' \in Seq(Envelopes)
        /\ \A env \in CopiesIn(queue') \cup CopiesIn(retryQueue') : Spare(env)
        /\ deadLetter' \subseteq Events /\ processed' \subseteq Events
    BY Holding
  <1> QED BY <1>1, <1>2, <1>3, <1>4, WorkerStepInv

LEMMA CommitOrderInv ==
    ASSUME Inv, NEW w \in Workers, CommitOrder(w)
    PROVE  Inv'
  <1>0. PICK t : t = sess[w]
    OBVIOUS
  <1> DEFINE i == IntentOf(t.env)
             rows == t.pend
             s == [t EXCEPT !.pend = <<>>]
  <1>1. /\ pc[w] = "commit" /\ pc' = [pc EXCEPT ![w] = "mark"]
        /\ sess' = [sess EXCEPT ![w] = s]
        /\ UNCHANGED <<dispatch, gateOpen, op, replays, ops>>
        /\ UNCHANGED <<queue, retryQueue, deadLetter, processed, failed>>
        /\ ledger' = [ledger EXCEPT ![i] = @ \o rows]
    BY <1>0 DEF CommitOrder, Goto, workerUnchanged, queuesUnchanged, AddRows
  <1>2. /\ i \in Intents /\ rows \in Seq(Rows) /\ rows \in FullRows
        /\ Exists(i) /\ t.env \in Envelopes /\ Spare(t.env)
        /\ t.env.retry <= MaxRetry + ops
        /\ \A env \in CopiesIn(t.batch) \cup CopiesIn(t.deferred) : Spare(env)
    BY <1>0, <1>1, Holding, PendingRows DEF Fits, Handling, Attempting
  <1>3. \E k \in DOMAIN rows : Final(rows[k])
    BY <1>2, PendingRows
  <1>4. Terminal(i)'
    BY <1>1, <1>2, <1>3, LedgerGrows DEF Inv
  <1>5. /\ s \in Session /\ s.pend = <<>>
        /\ \A f \in {"env", "batch", "deferred"} : s[f] = t[f]
    BY <1>0, Holding, EmptySeq DEF Session
  <1> HIDE DEF s
  <1>6. Fits("mark", s)'
    <2>1. \A env : Spare(env) <=> Spare(env)'
      BY <1>1 DEF Spare
    <2>2. s.env = t.env /\ s.batch = t.batch /\ s.deferred = t.deferred
      BY <1>5
    <2> QED BY <1>1, <1>2, <1>4, <1>5, <2>1, <2>2 DEF Fits, Handling, Attempting
  <1>7. /\ failed' \in [Events -> FailedRow]
        /\ \A e \in Events : /\ HasRow(e) => HasRow(e)'
                             /\ failed'[e].retryCount <= MaxRetry + ops
                             /\ failed'[e].envelope.retry <= MaxRetry + ops
    BY <1>1 DEF Inv, TypeOK, Counters, HasRow
  <1> HIDE DEF i, rows
  <1>8. "mark" \in Steps
    BY DEF Steps
  <1> QED BY <1>1, <1>2, <1>5, <1>6, <1>7, <1>8, RowStepInv

LEMMA MarkProcessedInv ==
    ASSUME Inv, NEW w \in Workers, MarkProcessed(w)
    PROVE  Inv'
  <1>1. /\ pc[w] = "mark" /\ pc' = [pc EXCEPT ![w] = "ack"]
        /\ sess' = [sess EXCEPT ![w] = sess[w]]
        /\ UNCHANGED <<dispatch, gateOpen, op, replays, ops>>
        /\ UNCHANGED <<queue, retryQueue, deadLetter, ledger, failed>>
        /\ processed' = processed \cup {sess[w].env.event}
    BY DEF MarkProcessed, Goto, workerUnchanged, queuesUnchanged, Inv, TypeOK
  <1>2. sess[w].env.event \in Events /\ Terminal(sess[w].env.event[1])
    BY <1>1, Holding DEF Fits, Handling, Attempting, IntentOf
  <1>3. Fits("ack", sess[w])
    BY <1>1, Holding DEF Fits, Handling, Attempting
  <1>4. /\ processed' \subseteq Events /\ \A e \in processed' : Terminal(e[1])
        /\ deadLetter' \subseteq Events /\ queue' \in Seq(Envelopes)
        /\ retryQueue' \in Seq(Envelopes)
        /\ \A env \in CopiesIn(queue') \cup CopiesIn(retryQueue') : Spare(env)
    BY <1>1, <1>2, Holding
  <1>5. "ack" \in Steps /\ sess[w] \in Session
    BY Holding DEF Steps
  <1> QED BY <1>1, <1>3, <1>4, <1>5, QuietStepInv

LEMMA FailEnqueueInv ==
    ASSUME Inv, NEW w \in Workers, FailEnqueue(w)
    PROVE  Inv'
  <1>1. /\ pc[w] = "park" /\ pc' = [pc EXCEPT ![w] = "record"]
        /\ sess' = [sess EXCEPT ![w] = sess[w]]
        /\ UNCHANGED <<dispatch, gateOpen, op, replays, ops>>
        /\ UNCHANGED <<queue, processed, ledger, failed>>
    BY DEF FailEnqueue, Goto, workerUnchanged, Inv, TypeOK
  <1>2. sess[w].env \in Envelopes /\ sess[w].env.event \in Events
    BY <1>1, Holding DEF Handling
  <1>3. Fits("record", sess[w])
    BY <1>1, Holding DEF Fits, Handling, Attempting
  <1>4. deadLetter' \subseteq Events
    BY <1>2, Holding DEF FailEnqueue
  <1>5. /\ retryQueue' \in Seq(Envelopes)
        /\ \A env \in CopiesIn(retryQueue') : Spare(env)
    <2>1. CASE Quarantines(w)
      BY <2>1, Holding DEF FailEnqueue
    <2>2. CASE ~Quarantines(w)
      <3>1. retryQueue' = Append(retryQueue, sess[w].env)
        BY <2>2 DEF FailEnqueue
      <3>2. Spare(sess[w].env)
        <4>1. sess[w].env.retry \in Nat /\ ~(sess[w].env.retry >= MaxRetry)
          BY <1>2, <2>2, EnvelopeFacts DEF Quarantines
        <4> QED BY <4>1, ConstantFacts DEF Spare, Inv, Counters
      <3> QED BY <1>2, <3>1, <3>2, Holding, CopiesAppend
    <2> QED BY <2>1, <2>2
  <1>6. "record" \in Steps /\ sess[w] \in Session
    BY Holding DEF Steps
  <1> QED BY <1>1, <1>3, <1>4, <1>5, <1>6, Holding, QuietStepInv

LEMMA FailRecordInv ==
    ASSUME Inv, NEW w \in Workers, FailRecord(w)
    PROVE  Inv'
  <1> DEFINE env == sess[w].env
             i == IntentOf(env)
             rows == sess[w].pend
             row == [status |-> IF Quarantines(w) THEN "quarantined" ELSE "retrying",
                     retryCount |-> env.retry, envelope |-> env]
  <1>1. /\ pc[w] = "record" /\ pc' = [pc EXCEPT ![w] = "idle"]
        /\ sess' = [sess EXCEPT ![w] = NoSession]
        /\ UNCHANGED <<dispatch, gateOpen, op, replays, ops>>
        /\ UNCHANGED <<queue, retryQueue, deadLetter, processed>>
        /\ failed' = [failed EXCEPT ![env.event] = row]
    BY DEF FailRecord, Goto, workerUnchanged, queuesUnchanged
  <1>2. /\ env \in Envelopes /\ env.event \in Events /\ i \in Intents /\ rows \in Seq(Rows)
        /\ rows # <<>> => Exists(i) /\ env.retry <= MaxRetry + ops
        /\ env.retry \in 0..(MaxRetry + MaxOps) /\ env.retry <= MaxRetry + ops
    BY <1>1, Holding, EnvelopeFacts DEF Fits, Handling
  <1>3. ledger' = [ledger EXCEPT ![i] = @ \o rows]
    <2>1. CASE rows = <<>>
      <3>1. ledger[i] \o rows = ledger[i] /\ ledger' = ledger
        BY <1>2, <2>1, ConcatEmptySeq DEF FailRecord, Inv, TypeOK
      <3> QED BY <1>2, <3>1 DEF Inv, TypeOK
    <2>2. CASE rows # <<>>
      BY <2>2 DEF FailRecord, AddRows
    <2> QED BY <2>1, <2>2
  <1>4. row \in FailedRow /\ row # NoRow /\ row.retryCount = env.retry /\ row.envelope = env
    BY <1>2 DEF FailedRow, NoRow
  <1> HIDE DEF row, env
  <1>5. /\ failed' \in [Events -> FailedRow]
        /\ \A e \in Events : /\ HasRow(e) => HasRow(e)'
                             /\ failed'[e].retryCount <= MaxRetry + ops
                             /\ failed'[e].envelope.retry <= MaxRetry + ops
    BY <1>1, <1>2, <1>4 DEF Inv, TypeOK, Counters, HasRow
  <1>6. NoSession \in Session /\ Fits("idle", NoSession)'
    <2>1. NoSession \in Session /\ Fits("idle", NoSession)
      BY IdleFits
    <2>2. Growth
      <3>1. \A j \in Intents : Terminal(j) => Terminal(j)'
        BY <1>2, <1>3, LedgerGrows DEF Inv
      <3> QED BY <1>1, <3>1, ConstantFacts DEF Growth, Exists, Inv, Counters
    <2> QED BY <2>1, <2>2, FitsGrows DEF Steps
  <1> QED BY <1>1, <1>2, <1>3, <1>5, <1>6, RowStepInv DEF Steps

-----------------------------------------------------------------------------
(* Dispatchers, operators and the gate *)

RetryBounds == \A e \in Events : /\ failed[e].retryCount <= MaxRetry + ops
                                 /\ failed[e].envelope.retry <= MaxRetry + ops

Replays == \A i \in Intents :
    replays[i] + (IF op.act = "replay" /\ op.target = i THEN 1 ELSE 0) <= ops

LEMMA OthersStepInv ==
    ASSUME Inv, UNCHANGED <<pc, sess, retryQueue, deadLetter, processed>>,
           ops' \in 0..MaxOps, ops <= ops',
           dispatch' \in [Intents -> Dispatches], OneRowPerHash',
           \A i \in Intents : Exists(i) => Exists(i)',
           ledger' \in [Intents -> Seq(Rows)], LedgerSound',
           \A i \in Intents : Terminal(i) => Terminal(i)',
           queue' \in Seq(Envelopes), \A env \in CopiesIn(queue') : Spare(env)',
           failed' \in [Events -> FailedRow], RetryBounds',
           replays' \in [Intents -> 0..MaxOps], Replays', OpSound'
    PROVE  Inv'
  <1>1. Growth
    BY ConstantFacts DEF Growth
  <1>2. WorkersSound'
    BY <1>1, NoneMoves
  <1>3. TypeOK'
    BY DEF Inv, TypeOK
  <1>4. \A env \in CopiesIn(retryQueue') : Spare(env)'
    <2>1. ops \in Nat /\ ops' \in Nat
      BY ConstantFacts DEF Inv, Counters
    <2>2. retryQueue' = retryQueue /\ CopiesIn(retryQueue) \subseteq Envelopes
      BY CopiesOf DEF Inv, TypeOK
    <2>3. \A env \in Envelopes : Spare(env) => Spare(env)'
      BY <2>1, EnvelopeFacts, ConstantFacts DEF Spare
    <2> QED BY <2>2, <2>3 DEF Inv, Counters
  <1>5. Counters'
    BY <1>4 DEF Counters, RetryBounds, Replays
  <1>6. ProcessedHadEffect'
    BY DEF Inv, TypeOK, ProcessedHadEffect, Events
  <1> QED BY <1>2, <1>3, <1>5, <1>6 DEF Inv

LEMMA Standing ==
    ASSUME Inv
    PROVE  /\ RetryBounds /\ Replays /\ OpSound /\ ops \in 0..MaxOps /\ ops \in Nat
           /\ dispatch \in [Intents -> Dispatches] /\ OneRowPerHash
           /\ ledger \in [Intents -> Seq(Rows)] /\ LedgerSound
           /\ queue \in Seq(Envelopes) /\ \A env \in CopiesIn(queue) : Spare(env)
           /\ failed \in [Events -> FailedRow] /\ replays \in [Intents -> 0..MaxOps]
  BY ConstantFacts DEF Inv, TypeOK, Counters, RetryBounds, Replays

\* A step of the dispatch of intent i, to stage d.
LEMMA DispatchStepInv ==
    ASSUME Inv, NEW i \in Intents, NEW d \in Dispatches, dispatchUnchanged,
           dispatch' = [dispatch EXCEPT ![i] = d], dispatch[i] # "committed",
           d \in {"inserted", "published", "committed"} =>
             \A j \in SameDecision(i) :
                 dispatch[j] \notin {"inserted", "published", "committed"},
           queue' \in Seq(Envelopes), \A env \in CopiesIn(queue') : Spare(env)
    PROVE  Inv'
  <1>1. /\ ops' = ops /\ op' = op /\ replays' = replays /\ failed' = failed
        /\ ledger' = ledger /\ UNCHANGED <<pc, sess, retryQueue, deadLetter, processed>>
    BY DEF dispatchUnchanged
  <1>2. /\ dispatch' \in [Intents -> Dispatches] /\ dispatch'[i] = d
        /\ \A j \in Intents : j # i => dispatch'[j] = dispatch[j]
    BY Standing
  <1>3. OneRowPerHash'
    <2>1. \A j \in Intents : j # i /\ HashOf[j] = HashOf[i] => j \in SameDecision(i)
      BY DEF SameDecision
    <2> QED BY <1>2, <2>1, Standing DEF OneRowPerHash
  <1>4. \A j \in Intents : Exists(j) => Exists(j)'
    BY <1>2 DEF Exists
  <1>5. LedgerSound'
    BY <1>1, <1>4, Standing DEF LedgerSound
  <1>6. \A j \in Intents : Terminal(j) => Terminal(j)'
    BY <1>1 DEF Terminal
  <1>7. OpSound'
    <2>1. OpSound
      BY Standing
    <2>2. op.act = "replayed" => HasRow(op.target)'
      BY <1>1, <2>1 DEF OpSound, HasRow
    <2>3. op.act \in {"replay", "finalize"} => op.target \in Intents /\ Exists(op.target)
      BY <2>1 DEF OpSound, NoOp
    <2>4. op.act \in {"replay", "finalize"} => Exists(op.target)'
      BY <1>1, <1>2, <2>3 DEF Exists
    <2> QED BY <1>1, <2>1, <2>2, <2>4 DEF OpSound
  <1>8. RetryBounds' /\ Replays' /\ \A env \in CopiesIn(queue') : Spare(env)'
    BY <1>1, Standing DEF RetryBounds, Replays, Spare
  <1>9. /\ ops' \in 0..MaxOps /\ ops <= ops' /\ ledger' \in [Intents -> Seq(Rows)]
        /\ failed' \in [Events -> FailedRow] /\ replays' \in [Intents -> 0..MaxOps]
    BY <1>1, Standing
  <1> QED BY <1>1, <1>2, <1>3, <1>4, <1>5, <1>6, <1>7, <1>8, <1>9, OthersStepInv

LEMMA DispatchInv ==
    ASSUME Inv, NEW i \in Intents, Dispatch(i) \/ DispatchCrash(i)
    PROVE  Inv'
  <1>1. CASE DispatchCheck(i)
    <2> DEFINE d == IF \E j \in SameDecision(i) : Exists(j) THEN "existing"
                    ELSE IF gateOpen THEN "checked" ELSE "rejected"
    <2>1. d \in Dispatches /\ d \notin {"inserted", "published", "committed"}
      BY DEF Dispatches
    <2>2. dispatch' = [dispatch EXCEPT ![i] = d]
      BY <1>1 DEF DispatchCheck
    <2> HIDE DEF d
    <2> QED BY <1>1, <2>1, <2>2, Standing, DispatchStepInv DEF DispatchCheck
  <1>2. CASE DispatchInsert(i)
    <2> DEFINE d == IF \E j \in SameDecision(i) : Exists(j) THEN "failed" ELSE "inserted"
    <2>1. /\ d \in Dispatches
          /\ d \in {"inserted", "published", "committed"} =>
               \A j \in SameDecision(i) :
                   dispatch[j] \notin {"inserted", "published", "committed"}
      BY <1>2 DEF Dispatches, DispatchInsert, Exists
    <2>2. dispatch' = [dispatch EXCEPT ![i] = d]
      BY <1>2 DEF DispatchInsert
    <2> HIDE DEF d
    <2> QED BY <1>2, <2>1, <2>2, Standing, DispatchStepInv DEF DispatchInsert
  <1>3. dispatch[i] \in {"inserted", "published"} =>
          \A j \in SameDecision(i) :
              dispatch[j] \notin {"inserted", "published", "committed"}
    BY Standing DEF OneRowPerHash, SameDecision
  <1>4. CASE DispatchPublish(i)
    <2> DEFINE e == [event |-> <<i, 0>>, retry |-> 0]
    <2>1. e \in Envelopes /\ Spare(e)
      <3>1. <<i, 0>> \in Events /\ 0 \in 0..(MaxRetry + MaxOps) /\ 0 < MaxRetry + ops
        BY EventFacts, ConstantFacts, Standing
      <3> QED BY <3>1 DEF Envelopes, Spare
    <2>2. queue' = Append(queue, e)
      BY <1>4 DEF DispatchPublish
    <2> HIDE DEF e
    <2>3. queue' \in Seq(Envelopes) /\ CopiesIn(queue') = CopiesIn(queue) \cup {e}
      BY <2>1, <2>2, CopiesAppend, Standing
    <2>4. \A env \in CopiesIn(queue') : Spare(env)
      BY <2>1, <2>3, Standing
    <2> QED BY <1>3, <1>4, <2>3, <2>4, DispatchStepInv DEF DispatchPublish, Dispatches
  <1>5. CASE DispatchCommit(i)
    BY <1>3, <1>5, Standing, DispatchStepInv DEF DispatchCommit, Dispatches
  <1>6. CASE DispatchCrash(i)
    BY <1>6, Standing, DispatchStepInv DEF DispatchCrash, Dispatches
  <1> QED BY <1>1, <1>2, <1>4, <1>5, <1>6 DEF Dispatch

\* A step of an operator or of the recovery loop.
LEMMA OperatorStepInv ==
    ASSUME Inv, operatorUnchanged, ops' = ops \/ (ops < MaxOps /\ ops' = ops + 1),
           ledger' \in [Intents -> Seq(Rows)], LedgerSound',
           \A i \in Intents : Terminal(i) => Terminal(i)',
           queue' \in Seq(Envelopes), \A env \in CopiesIn(queue') : Spare(env)',
           failed' \in [Events -> FailedRow], RetryBounds',
           replays' \in [Intents -> 0..MaxOps], Replays', OpSound'
    PROVE  Inv'
  <1>1. ops' \in 0..MaxOps /\ ops <= ops'
    BY Standing, ConstantFacts
  <1>2. /\ dispatch' \in [Intents -> Dispatches] /\ OneRowPerHash'
        /\ \A i \in Intents : Exists(i) => Exists(i)'
        /\ UNCHANGED <<pc, sess, retryQueue, deadLetter, processed>>
    BY Standing DEF operatorUnchanged, OneRowPerHash, Exists
  <1> QED BY <1>1, <1>2, OthersStepInv

\* Operators that leave the ledger and the intents' rows alone.
LEMMA LedgerKept ==
    ASSUME Inv, UNCHANGED <<ledger, dispatch>>
    PROVE  /\ ledger' \in [Intents -> Seq(Rows)] /\ LedgerSound'
           /\ \A i \in Intents : Terminal(i) => Terminal(i)'
  BY Standing DEF LedgerSound, Terminal, Exists

LEMMA QueueKept ==
    ASSUME Inv, UNCHANGED queue, ops <= ops', ops' \in Nat
    PROVE  queue' \in Seq(Envelopes) /\ \A env \in CopiesIn(queue') : Spare(env)'
  <1>1. CopiesIn(queue) \subseteq Envelopes
    BY Standing, CopiesOf
  <1>2. \A env \in Envelopes : Spare(env) => Spare(env)'
    BY EnvelopeFacts, ConstantFacts, Standing DEF Spare
  <1> QED BY <1>1, <1>2, Standing

LEMMA FailedKept ==
    ASSUME Inv, UNCHANGED failed, ops <= ops', ops' \in Nat
    PROVE  /\ failed' \in [Events -> FailedRow] /\ RetryBounds'
           /\ \A e \in Events : HasRow(e) <=> HasRow(e)'
  <1>1. \A e \in Events : /\ failed[e].retryCount \in Nat
                          /\ failed[e].envelope.retry \in Nat
    <2>1. \A e \in Events : failed[e] \in FailedRow
      BY Standing
    <2>2. \A row \in FailedRow : row.retryCount \in Nat /\ row.envelope.retry \in Nat
      BY RowFacts, EnvelopeFacts, NoEnvelopeRetry DEF FailedRow, NoRow
    <2> QED BY <2>1, <2>2
  <1>2. RetryBounds'
    BY <1>1, ConstantFacts, Standing DEF RetryBounds
  <1> QED BY <1>2, Standing DEF HasRow

LEMMA ReplaysKept ==
    ASSUME Inv, UNCHANGED replays, ops <= ops', ops' \in Nat,
           op' = op \/ op'.act # "replay"
           \/ (op.act # "replay" /\ ops' = ops + 1)
    PROVE  replays' \in [Intents -> 0..MaxOps] /\ Replays'
  <1>1. \A i \in Intents : replays[i] \in Nat
    BY Standing
  <1>2. Replays /\ ops \in Nat
    BY Standing
  <1> QED BY <1>1, <1>2, Standing DEF Replays

\* A changed failed_events row stays a row.
LEMMA RowChanged ==
    ASSUME Inv, NEW e \in Events, NEW row \in FailedRow \ {NoRow},
           failed' = [failed EXCEPT ![e] = row], ops <= ops', ops' \in Nat,
           row.retryCount <= MaxRetry + ops', row.envelope = failed[e].envelope
    PROVE  /\ failed' \in [Events -> FailedRow] /\ RetryBounds'
           /\ \A f \in Events : HasRow(f) => HasRow(f)'
  <1>1. \A f \in Events : failed[f] \in FailedRow
    BY Standing
  <1>2. \A r \in FailedRow : r.retryCount \in Nat /\ r.envelope.retry \in Nat
    BY RowFacts, EnvelopeFacts, NoEnvelopeRetry DEF FailedRow, NoRow
  <1>3. /\ failed' \in [Events -> FailedRow] /\ failed'[e] = row
        /\ \A f \in Events : f # e => failed'[f] = failed[f]
    BY Standing
  <1>4. RetryBounds'
    BY <1>1, <1>2, <1>3, ConstantFacts, Standing DEF RetryBounds
  <1> QED BY <1>3, <1>4 DEF HasRow

\* The three ways a row is changed by hand.
LEMMA EditedRow ==
    ASSUME Inv, NEW e \in Events, HasRow(e),
           NEW st \in {"retrying", "quarantined", "resolved", "dead"},
           NEW n \in 0..(MaxRetry + MaxOps)
    PROVE  [failed[e] EXCEPT !.status = st, !.retryCount = n] \in FailedRow \ {NoRow}
  <1> DEFINE row == failed[e]
  <1>1. row \in FailedRow /\ row # NoRow
    BY Standing DEF HasRow
  <1> HIDE DEF row
  <1>2. [row EXCEPT !.status = st, !.retryCount = n] \in FailedRow \ {NoRow}
    BY <1>1 DEF FailedRow, NoRow
  <1> QED BY <1>2 DEF row

LEMMA RowActionInv ==
    ASSUME Inv, NEW e \in Events, RowAction(e) \/ QuarantineClose(e) \/ RecoveryLoop(e)
    PROVE  Inv'
  <1> DEFINE r == failed[e]
  <1>1. /\ operatorUnchanged /\ UNCHANGED <<ledger, queue, replays, op, dispatch>>
        /\ ops' = ops \/ (ops < MaxOps /\ ops' = ops + 1)
    BY DEF RowAction, QuarantineClose, RecoveryLoop, Acts, operatorUnchanged
  <1>2. /\ HasRow(e) /\ r \in FailedRow /\ r.retryCount \in Nat
        /\ r.status \in {"retrying", "quarantined", "resolved", "dead"}
        /\ r.retryCount <= MaxRetry + ops
        /\ r.retryCount \in 0..(MaxRetry + MaxOps)
    <2>1. HasRow(e) /\ r \in FailedRow /\ r.retryCount \in Nat
      BY Standing, RowFacts DEF RowAction, QuarantineClose, RecoveryLoop, HasRow, NoRow
    <2>2. r.retryCount <= MaxRetry + ops
      BY Standing DEF RetryBounds
    <2> QED BY <2>1, <2>2, RowFacts, Standing, ConstantFacts DEF HasRow
  <1>3. \E st \in {"retrying", "quarantined", "resolved", "dead"} :
          \E n \in 0..(MaxRetry + MaxOps) :
             /\ failed' = [failed EXCEPT ![e] = [r EXCEPT !.status = st, !.retryCount = n]]
             /\ n <= MaxRetry + ops'
    <2>1. \A st : [r EXCEPT !.status = st] = [r EXCEPT !.status = st, !.retryCount = r.retryCount]
      BY <1>2 DEF FailedRow, HasRow
    <2>2. r = [r EXCEPT !.status = r.status, !.retryCount = r.retryCount]
      BY <1>2 DEF FailedRow, HasRow
    <2>3. RowRetried(r) = [r EXCEPT !.status = IF r.retryCount + 1 >= MaxRetry THEN "dead"
                                               ELSE "retrying",
                                    !.retryCount = r.retryCount + 1]
      BY <1>2 DEF FailedRow, HasRow, RowRetried
    <2>4. ops \in Nat /\ ops' \in Nat /\ ops <= ops' /\ ops' <= MaxOps
      BY <1>1, Standing, ConstantFacts
    <2>5. r.retryCount <= MaxRetry + ops' /\ 0 <= MaxRetry + ops' /\ 1 <= MaxRetry + ops'
      <3>1. PICK n, b : n = r.retryCount /\ b = ops'
        OBVIOUS
      <3>2. n \in Nat /\ n <= MaxRetry + ops /\ b \in Nat /\ ops <= b /\ ops \in Nat
        BY <1>2, <2>4, <3>1
      <3>3. n <= MaxRetry + b /\ 0 <= MaxRetry + b /\ 1 <= MaxRetry + b
        BY <3>2, ConstantFacts
      <3> QED BY <3>1, <3>3
    <2> HIDE DEF r
    <2>6. CASE QuarantineClose(e)
      <3>1. PICK st \in {"resolved", "dead"} :
              failed' = [failed EXCEPT ![e] = [r EXCEPT !.status = st]]
        BY <2>6 DEF QuarantineClose, r
      <3> QED BY <1>2, <2>1, <2>5, <3>1
    <2>7. CASE RowAction(e)
      <3>1. /\ ops' = ops + 1
            /\ r.retryCount + 1 <= MaxRetry + ops'
            /\ r.retryCount + 1 \in 0..(MaxRetry + MaxOps) /\ 0 \in 0..(MaxRetry + MaxOps)
        BY <1>2, <2>4, <2>7, ConstantFacts DEF RowAction, Acts
      <3>2. \/ failed' = [failed EXCEPT ![e] = RowRetried(r)]
            \/ failed' = [failed EXCEPT ![e] = [r EXCEPT !.status = "resolved"]]
            \/ failed' = [failed EXCEPT ![e] =
                             [r EXCEPT !.status = "retrying", !.retryCount = 0]]
        BY <2>7 DEF RowAction, r
      <3>3. CASE failed' = [failed EXCEPT ![e] = RowRetried(r)]
        BY <2>3, <3>1, <3>3
      <3>4. CASE failed' = [failed EXCEPT ![e] = [r EXCEPT !.status = "resolved"]]
        BY <1>2, <2>1, <2>5, <3>4
      <3>5. CASE failed' = [failed EXCEPT ![e] =
                               [r EXCEPT !.status = "retrying", !.retryCount = 0]]
        BY <2>5, <3>1, <3>5
      <3> QED BY <3>2, <3>3, <3>4, <3>5
    <2>8. CASE RecoveryLoop(e)
      <3>1. \/ failed' = [failed EXCEPT ![e] = [r EXCEPT !.status = "resolved"]]
            \/ r.retryCount = 0 /\ failed' = [failed EXCEPT ![e] = RowRetried(r)]
        <4>1. r.retryCount >= 1 \/ r.retryCount = 0
          BY <1>2
        <4> QED BY <2>8, <4>1 DEF RecoveryLoop, r
      <3>2. CASE failed' = [failed EXCEPT ![e] = [r EXCEPT !.status = "resolved"]]
        BY <1>2, <2>1, <2>5, <3>2
      <3>3. CASE r.retryCount = 0 /\ failed' = [failed EXCEPT ![e] = RowRetried(r)]
        <4>1. r.retryCount + 1 = 1 /\ 1 \in 0..(MaxRetry + MaxOps)
          BY <3>3, ConstantFacts
        <4> QED BY <2>3, <2>5, <3>3, <4>1
      <3> QED BY <3>1, <3>2, <3>3
    <2> QED BY <2>6, <2>7, <2>8
  <1>4. ops <= ops' /\ ops' \in Nat
    BY <1>1, Standing, ConstantFacts
  <1>5. /\ failed' \in [Events -> FailedRow] /\ RetryBounds'
        /\ \A f \in Events : HasRow(f) => HasRow(f)'
    <2>1. PICK st \in {"retrying", "quarantined", "resolved", "dead"},
               n \in 0..(MaxRetry + MaxOps) :
             /\ failed' = [failed EXCEPT ![e] = [r EXCEPT !.status = st, !.retryCount = n]]
             /\ n <= MaxRetry + ops'
      BY <1>3
    <2> DEFINE row == [r EXCEPT !.status = st, !.retryCount = n]
    <2>2. row \in FailedRow \ {NoRow}
      BY <1>2, EditedRow
    <2>3. row.retryCount = n /\ row.envelope = r.envelope
      BY <1>2 DEF FailedRow, HasRow
    <2> HIDE DEF row
    <2>4. failed' = [failed EXCEPT ![e] = row]
      BY <2>1 DEF row
    <2> QED BY <1>4, <2>1, <2>2, <2>3, <2>4, RowChanged
  <1>6. OpSound'
    <2>1. OpSound
      BY Standing
    <2>2. op.act = "replayed" => op.target \in Events
      BY <2>1 DEF OpSound, NoOp
    <2>3. op.act = "replayed" => HasRow(op.target)'
      BY <1>1, <1>5, <2>1, <2>2 DEF OpSound, HasRow
    <2> QED BY <1>1, <2>1, <2>3 DEF OpSound, Exists
  <1>7. /\ ledger' \in [Intents -> Seq(Rows)] /\ LedgerSound'
        /\ \A i \in Intents : Terminal(i) => Terminal(i)'
    BY <1>1, LedgerKept
  <1>8. queue' \in Seq(Envelopes) /\ \A env \in CopiesIn(queue') : Spare(env)'
    BY <1>1, <1>4, QueueKept
  <1>9. replays' \in [Intents -> 0..MaxOps] /\ Replays'
    BY <1>1, <1>4, ReplaysKept
  <1> QED BY <1>1, <1>5, <1>6, <1>7, <1>8, <1>9, OperatorStepInv

LEMMA QuarantineReplayInv ==
    ASSUME Inv, NEW e \in Events, QuarantineReplay(e)
    PROVE  Inv'
  <1> DEFINE x == failed[e].envelope
  <1>1. /\ operatorUnchanged /\ UNCHANGED <<ledger, failed, replays, dispatch>>
        /\ ops < MaxOps /\ ops' = ops + 1 /\ op = NoOp /\ HasRow(e)
        /\ op' = [act |-> "replayed", target |-> e] /\ queue' = Append(queue, x)
    BY DEF QuarantineReplay, Acts, operatorUnchanged
  <1>2. ops <= ops' /\ ops' \in Nat /\ ops \in Nat
    BY <1>1, Standing
  <1>3. x \in Envelopes /\ x.retry \in Nat /\ x.retry <= MaxRetry + ops
    BY <1>1, Standing, RowFacts, EnvelopeFacts DEF HasRow, RetryBounds
  <1> HIDE DEF x
  <1>4. x.retry < MaxRetry + ops'
    BY <1>1, <1>2, <1>3, ConstantFacts
  <1>5. queue' \in Seq(Envelopes) /\ CopiesIn(queue') = CopiesIn(queue) \cup {x}
    BY <1>1, <1>3, Standing, CopiesAppend
  <1>6. \A env \in CopiesIn(queue') : Spare(env)'
    <2>1. CopiesIn(queue) \subseteq Envelopes
      BY Standing, CopiesOf
    <2>2. \A env \in Envelopes : Spare(env) => Spare(env)'
      BY <1>2, EnvelopeFacts, ConstantFacts DEF Spare
    <2>3. \A env \in CopiesIn(queue) : Spare(env)'
      BY <2>1, <2>2, Standing
    <2>4. \A env \in {x} : Spare(env)'
      BY <1>4 DEF Spare
    <2> QED BY <1>5, <2>3, <2>4
  <1>7. OpSound'
    <2>1. /\ op'.act = "replayed" /\ op'.target = e
          /\ op' \in [act : {"replayed"}, target : Events]
      BY <1>1
    <2>2. HasRow(e)'
      BY <1>1 DEF HasRow
    <2>3. HasRow(op.target)'
      BY <2>1, <2>2 DEF HasRow
    <2> QED BY <2>1, <2>3 DEF OpSound
  <1>8. /\ ledger' \in [Intents -> Seq(Rows)] /\ LedgerSound'
        /\ \A i \in Intents : Terminal(i) => Terminal(i)'
    BY <1>1, LedgerKept
  <1>9. failed' \in [Events -> FailedRow] /\ RetryBounds'
    BY <1>1, <1>2, FailedKept
  <1>10. replays' \in [Intents -> 0..MaxOps] /\ Replays'
    BY <1>1, <1>2, ReplaysKept
  <1> QED BY <1>1, <1>5, <1>6, <1>7, <1>8, <1>9, <1>10, OperatorStepInv

LEMMA QuarantineReplayCommitInv ==
    ASSUME Inv, QuarantineReplayCommit
    PROVE  Inv'
  <1>1. /\ operatorUnchanged /\ UNCHANGED <<ledger, queue, replays, ops, dispatch>>
        /\ op.act = "replayed" /\ op' = NoOp
    BY DEF QuarantineReplayCommit, operatorUnchanged
  <1>2. ops <= ops' /\ ops' \in Nat
    BY <1>1, Standing
  <1>3. PICK e \in Events : e = op.target
    BY <1>1, Standing DEF OpSound, NoOp
  <1> DEFINE row == [failed[e] EXCEPT !.status = "retrying", !.retryCount = 0]
  <1>4. HasRow(e)
    BY <1>1, <1>3, Standing DEF OpSound
  <1>5. /\ row \in FailedRow \ {NoRow} /\ row.retryCount = 0
        /\ row.envelope = failed[e].envelope
    <2>1. row \in FailedRow \ {NoRow}
      <3>1. 0 \in 0..(MaxRetry + MaxOps)
        BY ConstantFacts
      <3> QED BY <1>4, <3>1, EditedRow
    <2> QED BY <1>4, <2>1, Standing DEF FailedRow, HasRow
  <1>6. failed' = [failed EXCEPT ![e] = row]
    BY <1>3, Standing DEF QuarantineReplayCommit
  <1> HIDE DEF row
  <1>7. row.retryCount <= MaxRetry + ops'
    <2>1. PICK b \in Nat : b = ops'
      BY <1>2
    <2>2. 0 <= MaxRetry + b
      BY ConstantFacts
    <2> QED BY <1>5, <2>1, <2>2
  <1>8. failed' \in [Events -> FailedRow] /\ RetryBounds'
    BY <1>2, <1>5, <1>6, <1>7, RowChanged
  <1>9. OpSound'
    BY <1>1 DEF OpSound, NoOp
  <1>10. /\ ledger' \in [Intents -> Seq(Rows)] /\ LedgerSound'
         /\ \A i \in Intents : Terminal(i) => Terminal(i)'
    BY <1>1, LedgerKept
  <1>11. queue' \in Seq(Envelopes) /\ \A env \in CopiesIn(queue') : Spare(env)'
    BY <1>1, <1>2, QueueKept
  <1>12. replays' \in [Intents -> 0..MaxOps] /\ Replays'
    <2>1. op'.act # "replay"
      BY <1>1 DEF NoOp
    <2> QED BY <1>1, <1>2, <2>1, ReplaysKept
  <1> QED BY <1>1, <1>8, <1>9, <1>10, <1>11, <1>12, OperatorStepInv

LEMMA RecoveryReadInv ==
    ASSUME Inv, NEW i \in Intents, RecoveryRead(i)
    PROVE  Inv'
  <1>1. PICK kind \in {"replay", "finalize"} :
          Acts(kind) /\ op' = [act |-> kind, target |-> i]
    BY DEF RecoveryRead
  <1>2. /\ operatorUnchanged /\ UNCHANGED <<ledger, queue, failed, replays, dispatch>>
        /\ ops < MaxOps /\ ops' = ops + 1 /\ op = NoOp /\ Exists(i)
    BY <1>1 DEF RecoveryRead, Acts, operatorUnchanged
  <1>3. ops <= ops' /\ ops' \in Nat
    BY <1>2, Standing
  <1>4. OpSound'
    <2>1. /\ op'.act = kind /\ op'.target = i
          /\ op' \in [act : {"replay", "finalize"}, target : Intents]
      BY <1>1
    <2>2. Exists(op.target)'
      BY <1>2, <2>1 DEF Exists
    <2> QED BY <2>1, <2>2 DEF OpSound
  <1>5. replays' \in [Intents -> 0..MaxOps] /\ Replays'
    BY <1>2, <1>3, ReplaysKept DEF NoOp
  <1>6. /\ ledger' \in [Intents -> Seq(Rows)] /\ LedgerSound'
        /\ \A j \in Intents : Terminal(j) => Terminal(j)'
    BY <1>2, LedgerKept
  <1>7. queue' \in Seq(Envelopes) /\ \A env \in CopiesIn(queue') : Spare(env)'
    BY <1>2, <1>3, QueueKept
  <1>8. failed' \in [Events -> FailedRow] /\ RetryBounds'
    BY <1>2, <1>3, FailedKept
  <1> QED BY <1>2, <1>4, <1>5, <1>6, <1>7, <1>8, OperatorStepInv

LEMMA RecoveryReplayInv ==
    ASSUME Inv, RecoveryReplay
    PROVE  Inv'
  <1>1. /\ operatorUnchanged /\ UNCHANGED <<ledger, failed, ops, dispatch>>
        /\ op.act = "replay" /\ op' = NoOp
    BY DEF RecoveryReplay, operatorUnchanged
  <1>2. ops <= ops' /\ ops' \in Nat /\ ops <= MaxOps
    BY <1>1, Standing, ConstantFacts
  <1>3. PICK i \in Intents : i = op.target
    BY <1>1, Standing DEF OpSound, NoOp
  <1>4. PICK n : n = replays[i] + 1
    OBVIOUS
  <1> DEFINE x == [event |-> <<i, n>>, retry |-> 0]
  <1>5. queue' = Append(queue, x) /\ replays' = [replays EXCEPT ![i] = n]
    BY <1>3, <1>4 DEF RecoveryReplay
  <1>6. n <= ops /\ n \in 0..MaxOps
    <2>1. replays[i] + (IF op.act = "replay" /\ op.target = i THEN 1 ELSE 0) <= ops
      BY Standing DEF Replays
    <2>2. n <= ops /\ n \in Nat
      BY <1>1, <1>3, <1>4, <2>1, Standing
    <2>3. ops \in 0..MaxOps /\ MaxOps \in Nat
      BY Standing, ConstantFacts
    <2> QED BY <2>2, <2>3
  <1>7. x \in Envelopes /\ Spare(x)
    <2>1. <<i, n>> \in Events /\ 0 \in 0..(MaxRetry + MaxOps) /\ 0 < MaxRetry + ops
      BY <1>6, EventFacts, ConstantFacts, Standing
    <2> QED BY <2>1 DEF Envelopes, Spare
  <1> HIDE DEF x
  <1>8. queue' \in Seq(Envelopes) /\ CopiesIn(queue') = CopiesIn(queue) \cup {x}
    BY <1>5, <1>7, Standing, CopiesAppend
  <1>9. \A env \in CopiesIn(queue') : Spare(env)'
    BY <1>1, <1>7, <1>8, Standing DEF Spare
  <1>10. replays' \in [Intents -> 0..MaxOps] /\ Replays'
    <2>1. replays' \in [Intents -> 0..MaxOps]
      BY <1>5, <1>6, Standing
    <2>2. op'.act = "none"
      BY <1>1 DEF NoOp
    <2>3. ASSUME NEW j \in Intents PROVE replays[j] \in Nat /\ replays[j] <= ops
      <3>1. replays[j] + (IF op.act = "replay" /\ op.target = j THEN 1 ELSE 0) <= ops
        BY Standing DEF Replays
      <3>2. replays[j] \in Nat /\ ops \in Nat
        BY Standing
      <3> QED BY <3>1, <3>2
    <2>4. \A j \in Intents : replays'[j] <= ops' /\ replays'[j] \in Nat
      BY <1>1, <1>5, <1>6, <2>3, Standing
    <2> QED BY <2>1, <2>2, <2>4 DEF Replays
  <1>11. OpSound'
    BY <1>1 DEF OpSound, NoOp
  <1>12. /\ ledger' \in [Intents -> Seq(Rows)] /\ LedgerSound'
         /\ \A j \in Intents : Terminal(j) => Terminal(j)'
    BY <1>1, LedgerKept
  <1>13. failed' \in [Events -> FailedRow] /\ RetryBounds'
    BY <1>1, <1>2, FailedKept
  <1> QED BY <1>1, <1>8, <1>9, <1>10, <1>11, <1>12, <1>13, OperatorStepInv

LEMMA RecoveryFinalizeInv ==
    ASSUME Inv, RecoveryFinalize
    PROVE  Inv'
  <1>1. /\ operatorUnchanged /\ UNCHANGED <<queue, failed, replays, ops, dispatch>>
        /\ op.act = "finalize" /\ op' = NoOp
    BY DEF RecoveryFinalize, operatorUnchanged
  <1>2. ops <= ops' /\ ops' \in Nat
    BY <1>1, Standing
  <1>3. PICK i \in Intents : i = op.target
    BY <1>1, Standing DEF OpSound, NoOp
  <1>4. Exists(i)
    BY <1>1, <1>3, Standing DEF OpSound
  <1> DEFINE rows == <<"manual">>
  <1>5. rows \in Seq(Rows) /\ "manual" \in Rows
    BY DEF Rows, FinalRows
  <1>6. ledger' = [ledger EXCEPT ![i] = @ \o rows]
    <2>1. Append(ledger[i], "manual") = ledger[i] \o rows
      BY <1>5, Standing, AppendIsConcat
    <2> QED BY <1>3, <2>1, Standing DEF RecoveryFinalize
  <1> HIDE DEF rows
  <1>7. /\ ledger' \in [Intents -> Seq(Rows)] /\ LedgerSound'
        /\ \A j \in Intents : Terminal(j) => Terminal(j)'
    BY <1>1, <1>4, <1>5, <1>6, LedgerGrows, Standing DEF Inv
  <1>8. OpSound'
    BY <1>1 DEF OpSound, NoOp
  <1>9. queue' \in Seq(Envelopes) /\ \A env \in CopiesIn(queue') : Spare(env)'
    BY <1>1, <1>2, QueueKept
  <1>10. failed' \in [Events -> FailedRow] /\ RetryBounds'
    BY <1>1, <1>2, FailedKept
  <1>11. replays' \in [Intents -> 0..MaxOps] /\ Replays'
    <2>1. op'.act # "replay"
      BY <1>1 DEF NoOp
    <2> QED BY <1>1, <1>2, <2>1, ReplaysKept
  <1> QED BY <1>1, <1>7, <1>8, <1>9, <1>10, <1>11, OperatorStepInv

-----------------------------------------------------------------------------
(* The invariant *)

LEMMA InitInv == Init => Inv
  <1> SUFFICES ASSUME Init PROVE Inv
    OBVIOUS
  <1>1. /\ NoRow \in FailedRow /\ NoRow.retryCount = 0 /\ NoRow.envelope.retry = 0
        /\ NoOp.act = "none"
    BY NoEnvelopeRetry DEF FailedRow, NoRow, NoOp
  <1>2. NoSession \in Session
    BY EmptySeq DEF NoSession, Session, Reasons
  <1>3. TypeOK
    BY <1>1, <1>2, EmptySeq, ConstantFacts DEF Init, TypeOK, Dispatches, Steps
  <1>4. OneRowPerHash /\ LedgerSound /\ ProcessedHadEffect
    BY DEF Init, OneRowPerHash, LedgerSound, ProcessedHadEffect
  <1>5. Counters
    <2>1. ops = 0 /\ op.act = "none" /\ queue = <<>> /\ retryQueue = <<>>
      BY <1>1 DEF Init
    <2>2. \A e \in Events : failed[e] = NoRow
      BY DEF Init
    <2>3. \A i \in Intents : replays[i] = 0
      BY DEF Init
    <2> QED BY <1>1, <2>1, <2>2, <2>3, NoCopies, ConstantFacts DEF Counters
  <1>6. OpSound
    BY DEF Init, OpSound, NoOp
  <1>7. WorkersSound
    <2>1. \A w \in Workers : pc[w] = "idle" /\ sess[w] = NoSession
      BY DEF Init
    <2>2. /\ NoSession.env = NoEnvelope /\ NoSession.batch = <<>> /\ NoSession.deferred = <<>>
          /\ NoSession.pend = <<>>
      BY DEF NoSession
    <2>3. 0 <= MaxRetry + ops
      BY ConstantFacts DEF Init
    <2>4. Fits("idle", NoSession)
      BY <2>2, <2>3, NoCopies, NoEnvelopeRetry DEF Fits, Handling, Attempting
    <2> QED BY <2>1, <2>4 DEF WorkersSound
  <1> QED BY <1>3, <1>4, <1>5, <1>6, <1>7 DEF Inv

LEMMA ToggleGateInv ==
    ASSUME Inv, ToggleGate \/ UNCHANGED vars
    PROVE  Inv'
  <1>1. UNCHANGED <<dispatch, ledger, queue, retryQueue, deadLetter, processed,
                    failed, pc, sess, op, replays, ops>>
    BY DEF ToggleGate, vars
  <1>2. TypeOK' /\ OneRowPerHash' /\ LedgerSound' /\ ProcessedHadEffect'
    BY <1>1 DEF Inv, TypeOK, OneRowPerHash, LedgerSound, ProcessedHadEffect, Terminal, Exists
  <1>3. Counters' /\ OpSound'
    BY <1>1 DEF Inv, Counters, OpSound, Spare, HasRow, Exists
  <1>4. WorkersSound'
    <2>1. Growth
      BY <1>1, Standing DEF Growth, Exists, Terminal
    <2> QED BY <1>1, <2>1, NoneMoves
  <1> QED BY <1>2, <1>3, <1>4 DEF Inv

LEMMA NextInv == Inv /\ [Next]_vars => Inv'
  <1> SUFFICES ASSUME Inv, [Next]_vars PROVE Inv'
    OBVIOUS
  <1>1. ASSUME NEW i \in Intents, Dispatch(i) \/ DispatchCrash(i) \/ RecoveryRead(i)
        PROVE  Inv'
    BY <1>1, DispatchInv, RecoveryReadInv
  <1>2. ASSUME NEW w \in Workers, WorkerStep(w) \/ WorkerCrash(w)
        PROVE  Inv'
    BY <1>2, ReleaseReadInv, ReleaseTrimInv, ReleaseDueInv, ReleaseDeferInv, ReleaseDeferredInv,
       ConsumeInv, CheckProcessedInv, LoadIntentInv, ExecuteOrderInv, ExecuteFaultInv,
       CommitOrderInv, MarkProcessedInv, AckInv, FailAckInv, FailEnqueueInv, FailRecordInv,
       WorkerCrashInv DEF WorkerStep
  <1>3. ASSUME NEW e \in Events,
               QuarantineReplay(e) \/ QuarantineClose(e) \/ RowAction(e) \/ RecoveryLoop(e)
        PROVE  Inv'
    BY <1>3, QuarantineReplayInv, RowActionInv
  <1>4. ASSUME QuarantineReplayCommit \/ RecoveryReplay \/ RecoveryFinalize PROVE Inv'
    BY <1>4, QuarantineReplayCommitInv, RecoveryReplayInv, RecoveryFinalizeInv
  <1>5. ASSUME ToggleGate \/ UNCHANGED vars PROVE Inv'
    BY <1>5, ToggleGateInv
  <1> QED BY <1>1, <1>2, <1>3, <1>4, <1>5 DEF Next

\* The state stays well formed: retry counts stay within max_retry and one
\* more for each operator action, and every row belongs to a known event.
THEOREM BusTyped == Spec => []TypeOK
  <1>1. Init => Inv
    BY InitInv
  <1>2. Inv /\ [Next]_vars => Inv'
    BY NextInv
  <1>3. Inv => TypeOK
    BY DEF Inv
  <1> QED BY <1>1, <1>2, <1>3, PTL DEF Spec

\* is_event_processed never hides work that was not done: mark_event_processed
\* follows the commit of the final row.
THEOREM ProcessedFinal == Spec => []ProcessedHadEffect
  <1>1. Init => Inv
    BY InitInv
  <1>2. Inv /\ [Next]_vars => Inv'
    BY NextInv
  <1>3. Inv => ProcessedHadEffect
    BY DEF Inv
  <1> QED BY <1>1, <1>2, <1>3, PTL DEF Spec

\* The unique index on intent_hash and the consumer's look at the intent make
\* of any number of racing dispatches of one decision at most one that trades.
THEOREM DecisionTradesOnce == Spec => []OneExecutionPerDecision
  <1>1. Init => Inv
    BY InitInv
  <1>2. Inv /\ [Next]_vars => Inv'
    BY NextInv
  <1>3. Inv => OneExecutionPerDecision
    BY DEF Inv, LedgerSound, OneRowPerHash, OneExecutionPerDecision, Exists
  <1> QED BY <1>1, <1>2, <1>3, PTL DEF Spec

-----------------------------------------------------------------------------
(* With one consumer *)

OneWorker == \A v, w \in Workers : v = w

NoConsumerRow(i) == \A k \in DOMAIN ledger[i] : ledger[i][k] \notin ConsumerRows

Decides(rows) == \E k \in DOMAIN rows : rows[k] \in ConsumerRows

\* A consumer that is about to add its row found none of its own.
First(step, s) ==
    step = "execute" \/ Decides(s.pend) => NoConsumerRow(IntentOf(s.env))

OnceInv == OneFinalRow /\ \A w \in Workers : First(pc[w], sess[w])

LEMMA NothingDecided == ~Decides(<<>>)
  <1>1. DOMAIN <<>> = {}
    OBVIOUS
  <1> QED BY <1>1 DEF Decides

LEMMA IdleFirst == \A step \in {"idle", "consume"} : First(step, NoSession)
  <1>1. NoSession.pend = <<>>
    BY DEF NoSession
  <1> QED BY <1>1, NothingDecided DEF First

\* A consumer's step that adds no row.
LEMMA OnceQuiet ==
    ASSUME Inv, OnceInv, OneWorker, NEW w \in Workers, NEW step, NEW s,
           pc' = [pc EXCEPT ![w] = step], sess' = [sess EXCEPT ![w] = s],
           UNCHANGED ledger, First(step, s)
    PROVE  OnceInv'
  <1>1. OneFinalRow'
    BY DEF OnceInv, OneFinalRow
  <1>2. First(step, s)'
    BY DEF First, NoConsumerRow
  <1>3. \A v \in Workers : pc'[v] = step /\ sess'[v] = s
    BY DEF OneWorker, Inv, TypeOK
  <1>4. \A v \in Workers : First(pc[v], sess[v])'
    BY <1>2, <1>3 DEF First, NoConsumerRow
  <1> QED BY <1>1, <1>4 DEF OnceInv

\* Rows are added for an intent the consumer has not decided, and none that
\* decides it is added twice.
LEMMA OnceLedger ==
    ASSUME Inv, OneFinalRow, NEW i \in Intents, NEW rows \in Seq(Rows),
           ledger' = [ledger EXCEPT ![i] = @ \o rows],
           \A k, n \in DOMAIN rows :
               rows[k] \in ConsumerRows /\ rows[n] \in ConsumerRows => k = n,
           Decides(rows) => NoConsumerRow(i)
    PROVE  /\ OneFinalRow'
           /\ ~Decides(rows) => \A j \in Intents : NoConsumerRow(j) => NoConsumerRow(j)'
  <1>1. /\ ledger'[i] = ledger[i] \o rows /\ ledger[i] \in Seq(Rows)
        /\ \A j \in Intents : j # i => ledger'[j] = ledger[j]
    BY LedgerGrows DEF Inv, TypeOK
  <1> DEFINE old == ledger[i]
             new == ledger'[i]
  <1>2. /\ new \in Seq(Rows) /\ Len(new) = Len(old) + Len(rows)
        /\ \A k \in 1..(Len(old) + Len(rows)) :
              new[k] = IF k <= Len(old) THEN old[k] ELSE rows[k - Len(old)]
    BY <1>1, ConcatProperties
  <1>3. /\ Len(old) \in Nat /\ Len(rows) \in Nat /\ DOMAIN old = 1..Len(old)
        /\ DOMAIN rows = 1..Len(rows) /\ DOMAIN new = 1..Len(new)
    BY <1>1, <1>2, LenProperties
  <1>4. \A k, n \in DOMAIN old : old[k] \in ConsumerRows /\ old[n] \in ConsumerRows => k = n
    BY DEF OneFinalRow
  <1>5. Decides(rows) => \A k \in DOMAIN old : old[k] \notin ConsumerRows
    BY DEF NoConsumerRow
  <1> HIDE DEF old, new
  <1>6. \A k \in DOMAIN new : \/ k \in DOMAIN old /\ new[k] = old[k]
                              \/ k - Len(old) \in DOMAIN rows /\ new[k] = rows[k - Len(old)]
    BY <1>2, <1>3
  <1>7. ASSUME NEW k \in DOMAIN new, NEW n \in DOMAIN new,
               new[k] \in ConsumerRows, new[n] \in ConsumerRows
        PROVE  k = n
    <2>1. CASE Decides(rows)
      <3>1. k - Len(old) \in DOMAIN rows /\ rows[k - Len(old)] \in ConsumerRows
        BY <1>5, <1>6, <1>7, <2>1
      <3>2. n - Len(old) \in DOMAIN rows /\ rows[n - Len(old)] \in ConsumerRows
        BY <1>5, <1>6, <1>7, <2>1
      <3>3. k - Len(old) = n - Len(old)
        BY <3>1, <3>2
      <3> QED BY <1>2, <1>3, <3>3
    <2>2. CASE ~Decides(rows)
      BY <1>4, <1>6, <1>7, <2>2 DEF Decides
    <2> QED BY <2>1, <2>2
  <1>8. OneFinalRow'
    <2>1. ASSUME NEW j \in Intents, NEW k \in DOMAIN ledger'[j], NEW n \in DOMAIN ledger'[j],
                 ledger'[j][k] \in ConsumerRows, ledger'[j][n] \in ConsumerRows
          PROVE  k = n
      <3>1. CASE j = i
        BY <1>7, <2>1, <3>1 DEF new
      <3>2. CASE j # i
        BY <1>1, <2>1, <3>2 DEF OneFinalRow
      <3> QED BY <3>1, <3>2
    <2> QED BY <2>1 DEF OneFinalRow
  <1>9. ASSUME ~Decides(rows), NEW j \in Intents, NoConsumerRow(j) PROVE NoConsumerRow(j)'
    <2>1. CASE j = i
      BY <1>6, <1>9, <2>1 DEF NoConsumerRow, Decides, old, new
    <2>2. CASE j # i
      BY <1>1, <1>9, <2>2 DEF NoConsumerRow
    <2> QED BY <2>1, <2>2
  <1> QED BY <1>8, <1>9

\* The consumer commits what it holds, and holds no row afterwards.
LEMMA OnceRows ==
    ASSUME Inv, OnceInv, OneWorker, NEW w \in Workers, NEW step \in {"mark", "idle"}, NEW s,
           NEW t, t = sess[w], IntentOf(t.env) \in Intents, t.pend \in FullRows \cup SomeRows,
           pc' = [pc EXCEPT ![w] = step], sess' = [sess EXCEPT ![w] = s], s.pend = <<>>,
           ledger' = [ledger EXCEPT ![IntentOf(t.env)] = @ \o t.pend]
    PROVE  OnceInv'
  <1>1. /\ t.pend \in Seq(Rows)
        /\ \A k, n \in DOMAIN t.pend :
              t.pend[k] \in ConsumerRows /\ t.pend[n] \in ConsumerRows => k = n
    BY PendingRows
  <1>2. Decides(t.pend) => NoConsumerRow(IntentOf(t.env))
    BY DEF OnceInv, First
  <1>3. OneFinalRow'
    BY <1>1, <1>2, OnceLedger DEF OnceInv
  <1>4. \A v \in Workers : pc'[v] = step /\ sess'[v] = s
    BY DEF OneWorker, Inv, TypeOK
  <1>5. ~Decides(s.pend) /\ step # "execute"
    BY NothingDecided
  <1>6. \A v \in Workers : First(pc[v], sess[v])'
    BY <1>4, <1>5 DEF First, Decides
  <1> QED BY <1>3, <1>6 DEF OnceInv

LEMMA OnceWorker ==
    ASSUME Inv, OnceInv, OneWorker, NEW w \in Workers, WorkerStep(w) \/ WorkerCrash(w)
    PROVE  OnceInv'
  <1>0. PICK t : t = sess[w]
    OBVIOUS
  <1>1. t \in Session /\ Fits(pc[w], t) /\ First(pc[w], t)
    BY <1>0, Holding DEF OnceInv
  <1>2. pc \in [Workers -> Steps] /\ sess \in [Workers -> Session]
    BY DEF Inv, TypeOK
  <1>3. CASE ReleaseRead(w) \/ ReleaseTrim(w) \/ ReleaseDue(w) \/ ReleaseDefer(w)
             \/ Consume(w) \/ FailAck(w) \/ FailEnqueue(w) \/ MarkProcessed(w)
    <2>1. PICK step, s :
             /\ pc' = [pc EXCEPT ![w] = step] /\ sess' = [sess EXCEPT ![w] = s]
             /\ step # "execute" /\ s.pend = t.pend
             /\ Decides(t.pend) => IntentOf(s.env) = IntentOf(t.env)
      <3>1. pc[w] \in {"idle", "trim", "release", "consume"} => ~Decides(t.pend)
        BY <1>1, NothingDecided DEF Fits
      <3>2. CASE ReleaseRead(w)
        <4> DEFINE b == SubSeq(retryQueue, 1, Sets!Min({ReleaseLimit, Len(retryQueue)}))
                   p == IF retryQueue = <<>> THEN "consume" ELSE "trim"
        <4>1. /\ pc' = [pc EXCEPT ![w] = p] /\ sess' = [sess EXCEPT ![w] = [t EXCEPT !.batch = b]]
              /\ pc[w] = "idle"
          BY <1>0, <3>2 DEF ReleaseRead, Goto
        <4>2. p # "execute" /\ [t EXCEPT !.batch = b].pend = t.pend
          BY <1>1 DEF Session
        <4> HIDE DEF b, p
        <4> QED BY <3>1, <4>1, <4>2
      <3>3. CASE ReleaseTrim(w)
        BY <1>0, <1>2, <3>3 DEF ReleaseTrim, Goto
      <3>4. CASE ReleaseDue(w)
        <4> DEFINE s == [t EXCEPT !.batch = Tail(t.batch)]
        <4>1. /\ pc' = [pc EXCEPT ![w] = "release"] /\ sess' = [sess EXCEPT ![w] = s]
              /\ pc[w] = "release"
          BY <1>0, <1>2, <3>4 DEF ReleaseDue
        <4>2. s.pend = t.pend
          BY <1>1 DEF Session
        <4> HIDE DEF s
        <4> QED BY <3>1, <4>1, <4>2
      <3>5. CASE ReleaseDefer(w)
        <4> DEFINE s == [t EXCEPT !.batch = Tail(t.batch),
                                  !.deferred = Append(t.deferred, Head(t.batch))]
        <4>1. /\ pc' = [pc EXCEPT ![w] = "release"] /\ sess' = [sess EXCEPT ![w] = s]
              /\ pc[w] = "release"
          BY <1>0, <1>2, <3>5 DEF ReleaseDefer
        <4>2. s.pend = t.pend
          BY <1>1 DEF Session
        <4> HIDE DEF s
        <4> QED BY <3>1, <4>1, <4>2
      <3>6. CASE Consume(w)
        <4>1. CASE queue = <<>>
          BY <1>0, <1>2, <3>6, <4>1 DEF Consume, Goto
        <4>2. CASE queue # <<>>
          <5> DEFINE s == [t EXCEPT !.env = Seqs!Last(queue)]
          <5>1. /\ pc' = [pc EXCEPT ![w] = "check"] /\ sess' = [sess EXCEPT ![w] = s]
                /\ pc[w] = "consume"
            BY <1>0, <3>6, <4>2 DEF Consume, Goto
          <5>2. s.pend = t.pend
            BY <1>1 DEF Session
          <5> HIDE DEF s
          <5> QED BY <3>1, <5>1, <5>2
        <4> QED BY <4>1, <4>2
      <3>7. CASE FailAck(w)
        <4> DEFINE e == [t.env EXCEPT !.retry = t.env.retry + 1]
                   s == [t EXCEPT !.env = e]
        <4>1. /\ pc' = [pc EXCEPT ![w] = "park"] /\ sess' = [sess EXCEPT ![w] = s]
              /\ pc[w] = "fail"
          BY <1>0, <3>7 DEF FailAck, Goto
        <4>2. t.env \in Envelopes
          BY <1>1, <4>1 DEF Fits, Handling, Attempting
        <4>3. e.event = t.env.event
          BY <4>2 DEF Envelopes
        <4>4. s.pend = t.pend /\ s.env = e
          BY <1>1 DEF Session
        <4> HIDE DEF s, e
        <4> QED BY <4>1, <4>3, <4>4 DEF IntentOf
      <3>8. CASE FailEnqueue(w)
        BY <1>0, <1>2, <3>8 DEF FailEnqueue, Goto
      <3>9. CASE MarkProcessed(w)
        BY <1>0, <1>2, <3>9 DEF MarkProcessed, Goto
      <3> QED BY <1>3, <3>2, <3>3, <3>4, <3>5, <3>6, <3>7, <3>8, <3>9
    <2>2. UNCHANGED ledger
      BY <1>3 DEF ReleaseRead, ReleaseTrim, ReleaseDue, ReleaseDefer, Consume, FailAck,
                  FailEnqueue, MarkProcessed, storesUnchanged
    <2>3. First(step, s)
      BY <1>1, <2>1 DEF First
    <2> QED BY <2>1, <2>2, <2>3, OnceQuiet
  <1>4. CASE ReleaseDeferred(w) \/ Ack(w) \/ WorkerCrash(w)
    <2>1. PICK step \in {"idle", "consume"} :
             pc' = [pc EXCEPT ![w] = step] /\ sess' = [sess EXCEPT ![w] = NoSession]
      BY <1>4 DEF ReleaseDeferred, Ack, WorkerCrash, Goto
    <2>2. UNCHANGED ledger
      BY <1>4 DEF ReleaseDeferred, Ack, WorkerCrash, storesUnchanged
    <2> QED BY <2>1, <2>2, IdleFirst, OnceQuiet
  <1>5. CASE CheckProcessed(w)
    <2>1. UNCHANGED ledger /\ pc[w] = "check"
      BY <1>5 DEF CheckProcessed, storesUnchanged
    <2>2. CASE t.env.event \in processed
      <3>1. pc' = [pc EXCEPT ![w] = "idle"] /\ sess' = [sess EXCEPT ![w] = NoSession]
        BY <1>0, <1>5, <2>2 DEF CheckProcessed, Goto
      <3> QED BY <2>1, <3>1, IdleFirst, OnceQuiet
    <2>3. CASE t.env.event \notin processed
      <3>1. pc' = [pc EXCEPT ![w] = "load"] /\ sess' = [sess EXCEPT ![w] = t]
        BY <1>0, <1>2, <1>5, <2>3 DEF CheckProcessed, Goto
      <3>2. First("load", t)
        BY <1>1 DEF First
      <3> QED BY <2>1, <3>1, <3>2, OnceQuiet
    <2> QED BY <2>2, <2>3
  <1>6. CASE LoadIntent(w)
    <2> DEFINE i == IntentOf(t.env)
    <2>1. UNCHANGED ledger /\ pc[w] = "load"
      BY <1>6 DEF LoadIntent, storesUnchanged
    <2>2. t.pend = <<>>
      BY <1>1, <2>1 DEF Fits
    <2>3. Admission(i) \in {"open", "blocked"} => NoConsumerRow(i)
      BY DEF Admission, Terminal, NoConsumerRow, Final, FinalRows, ConsumerRows
    <2>4. CASE Admission(i) = "open"
      <3>1. pc' = [pc EXCEPT ![w] = "execute"] /\ sess' = [sess EXCEPT ![w] = t]
        BY <1>0, <1>2, <1>6, <2>4 DEF LoadIntent, Goto, ImmediateQuarantine
      <3>2. First("execute", t)
        BY <2>3, <2>4 DEF First
      <3> QED BY <2>1, <3>1, <3>2, OnceQuiet
    <2>5. CASE Admission(i) = "blocked"
      <3> DEFINE s == [t EXCEPT !.pend = <<"blocked">>]
      <3>1. pc' = [pc EXCEPT ![w] = "commit"] /\ sess' = [sess EXCEPT ![w] = s]
        BY <1>0, <1>6, <2>5 DEF LoadIntent, Goto, ImmediateQuarantine
      <3>2. s.env = t.env
        BY <1>1 DEF Session
      <3> HIDE DEF s
      <3>3. First("commit", s)
        BY <2>3, <2>5, <3>2 DEF First
      <3> QED BY <2>1, <3>1, <3>3, OnceQuiet
    <2>6. CASE Admission(i) \in ImmediateQuarantine
      <3> DEFINE r == Admission(i)
                 s == [t EXCEPT !.reason = r]
      <3>1. pc' = [pc EXCEPT ![w] = "fail"] /\ sess' = [sess EXCEPT ![w] = s]
        BY <1>0, <1>6, <2>6 DEF LoadIntent, Goto, ImmediateQuarantine
      <3> HIDE DEF r
      <3>2. s.pend = <<>>
        BY <1>1, <2>2 DEF Session
      <3> HIDE DEF s
      <3>3. First("fail", s)
        BY <3>2, NothingDecided DEF First
      <3> QED BY <2>1, <3>1, <3>3, OnceQuiet
    <2> QED BY <1>0, <1>6, <2>4, <2>5, <2>6 DEF LoadIntent
  <1>7. CASE ExecuteOrder(w) \/ ExecuteFault(w)
    <2>1. /\ UNCHANGED ledger /\ pc[w] = "execute" /\ NoConsumerRow(IntentOf(t.env))
      BY <1>0, <1>1, <1>7 DEF ExecuteOrder, ExecuteFault, storesUnchanged, First
    <2>2. PICK step, s : /\ pc' = [pc EXCEPT ![w] = step] /\ sess' = [sess EXCEPT ![w] = s]
                         /\ s.env = t.env
      <3>1. CASE ExecuteOrder(w)
        <4> DEFINE s == [t EXCEPT !.pend = ExecutionRows]
        <4>1. pc' = [pc EXCEPT ![w] = "commit"] /\ sess' = [sess EXCEPT ![w] = s]
          BY <1>0, <3>1 DEF ExecuteOrder, Goto
        <4>2. s.env = t.env
          BY <1>1 DEF Session
        <4> HIDE DEF s
        <4> QED BY <4>1, <4>2
      <3>2. CASE ExecuteFault(w)
        <4>1. PICK n \in 0..Len(ExecutionRows) :
                sess' = [sess EXCEPT ![w].pend = SubSeq(ExecutionRows, 1, n),
                                     ![w].reason = IF n = 0 THEN "exchange_adapter_failure"
                                                   ELSE "worker_internal_error"]
          BY <3>2 DEF ExecuteFault
        <4> DEFINE p == SubSeq(ExecutionRows, 1, n)
                   r == IF n = 0 THEN "exchange_adapter_failure" ELSE "worker_internal_error"
                   s == [t EXCEPT !.pend = p, !.reason = r]
        <4>2. pc' = [pc EXCEPT ![w] = "fail"] /\ sess' = [sess EXCEPT ![w] = s]
          BY <1>0, <1>1, <1>2, <3>2, <4>1 DEF ExecuteFault, Goto, Session
        <4> HIDE DEF p, r
        <4>3. s.env = t.env
          BY <1>1 DEF Session
        <4> HIDE DEF s
        <4> QED BY <4>2, <4>3
      <3> QED BY <1>7, <3>1, <3>2
    <2>3. First(step, s)
      BY <2>1, <2>2 DEF First
    <2> QED BY <2>1, <2>2, <2>3, OnceQuiet
  <1>8. CASE CommitOrder(w)
    <2> DEFINE s == [t EXCEPT !.pend = <<>>]
    <2>1. /\ pc[w] = "commit" /\ pc' = [pc EXCEPT ![w] = "mark"]
          /\ sess' = [sess EXCEPT ![w] = s]
          /\ ledger' = [ledger EXCEPT ![IntentOf(t.env)] = @ \o t.pend]
      BY <1>0, <1>8 DEF CommitOrder, Goto, AddRows
    <2>2. s.pend = <<>> /\ t.pend \in FullRows /\ IntentOf(t.env) \in Intents
      BY <1>0, <1>1, <2>1, Holding DEF Session, Fits, Handling, Attempting
    <2> HIDE DEF s
    <2> QED BY <1>0, <2>1, <2>2, OnceRows
  <1>9. CASE FailRecord(w)
    <2>1. /\ pc[w] = "record" /\ pc' = [pc EXCEPT ![w] = "idle"]
          /\ sess' = [sess EXCEPT ![w] = NoSession]
      BY <1>9 DEF FailRecord, Goto
    <2>2. t.pend \in SomeRows /\ IntentOf(t.env) \in Intents /\ NoSession.pend = <<>>
      BY <1>0, <1>1, <2>1, Holding DEF Fits, Handling, NoSession
    <2>3. CASE t.pend = <<>>
      <3>1. UNCHANGED ledger
        BY <1>0, <1>9, <2>3 DEF FailRecord
      <3> QED BY <2>1, <3>1, IdleFirst, OnceQuiet
    <2>4. CASE t.pend # <<>>
      <3>1. ledger' = [ledger EXCEPT ![IntentOf(t.env)] = @ \o t.pend]
        BY <1>0, <1>9, <2>4 DEF FailRecord, AddRows
      <3> QED BY <1>0, <2>1, <2>2, <3>1, OnceRows
    <2> QED BY <2>3, <2>4
  <1> QED BY <1>3, <1>4, <1>5, <1>6, <1>7, <1>8, <1>9 DEF WorkerStep

LEMMA OnceNext == OneWorker /\ Inv /\ OnceInv /\ [Next]_vars => OnceInv'
  <1> SUFFICES ASSUME OneWorker, Inv, OnceInv, [Next]_vars PROVE OnceInv'
    OBVIOUS
  <1>1. ASSUME NEW w \in Workers, WorkerStep(w) \/ WorkerCrash(w)
        PROVE  OnceInv'
    BY <1>1, OnceWorker
  <1>2. ASSUME UNCHANGED <<ledger, pc, sess>> PROVE OnceInv'
    BY <1>2 DEF OnceInv, OneFinalRow, First, NoConsumerRow
  <1>3. ASSUME RecoveryFinalize PROVE OnceInv'
    <2>1. op.act = "finalize" /\ UNCHANGED <<pc, sess>>
      BY <1>3 DEF RecoveryFinalize, operatorUnchanged
    <2>2. PICK i \in Intents : i = op.target
      BY <2>1, Standing DEF OpSound, NoOp
    <2> DEFINE rows == <<"manual">>
    <2>3. rows \in Seq(Rows) /\ "manual" \in Rows /\ ~Decides(rows)
      BY DEF Rows, FinalRows, Decides, ConsumerRows
    <2>4. \A k, n \in DOMAIN rows : rows[k] \in ConsumerRows /\ rows[n] \in ConsumerRows => k = n
      BY <2>3 DEF Decides
    <2>5. ledger' = [ledger EXCEPT ![i] = @ \o rows]
      <3>1. Append(ledger[i], "manual") = ledger[i] \o rows
        BY <2>3, Standing, AppendIsConcat
      <3> QED BY <1>3, <2>2, <3>1, Standing DEF RecoveryFinalize
    <2> HIDE DEF rows
    <2>6. /\ OneFinalRow' /\ \A j \in Intents : NoConsumerRow(j) => NoConsumerRow(j)'
      BY <2>3, <2>4, <2>5, OnceLedger DEF OnceInv
    <2>7. ASSUME NEW v \in Workers, NEW p, NEW t, p = pc[v], t = sess[v] PROVE First(p, t)'
      <3>1. First(p, t) /\ Fits(p, t)
        BY <2>7, Holding DEF OnceInv
      <3>2. p = "execute" \/ Decides(t.pend) => IntentOf(t.env) \in Intents
        BY <3>1, NothingDecided, EnvelopeFacts DEF Fits, Handling, Attempting
      <3> QED BY <2>6, <3>1, <3>2 DEF First
    <2> QED BY <2>1, <2>6, <2>7 DEF OnceInv, First, NoConsumerRow
  <1>4. ASSUME NEW i \in Intents, Dispatch(i) \/ DispatchCrash(i) \/ RecoveryRead(i)
        PROVE  UNCHANGED <<ledger, pc, sess>>
    BY <1>4 DEF Dispatch, DispatchCheck, DispatchInsert, DispatchPublish, DispatchCommit,
                DispatchCrash, RecoveryRead, dispatchUnchanged, operatorUnchanged
  <1>5. ASSUME NEW e \in Events,
               QuarantineReplay(e) \/ QuarantineClose(e) \/ RowAction(e) \/ RecoveryLoop(e)
        PROVE  UNCHANGED <<ledger, pc, sess>>
    BY <1>5 DEF QuarantineReplay, QuarantineClose, RowAction, RecoveryLoop, operatorUnchanged
  <1>6. ASSUME QuarantineReplayCommit \/ RecoveryReplay \/ ToggleGate \/ UNCHANGED vars
        PROVE  UNCHANGED <<ledger, pc, sess>>
    BY <1>6 DEF QuarantineReplayCommit, RecoveryReplay, ToggleGate, vars, operatorUnchanged
  <1> QED BY <1>1, <1>2, <1>3, <1>4, <1>5, <1>6 DEF Next

LEMMA OnceInit == Init => OnceInv
  <1> SUFFICES ASSUME Init PROVE OnceInv
    OBVIOUS
  <1>1. OneFinalRow
    BY DEF Init, OneFinalRow
  <1>2. \A w \in Workers : First(pc[w], sess[w])
    BY IdleFirst DEF Init
  <1> QED BY <1>1, <1>2 DEF OnceInv

\* One consumer adds at most one final row for an intent, whatever is retried,
\* delivered again, replayed or closed by hand, and wherever it dies.
THEOREM DecidedOnce == ASSUME OneWorker PROVE Spec => []OneFinalRow
  <1>1. Init => Inv /\ OnceInv
    BY InitInv, OnceInit
  <1>2. (Inv /\ OnceInv) /\ [Next]_vars => (Inv /\ OnceInv)'
    BY NextInv, OnceNext
  <1>3. Inv /\ OnceInv => OneFinalRow
    BY DEF OnceInv
  <1> QED BY <1>1, <1>2, <1>3, PTL DEF Spec

-----------------------------------------------------------------------------
(* What a crash can lose *)

Held(s) == CopiesIn(s.batch) \cup CopiesIn(s.deferred) \cup ({s.env} \ {NoEnvelope})

\* The copies a lone consumer holds come from the retry queue, at most
\* ReleaseLimit of them; what it drops is still elsewhere.
Holds(step, s) ==
    /\ step \notin Releasing => s.batch = <<>> /\ s.deferred = <<>>
    /\ Len(s.batch) + Len(s.deferred) <= ReleaseLimit
    /\ step = "trim" => /\ s.deferred = <<>>
                        /\ Len(s.batch) <= Len(retryQueue)
                        /\ \A k \in 1..Len(s.batch) : s.batch[k] = retryQueue[k]
    /\ step = "record" => \/ s.env.event \in deadLetter
                          \/ s.env \in CopiesIn(retryQueue)

\* Intents whose event was published and which nobody will look at again.
Lost == {i \in Intents : /\ dispatch[i] \in {"published", "committed"}
                         /\ ~Terminal(i) /\ ~LiveIntent(i) /\ ~DeadLettered(i)}

LossInv ==
    /\ crashes \in Nat
    /\ IsFiniteSet(Lost) /\ Cardinality(Lost) <= crashes * ReleaseLimit
    /\ \A w \in Workers : Holds(pc[w], sess[w])

IntentsIn(seq) == {IntentOf(seq[k]) : k \in 1..Len(seq)}

LEMMA IntentsInBound ==
    ASSUME NEW s \in Seq(Envelopes)
    PROVE  /\ IsFiniteSet(IntentsIn(s)) /\ Cardinality(IntentsIn(s)) <= Len(s)
           /\ Cardinality(IntentsIn(s)) \in Nat
           /\ \A e \in CopiesIn(s) : IntentOf(e) \in IntentsIn(s)
  <1> DEFINE f == [k \in 1..Len(s) |-> IntentOf(s[k])]
             T == IntentsIn(s)
  <1>1. Len(s) \in Nat /\ IsFiniteSet(1..Len(s)) /\ Cardinality(1..Len(s)) = Len(s)
    <2>1. Len(s) \in Nat
      BY LenProperties
    <2>2. PICK n \in Nat : n = Len(s)
      BY <2>1
    <2>3. IsFiniteSet(1..n) /\ Cardinality(1..n) = IF 1 > n THEN 0 ELSE n - 1 + 1
      BY FS_Interval
    <2>4. (IF 1 > n THEN 0 ELSE n - 1 + 1) = n
      OBVIOUS
    <2> QED BY <2>1, <2>2, <2>3, <2>4
  <1>2. f \in Surjection(1..Len(s), T)
    BY DEF Surjection, IntentsIn
  <1> HIDE DEF f
  <1>3. IsFiniteSet(T) /\ Cardinality(T) <= Len(s) /\ Cardinality(T) \in Nat
    BY <1>1, <1>2, FS_Surjection, FS_CardinalityType
  <1>4. \A e \in CopiesIn(s) : IntentOf(e) \in T
    BY CopiesOf DEF IntentsIn
  <1> QED BY <1>3, <1>4

LEMMA UnionBound ==
    ASSUME NEW S, NEW T, IsFiniteSet(S), IsFiniteSet(T)
    PROVE  /\ IsFiniteSet(S \cup T) /\ Cardinality(S \cup T) <= Cardinality(S) + Cardinality(T)
           /\ Cardinality(S) \in Nat /\ Cardinality(T) \in Nat /\ Cardinality(S \cup T) \in Nat
  <1>1. /\ IsFiniteSet(S \cup T)
        /\ Cardinality(S \cup T) = Cardinality(S) + Cardinality(T) - Cardinality(S \cap T)
    BY FS_Union
  <1>2. IsFiniteSet(S \cap T)
    BY FS_Intersection
  <1>3. /\ Cardinality(S) \in Nat /\ Cardinality(T) \in Nat /\ Cardinality(S \cap T) \in Nat
        /\ Cardinality(S \cup T) \in Nat
    BY <1>1, <1>2, FS_CardinalityType
  <1> QED BY <1>1, <1>3

\* What a consumer holds in memory stands for at most ReleaseLimit intents.
LEMMA HeldBound ==
    ASSUME Inv, NEW step \in Steps, NEW s \in Session, Fits(step, s), Holds(step, s)
    PROVE  \E X : /\ IsFiniteSet(X) /\ Cardinality(X) \in Nat /\ Cardinality(X) <= ReleaseLimit
                  /\ \A e \in Held(s) : IntentOf(e) \in X
  <1>1. s.batch \in Seq(Envelopes) /\ s.deferred \in Seq(Envelopes)
    BY DEF Session
  <1>2. CASE step \in Releasing
    <2> DEFINE X == IntentsIn(s.batch) \cup IntentsIn(s.deferred)
    <2>1. s.env = NoEnvelope
      BY <1>2 DEF Fits, Releasing, Handling, Attempting
    <2>2. /\ IsFiniteSet(IntentsIn(s.batch)) /\ IsFiniteSet(IntentsIn(s.deferred))
          /\ Cardinality(IntentsIn(s.batch)) <= Len(s.batch)
          /\ Cardinality(IntentsIn(s.deferred)) <= Len(s.deferred)
          /\ Len(s.batch) \in Nat /\ Len(s.deferred) \in Nat
      BY <1>1, IntentsInBound, LenProperties
    <2>3. Len(s.batch) + Len(s.deferred) <= ReleaseLimit
      BY DEF Holds
    <2>4. IsFiniteSet(X) /\ Cardinality(X) \in Nat /\ Cardinality(X) <= ReleaseLimit
      <3>1. /\ IsFiniteSet(X) /\ Cardinality(X) \in Nat
            /\ Cardinality(X) <= Cardinality(IntentsIn(s.batch)) + Cardinality(IntentsIn(s.deferred))
            /\ Cardinality(IntentsIn(s.batch)) \in Nat /\ Cardinality(IntentsIn(s.deferred)) \in Nat
        BY <2>2, UnionBound
      <3>2. \A a, b, c, l, m, n \in Nat :
              c <= a + b /\ a <= l /\ b <= m /\ l + m <= n => c <= n
        OBVIOUS
      <3>3. Cardinality(X) <= ReleaseLimit
        <4> HIDE DEF X
        <4> QED BY <2>2, <2>3, <3>1, <3>2, ConstantFacts
      <3> QED BY <3>1, <3>3
    <2>5. \A e \in Held(s) : IntentOf(e) \in X
      BY <1>1, <2>1, IntentsInBound DEF Held
    <2> HIDE DEF X
    <2> QED BY <2>4, <2>5
  <1>3. CASE step \notin Releasing
    <2> DEFINE X == {IntentOf(s.env)}
    <2>1. s.batch = <<>> /\ s.deferred = <<>>
      BY <1>3 DEF Holds
    <2>2. IsFiniteSet(X) /\ Cardinality(X) = 1
      BY FS_Singleton
    <2>3. \A e \in Held(s) : IntentOf(e) \in X
      BY <2>1, NoCopies DEF Held
    <2> HIDE DEF X
    <2> QED BY <2>2, <2>3, ConstantFacts
  <1> QED BY <1>2, <1>3

\* The copies of a system with one consumer.
LEMMA LiveAlone ==
    ASSUME OneWorker, NEW w \in Workers
    PROVE  /\ Live = CopiesIn(queue) \cup CopiesIn(retryQueue) \cup Held(sess[w])
           /\ Live' = CopiesIn(queue') \cup CopiesIn(retryQueue') \cup Held(sess'[w])
  <1>1. Workers = {w}
    BY DEF OneWorker
  <1> QED BY <1>1 DEF Live, Held

\* A step that takes an intent out of reach leaves it final or parked.
LEMMA NothingLost ==
    ASSUME LossInv, UNCHANGED crashes,
           \A i \in Intents : Terminal(i) => Terminal(i)',
           deadLetter \subseteq deadLetter',
           \A i \in Intents : dispatch'[i] \in {"published", "committed"} =>
               dispatch[i] \in {"published", "committed"} \/ LiveIntent(i)',
           \A i \in Intents : LiveIntent(i) =>
               LiveIntent(i)' \/ Terminal(i)' \/ DeadLettered(i)',
           \A w \in Workers : Holds(pc[w], sess[w])'
    PROVE  LossInv'
  <1>1. \A i \in Intents : DeadLettered(i) => DeadLettered(i)'
    BY DEF DeadLettered
  <1>2. Lost' \subseteq Lost
    BY <1>1 DEF Lost
  <1>3. /\ IsFiniteSet(Lost') /\ Cardinality(Lost') <= Cardinality(Lost)
        /\ Cardinality(Lost') \in Nat /\ Cardinality(Lost) \in Nat
    BY <1>2, FS_Subset, FS_CardinalityType DEF LossInv
  <1>4. crashes' * ReleaseLimit = crashes * ReleaseLimit /\ crashes * ReleaseLimit \in Nat
    BY ConstantFacts DEF LossInv
  <1>5. Cardinality(Lost') <= crashes' * ReleaseLimit
    BY <1>3, <1>4 DEF LossInv
  <1> QED BY <1>3, <1>5 DEF LossInv

\* A step of the consumer: what it had is still there, final or parked.
LEMMA NothingDropped ==
    ASSUME Inv, LossInv, OneWorker, NEW w \in Workers, NEW step \in Steps, NEW s \in Session,
           pc' = [pc EXCEPT ![w] = step], sess' = [sess EXCEPT ![w] = s],
           UNCHANGED <<dispatch, crashes>>,
           \A i \in Intents : Terminal(i) => Terminal(i)',
           deadLetter \subseteq deadLetter',
           \A env \in CopiesIn(queue) \cup CopiesIn(retryQueue) \cup Held(sess[w]) :
               \/ \E e \in CopiesIn(queue') \cup CopiesIn(retryQueue') \cup Held(s) :
                     IntentOf(e) = IntentOf(env)
               \/ Terminal(IntentOf(env))'
               \/ \E e \in deadLetter' : e[1] = IntentOf(env),
           Holds(step, s)'
    PROVE  LossInv'
  <1>1. sess'[w] = s /\ \A v \in Workers : pc'[v] = step /\ sess'[v] = s
    BY DEF OneWorker, Inv, TypeOK
  <1>2. /\ Live = CopiesIn(queue) \cup CopiesIn(retryQueue) \cup Held(sess[w])
        /\ Live' = CopiesIn(queue') \cup CopiesIn(retryQueue') \cup Held(s)
    BY <1>1, LiveAlone
  <1>3. \A i \in Intents : LiveIntent(i) => LiveIntent(i)' \/ Terminal(i)' \/ DeadLettered(i)'
    <2>1. ASSUME NEW i \in Intents, LiveIntent(i)
          PROVE  LiveIntent(i)' \/ Terminal(i)' \/ DeadLettered(i)'
      <3>1. PICK env \in CopiesIn(queue) \cup CopiesIn(retryQueue) \cup Held(sess[w]) :
              i = IntentOf(env)
        BY <1>2, <2>1 DEF LiveIntent
      <3>2. CASE \E e \in CopiesIn(queue') \cup CopiesIn(retryQueue') \cup Held(s) :
                    IntentOf(e) = IntentOf(env)
        BY <1>2, <3>1, <3>2 DEF LiveIntent
      <3>3. CASE Terminal(IntentOf(env))'
        BY <3>1, <3>3
      <3>4. CASE \E e \in deadLetter' : e[1] = IntentOf(env)
        BY <3>1, <3>4 DEF DeadLettered
      <3> QED BY <3>2, <3>3, <3>4
    <2> QED BY <2>1
  <1>4. \A v \in Workers : Holds(pc[v], sess[v])'
    BY <1>1 DEF Holds
  <1> QED BY <1>3, <1>4, NothingLost

LEMMA HeldSame ==
    ASSUME NEW s, NEW t, t.env = s.env, t.batch = s.batch, t.deferred = s.deferred
    PROVE  Held(t) = Held(s)
  BY DEF Held

LEMMA IdleHolds ==
    ASSUME NEW step \in {"idle", "consume"}
    PROVE  Holds(step, NoSession) /\ Held(NoSession) = {}
  <1>1. /\ NoSession.batch = <<>> /\ NoSession.deferred = <<>> /\ NoSession.env = NoEnvelope
    BY DEF NoSession
  <1>2. Len(<<>>) + Len(<<>>) <= ReleaseLimit
    BY ConstantFacts
  <1> QED BY <1>1, <1>2, NoCopies DEF Holds, Held

LEMMA LossReleaseRead ==
    ASSUME Inv, LossInv, OneWorker, NEW w \in Workers, ReleaseRead(w)
    PROVE  LossInv'
  <1>0. PICK t : t = sess[w]
    OBVIOUS
  <1>1. /\ t \in Session /\ Fits(pc[w], t) /\ Holds(pc[w], t)
        /\ retryQueue \in Seq(Envelopes) /\ pc[w] = "idle"
    BY <1>0, Holding DEF LossInv, ReleaseRead
  <1> DEFINE n == Sets!Min({ReleaseLimit, Len(retryQueue)})
             c == SubSeq(retryQueue, 1, n)
  <1>2. n \in 0..Len(retryQueue) /\ n <= ReleaseLimit /\ Len(retryQueue) \in Nat
    <2>1. Len(retryQueue) \in Nat
      BY <1>1, CopiesOf
    <2> QED BY <2>1, ConstantFacts, MinOfTwo
  <1>3. /\ c \in Seq(Envelopes) /\ Len(c) = n /\ \A k \in 1..n : c[k] = retryQueue[k]
        /\ retryQueue = <<>> => c = <<>>
    <2> HIDE DEF n
    <2>1. /\ c \in Seq(Envelopes) /\ Len(c) = n /\ \A k \in 1..n : c[k] = retryQueue[k]
      BY <1>1, <1>2, CopiesSplit
    <2>2. retryQueue = <<>> => n = 0
      BY <1>2
    <2> HIDE DEF c
    <2>3. n = 0 => c = <<>>
      BY <2>1, EmptySeq
    <2> QED BY <2>1, <2>2, <2>3
  <1>4. PICK step, b : step = (IF retryQueue = <<>> THEN "consume" ELSE "trim") /\ b = c
    OBVIOUS
  <1> DEFINE s == [t EXCEPT !.batch = b]
  <1>5. pc' = [pc EXCEPT ![w] = step] /\ sess' = [sess EXCEPT ![w] = s]
    BY <1>0, <1>4 DEF ReleaseRead, Goto
  <1> HIDE DEF n, c
  <1>6. /\ s \in Session /\ s.batch = b /\ s.deferred = t.deferred /\ s.env = t.env
        /\ t.batch = <<>> /\ t.deferred = <<>>
    BY <1>1, <1>3, <1>4 DEF Session, Holds, Releasing
  <1> HIDE DEF s
  <1>7. Holds(step, s)
    <2>1. Len(<<>>) = 0 /\ Len(b) + 0 <= ReleaseLimit
      BY <1>2, <1>3, <1>4
    <2> QED BY <1>2, <1>3, <1>4, <1>6, <2>1 DEF Holds, Releasing
  <1>8. UNCHANGED <<retryQueue, queue, deadLetter, ledger, dispatch, crashes>>
    BY DEF ReleaseRead, storesUnchanged, workerUnchanged
  <1>9. Holds(step, s)' /\ \A i \in Intents : Terminal(i) => Terminal(i)'
    BY <1>7, <1>8 DEF Holds, Terminal
  <1>10. Held(t) \subseteq Held(s)
    BY <1>6, NoCopies DEF Held
  <1>11. step \in Steps
    BY <1>4 DEF Steps
  <1> QED BY <1>0, <1>5, <1>6, <1>8, <1>9, <1>10, <1>11, NothingDropped

LEMMA LossReleaseTrim ==
    ASSUME Inv, LossInv, OneWorker, NEW w \in Workers, ReleaseTrim(w)
    PROVE  LossInv'
  <1>0. PICK t : t = sess[w]
    OBVIOUS
  <1>1. /\ t \in Session /\ Holds(pc[w], t) /\ t.batch \in Seq(Envelopes)
        /\ retryQueue \in Seq(Envelopes) /\ pc[w] = "trim"
    BY <1>0, Holding DEF LossInv, ReleaseTrim
  <1>2. pc' = [pc EXCEPT ![w] = "release"] /\ sess' = [sess EXCEPT ![w] = t]
    BY <1>0 DEF ReleaseTrim, Goto, Inv, TypeOK
  <1> DEFINE n == Len(t.batch)
             a == SubSeq(retryQueue, 1, n)
  <1>3. n \in Nat /\ n \in 0..Len(retryQueue)
    BY <1>1, LenProperties DEF Holds
  <1>4. retryQueue' = SubSeq(retryQueue, n + 1, Len(retryQueue))
    BY <1>0 DEF ReleaseTrim
  <1>5. /\ a \in Seq(Envelopes) /\ Len(a) = n /\ \A k \in 1..n : a[k] = retryQueue[k]
        /\ CopiesIn(retryQueue) = CopiesIn(a) \cup CopiesIn(retryQueue')
    BY <1>1, <1>3, <1>4, CopiesSplit
  <1>6. t.batch = a
    <2> HIDE DEF a
    <2>1. \A k \in 1..Len(t.batch) : t.batch[k] = a[k]
      BY <1>1, <1>5 DEF Holds
    <2> QED BY <1>1, <1>5, <2>1, SeqEqual
  <1> HIDE DEF a
  <1>7. CopiesIn(retryQueue) \subseteq CopiesIn(retryQueue') \cup Held(t)
    BY <1>5, <1>6 DEF Held
  <1>8. UNCHANGED <<queue, deadLetter, ledger, dispatch, crashes>>
    BY DEF ReleaseTrim, storesUnchanged, workerUnchanged
  <1>9. Holds("release", t)'
    BY <1>1 DEF Holds, Releasing
  <1>10. \A i \in Intents : Terminal(i) => Terminal(i)'
    BY <1>8 DEF Terminal
  <1>11. "release" \in Steps
    BY DEF Steps
  <1> HIDE DEF n
  <1> QED BY <1>0, <1>1, <1>2, <1>7, <1>8, <1>9, <1>10, <1>11, NothingDropped

LEMMA LossReleaseDue ==
    ASSUME Inv, LossInv, OneWorker, NEW w \in Workers, ReleaseDue(w) \/ ReleaseDefer(w)
    PROVE  LossInv'
  <1>0. PICK t : t = sess[w]
    OBVIOUS
  <1>1. /\ t \in Session /\ Holds(pc[w], t) /\ t.batch \in Seq(Envelopes)
        /\ t.deferred \in Seq(Envelopes) /\ queue \in Seq(Envelopes)
        /\ pc[w] = "release" /\ t.batch # <<>>
    BY <1>0, Holding DEF LossInv, ReleaseDue, ReleaseDefer
  <1> DEFINE b == Tail(t.batch)
             h == Head(t.batch)
  <1>2. /\ b \in Seq(Envelopes) /\ h \in Envelopes /\ CopiesIn(t.batch) = CopiesIn(b) \cup {h}
        /\ Len(b) = Len(t.batch) - 1 /\ Len(t.batch) \in Nat
    BY <1>1, CopiesHeadTail
  <1>3. UNCHANGED <<retryQueue, deadLetter, ledger, dispatch, crashes>>
    BY DEF ReleaseDue, ReleaseDefer, storesUnchanged, workerUnchanged
  <1>4. \A i \in Intents : Terminal(i) => Terminal(i)'
    BY <1>3 DEF Terminal
  <1>5. "release" \in Steps /\ Len(t.deferred) \in Nat
    BY <1>1, LenProperties DEF Steps
  <1>6. Len(t.batch) + Len(t.deferred) <= ReleaseLimit
    BY <1>1 DEF Holds
  <1>7. CASE ReleaseDue(w)
    <2> DEFINE s == [t EXCEPT !.batch = b]
    <2>1. /\ pc' = [pc EXCEPT ![w] = "release"] /\ sess' = [sess EXCEPT ![w] = s]
          /\ queue' = Append(queue, h)
      BY <1>0, <1>7 DEF ReleaseDue, Inv, TypeOK
    <2> HIDE DEF b, h
    <2>2. CopiesIn(queue') = CopiesIn(queue) \cup {h}
      BY <1>1, <1>2, <2>1, CopiesAppend
    <2>3. s \in Session /\ s.batch = b /\ s.deferred = t.deferred /\ s.env = t.env
      BY <1>1, <1>2 DEF Session
    <2> HIDE DEF s
    <2>4. Holds("release", s)'
      <3>1. Len(s.batch) + Len(s.deferred) <= ReleaseLimit
        <4>1. PICK l \in Nat, m \in Nat : l = Len(t.batch) /\ m = Len(t.deferred)
          BY <1>2, <1>5
        <4>2. l + m <= ReleaseLimit /\ Len(s.batch) = l - 1 /\ Len(s.deferred) = m
          BY <1>2, <1>6, <2>3, <4>1
        <4>3. (l - 1) + m <= ReleaseLimit
          <5>1. l \in Nat /\ m \in Nat /\ ReleaseLimit \in Nat /\ l + m <= ReleaseLimit
            BY <4>2, ConstantFacts
          <5> QED BY <5>1
        <4> QED BY <4>2, <4>3
      <3> QED BY <3>1 DEF Holds, Releasing
    <2>5. Held(t) \subseteq Held(s) \cup CopiesIn(queue')
      BY <1>2, <2>2, <2>3 DEF Held
    <2> QED BY <1>0, <1>3, <1>4, <1>5, <2>1, <2>2, <2>3, <2>4, <2>5, NothingDropped
  <1>8. CASE ReleaseDefer(w)
    <2> DEFINE d == Append(t.deferred, h)
               s == [t EXCEPT !.batch = b, !.deferred = d]
    <2>1. /\ pc' = [pc EXCEPT ![w] = "release"] /\ sess' = [sess EXCEPT ![w] = s]
          /\ queue' = queue
      BY <1>0, <1>8 DEF ReleaseDefer, Inv, TypeOK
    <2> HIDE DEF b, h
    <2>2. d \in Seq(Envelopes) /\ CopiesIn(d) = CopiesIn(t.deferred) \cup {h}
      BY <1>1, <1>2, CopiesAppend
    <2>3. Len(d) = Len(t.deferred) + 1
      BY <1>1, <1>2, AppendProperties
    <2> HIDE DEF d
    <2>4. s \in Session /\ s.batch = b /\ s.deferred = d /\ s.env = t.env
      BY <1>1, <1>2, <2>2 DEF Session
    <2> HIDE DEF s
    <2>5. Holds("release", s)'
      <3>1. Len(s.batch) + Len(s.deferred) <= ReleaseLimit
        <4>1. PICK l \in Nat, m \in Nat : l = Len(t.batch) /\ m = Len(t.deferred)
          BY <1>2, <1>5
        <4>2. l + m <= ReleaseLimit /\ Len(s.batch) = l - 1 /\ Len(s.deferred) = m + 1
          BY <1>2, <1>6, <2>3, <2>4, <4>1
        <4>3. (l - 1) + (m + 1) <= ReleaseLimit
          <5>1. l \in Nat /\ m \in Nat /\ ReleaseLimit \in Nat /\ l + m <= ReleaseLimit
            BY <4>2, ConstantFacts
          <5> QED BY <5>1
        <4> QED BY <4>2, <4>3
      <3> QED BY <3>1 DEF Holds, Releasing
    <2>6. Held(t) \subseteq Held(s)
      BY <1>2, <2>2, <2>4 DEF Held
    <2> QED BY <1>0, <1>3, <1>4, <1>5, <2>1, <2>4, <2>5, <2>6, NothingDropped
  <1> QED BY <1>7, <1>8

LEMMA LossReleaseDeferred ==
    ASSUME Inv, LossInv, OneWorker, NEW w \in Workers, ReleaseDeferred(w)
    PROVE  LossInv'
  <1>0. PICK t : t = sess[w]
    OBVIOUS
  <1>1. /\ t \in Session /\ Fits(pc[w], t) /\ t.deferred \in Seq(Envelopes)
        /\ retryQueue \in Seq(Envelopes) /\ pc[w] = "release" /\ t.batch = <<>>
    BY <1>0, Holding DEF ReleaseDeferred
  <1>2. /\ pc' = [pc EXCEPT ![w] = "consume"] /\ sess' = [sess EXCEPT ![w] = NoSession]
        /\ retryQueue' = retryQueue \o t.deferred
    BY <1>0 DEF ReleaseDeferred, Goto
  <1>3. CopiesIn(retryQueue') = CopiesIn(retryQueue) \cup CopiesIn(t.deferred)
    BY <1>1, <1>2, CopiesConcat
  <1>4. t.env = NoEnvelope
    BY <1>1 DEF Fits, Handling, Attempting
  <1>5. Held(t) \subseteq CopiesIn(retryQueue')
    BY <1>1, <1>3, <1>4, NoCopies DEF Held
  <1>6. UNCHANGED <<queue, deadLetter, ledger, dispatch, crashes>>
    BY DEF ReleaseDeferred, storesUnchanged, workerUnchanged
  <1>7. \A i \in Intents : Terminal(i) => Terminal(i)'
    BY <1>6 DEF Terminal
  <1>8. "consume" \in Steps /\ NoSession \in Session /\ Holds("consume", NoSession)'
    BY IdleFits, IdleHolds DEF Steps, Holds, Releasing
  <1> QED BY <1>0, <1>2, <1>3, <1>5, <1>6, <1>7, <1>8, NothingDropped

\* Steps after the release change neither the batch nor what was put off.
LEMMA HoldsHandling ==
    ASSUME Inv, NEW step \in Steps \ (Releasing \cup {"record"}), NEW s, NEW t,
           NEW old \in Steps \ Releasing, Holds(old, t),
           s.batch = t.batch, s.deferred = t.deferred
    PROVE  Holds(step, s)'
  BY DEF Holds, Releasing

LEMMA LossHandling ==
    ASSUME Inv, LossInv, OneWorker, NEW w \in Workers,
           NEW step \in Steps \ (Releasing \cup {"record"}), NEW s \in Session,
           NEW t, t = sess[w], pc[w] \notin Releasing,
           pc' = [pc EXCEPT ![w] = step], sess' = [sess EXCEPT ![w] = s],
           UNCHANGED <<dispatch, crashes, retryQueue, deadLetter>>,
           \A i \in Intents : Terminal(i) => Terminal(i)',
           s.batch = t.batch, s.deferred = t.deferred,
           \A env \in CopiesIn(queue) :
               env \in CopiesIn(queue') \/ env \in Held(s),
           t.env # NoEnvelope => s.env # NoEnvelope /\ IntentOf(s.env) = IntentOf(t.env)
    PROVE  LossInv'
  <1>1. Holds(pc[w], t) /\ pc[w] \in Steps
    BY Holding DEF LossInv
  <1>2. Holds(step, s)'
    BY <1>1, HoldsHandling
  <1>3. \A env \in Held(t) : \E e \in Held(s) : IntentOf(e) = IntentOf(env)
    <2>1. t.env # NoEnvelope => s.env \in Held(s) /\ IntentOf(s.env) = IntentOf(t.env)
      BY DEF Held
    <2> QED BY <2>1 DEF Held
  <1> QED BY <1>2, <1>3, NothingDropped

\* A consumer goes on with the envelope it took.
LEMMA SessionKept ==
    ASSUME Inv, NEW w \in Workers, NEW t, t = sess[w], NEW s, s = sess'[w],
           \/ CheckProcessed(w) /\ t.env.event \notin processed
           \/ LoadIntent(w) \/ ExecuteOrder(w) \/ ExecuteFault(w) \/ CommitOrder(w)
           \/ MarkProcessed(w) \/ FailAck(w)
    PROVE  /\ s.batch = t.batch /\ s.deferred = t.deferred
           /\ ~FailAck(w) => s.env = t.env
           /\ FailAck(w) => s.env = [t.env EXCEPT !.retry = t.env.retry + 1]
  <1>1. t \in Session /\ sess \in [Workers -> Session]
    BY Holding DEF Inv, TypeOK
  <1>2. CASE CheckProcessed(w) /\ t.env.event \notin processed
    BY <1>2 DEF CheckProcessed, FailAck
  <1>3. CASE LoadIntent(w)
    BY <1>1, <1>3 DEF LoadIntent, FailAck, Session
  <1>4. CASE ExecuteOrder(w)
    BY <1>1, <1>4 DEF ExecuteOrder, FailAck, Session
  <1>5. CASE ExecuteFault(w)
    <2>1. PICK n \in 0..Len(ExecutionRows) :
            sess' = [sess EXCEPT ![w].pend = SubSeq(ExecutionRows, 1, n),
                                 ![w].reason = IF n = 0 THEN "exchange_adapter_failure"
                                               ELSE "worker_internal_error"]
      BY <1>5 DEF ExecuteFault
    <2>2. ~FailAck(w)
      BY <1>5 DEF ExecuteFault, FailAck
    <2> DEFINE p == SubSeq(ExecutionRows, 1, n)
               r == IF n = 0 THEN "exchange_adapter_failure" ELSE "worker_internal_error"
    <2>3. s = [t EXCEPT !.pend = p, !.reason = r]
      BY <1>1, <2>1 DEF Session
    <2> HIDE DEF p, r
    <2> QED BY <1>1, <2>2, <2>3 DEF Session
  <1>6. CASE CommitOrder(w)
    BY <1>1, <1>6 DEF CommitOrder, FailAck, Session
  <1>7. CASE MarkProcessed(w)
    BY <1>7 DEF MarkProcessed, FailAck
  <1>8. CASE FailAck(w)
    BY <1>1, <1>8 DEF FailAck, Session
  <1> QED BY <1>2, <1>3, <1>4, <1>5, <1>6, <1>7, <1>8

\* The steps on one event, up to the point where the handler parks it.
LEMMA LossOneEvent ==
    ASSUME Inv, LossInv, OneWorker, NEW w \in Workers,
           \/ Consume(w) \/ CheckProcessed(w) \/ LoadIntent(w) \/ ExecuteOrder(w)
           \/ ExecuteFault(w) \/ CommitOrder(w) \/ MarkProcessed(w) \/ FailAck(w)
           \/ Ack(w)
    PROVE  LossInv'
  <1>0. PICK t : t = sess[w]
    OBVIOUS
  <1>1. /\ t \in Session /\ Fits(pc[w], t) /\ Holds(pc[w], t)
        /\ pc[w] \in {"consume", "check", "load", "execute", "commit", "mark", "ack", "fail"}
    BY <1>0, Holding DEF LossInv, Consume, CheckProcessed, LoadIntent, ExecuteOrder,
       ExecuteFault, CommitOrder, MarkProcessed, FailAck, Ack
  <1>2. UNCHANGED <<dispatch, crashes, retryQueue, deadLetter>>
    BY DEF Consume, CheckProcessed, LoadIntent, ExecuteOrder, ExecuteFault, CommitOrder,
           MarkProcessed, FailAck, Ack, storesUnchanged, workerUnchanged, queuesUnchanged
  <1>3. \A i \in Intents : Terminal(i) => Terminal(i)'
    <2>1. CASE CommitOrder(w)
      <3>1. /\ ledger' = [ledger EXCEPT ![IntentOf(t.env)] = @ \o t.pend] /\ pc[w] = "commit"
        BY <1>0, <2>1 DEF CommitOrder, AddRows
      <3>2. IntentOf(t.env) \in Intents /\ t.pend \in Seq(Rows)
        BY <1>0, <3>1, Holding DEF Handling, Attempting
      <3> QED BY <3>1, <3>2, LedgerGrows DEF Inv
    <2>2. CASE ~CommitOrder(w)
      <3>1. UNCHANGED ledger
        BY <2>2 DEF Consume, CheckProcessed, LoadIntent, ExecuteOrder, ExecuteFault,
                    MarkProcessed, FailAck, Ack, storesUnchanged
      <3> QED BY <3>1 DEF Terminal
    <2> QED BY <2>1, <2>2
  <1>4. pc[w] \notin Releasing /\ pc[w] \in Steps \ Releasing
    BY <1>1 DEF Releasing, Steps
  <1>5. pc \in [Workers -> Steps] /\ sess \in [Workers -> Session]
    BY DEF Inv, TypeOK
  <1>6. CASE \E step \in Steps \ (Releasing \cup {"record"}), s \in Session :
               /\ pc' = [pc EXCEPT ![w] = step] /\ sess' = [sess EXCEPT ![w] = s]
               /\ s.batch = t.batch /\ s.deferred = t.deferred
               /\ \A env \in CopiesIn(queue) : env \in CopiesIn(queue') \/ env \in Held(s)
               /\ t.env # NoEnvelope =>
                    s.env # NoEnvelope /\ IntentOf(s.env) = IntentOf(t.env)
    BY <1>0, <1>2, <1>3, <1>4, <1>6, LossHandling
  <1>7. CASE Consume(w)
    <2>1. pc[w] = "consume" /\ t.env = NoEnvelope
      BY <1>0, <1>1, <1>7 DEF Consume, Fits, Handling, Attempting
    <2>2. CASE queue = <<>>
      <3>1. pc' = [pc EXCEPT ![w] = "idle"] /\ sess' = [sess EXCEPT ![w] = t] /\ queue' = queue
        BY <1>0, <1>5, <1>7, <2>2 DEF Consume, Goto
      <3>2. "idle" \in Steps \ (Releasing \cup {"record"})
        BY DEF Steps, Releasing
      <3> QED BY <1>1, <1>6, <2>1, <3>1, <3>2
    <2>3. CASE queue # <<>>
      <3>1. PICK x : x = Seqs!Last(queue)
        OBVIOUS
      <3> DEFINE s == [t EXCEPT !.env = x]
      <3>2. /\ pc' = [pc EXCEPT ![w] = "check"] /\ sess' = [sess EXCEPT ![w] = s]
            /\ queue' = Seqs!Front(queue)
        BY <1>0, <1>7, <2>3, <3>1 DEF Consume, Goto
      <3>3. x \in Envelopes /\ CopiesIn(queue) = CopiesIn(queue') \cup {x}
        BY <2>3, <3>1, <3>2, Holding, CopiesFrontLast
      <3>4. s \in Session /\ s.env = x /\ s.batch = t.batch /\ s.deferred = t.deferred
        BY <1>1, <3>3 DEF Session
      <3> HIDE DEF s
      <3>5. x # NoEnvelope
        <4>1. x.event # <<>>
          BY <3>3, EnvelopeFacts, EventNotEmpty
        <4> QED BY <4>1 DEF NoEnvelope
      <3>6. x \in Held(s)
        BY <3>4, <3>5 DEF Held
      <3>7. "check" \in Steps \ (Releasing \cup {"record"})
        BY DEF Steps, Releasing
      <3>8. \A env \in CopiesIn(queue) : env \in CopiesIn(queue') \/ env \in Held(s)
        BY <3>3, <3>6
      <3> QED BY <1>6, <2>1, <3>2, <3>4, <3>7, <3>8
    <2> QED BY <2>2, <2>3
  <1>8. CASE CheckProcessed(w) /\ t.env.event \in processed
    <2>1. pc' = [pc EXCEPT ![w] = "idle"] /\ sess' = [sess EXCEPT ![w] = NoSession]
      BY <1>0, <1>8 DEF CheckProcessed, Goto
    <2>2. UNCHANGED <<queue, ledger>> /\ pc[w] = "check"
      BY <1>8 DEF CheckProcessed, queuesUnchanged, storesUnchanged
    <2>3. Terminal(IntentOf(t.env))'
      BY <1>8, <2>2, Holding DEF Terminal, IntentOf
    <2>4. \A env \in Held(t) : env = t.env
      BY <1>1, <1>4, NoCopies DEF Held, Holds
    <2>5. NoSession \in Session /\ Holds("idle", NoSession)' /\ "idle" \in Steps
      BY IdleFits, IdleHolds DEF Steps, Holds, Releasing
    <2> QED BY <1>0, <1>2, <1>3, <2>1, <2>2, <2>3, <2>4, <2>5, NothingDropped
  <1>9. CASE Ack(w)
    <2>1. pc' = [pc EXCEPT ![w] = "idle"] /\ sess' = [sess EXCEPT ![w] = NoSession]
      BY <1>9 DEF Ack, Goto
    <2>2. UNCHANGED <<queue, ledger>> /\ pc[w] = "ack"
      BY <1>9 DEF Ack, queuesUnchanged, storesUnchanged
    <2>3. Terminal(IntentOf(t.env))'
      BY <1>1, <2>2 DEF Fits, Terminal, IntentOf
    <2>4. \A env \in Held(t) : env = t.env
      BY <1>1, <1>4, NoCopies DEF Held, Holds
    <2>5. NoSession \in Session /\ Holds("idle", NoSession)' /\ "idle" \in Steps
      BY IdleFits, IdleHolds DEF Steps, Holds, Releasing
    <2> QED BY <1>0, <1>2, <1>3, <2>1, <2>2, <2>3, <2>4, <2>5, NothingDropped
  <1>10. CASE /\ ~Consume(w) /\ ~Ack(w)
              /\ ~(CheckProcessed(w) /\ t.env.event \in processed)
    <2>1. UNCHANGED queue
      BY <1>10 DEF CheckProcessed, LoadIntent, ExecuteOrder, ExecuteFault, CommitOrder,
                   MarkProcessed, FailAck, queuesUnchanged
    <2>2. \E step \in {"load", "execute", "commit", "fail", "mark", "ack", "park"} :
             pc' = [pc EXCEPT ![w] = step]
      BY <1>0, <1>10 DEF CheckProcessed, LoadIntent, ExecuteOrder, ExecuteFault, CommitOrder,
                         MarkProcessed, FailAck, Goto
    <2>3. \E s \in Session :
             /\ sess' = [sess EXCEPT ![w] = s]
             /\ s.batch = t.batch /\ s.deferred = t.deferred
             /\ t.env # NoEnvelope =>
                  s.env # NoEnvelope /\ IntentOf(s.env) = IntentOf(t.env)
      <3>1. sess' \in [Workers -> Session]
        <4>1. Inv'
          BY CheckProcessedInv, LoadIntentInv, ExecuteOrderInv, ExecuteFaultInv,
             CommitOrderInv, MarkProcessedInv, FailAckInv, <1>10
        <4> QED BY <4>1 DEF Inv, TypeOK
      <3> DEFINE s == sess'[w]
      <3>2. sess' = [sess EXCEPT ![w] = s] /\ s \in Session
        <4>1. \A v \in Workers : v = w
          BY DEF OneWorker
        <4> QED BY <1>5, <3>1, <4>1
      <3>3. t.env # NoEnvelope => t.env \in Envelopes
        BY <1>1 DEF Session
      <3>4. /\ s.batch = t.batch /\ s.deferred = t.deferred
            /\ ~FailAck(w) => s.env = t.env
            /\ FailAck(w) => s.env = [t.env EXCEPT !.retry = t.env.retry + 1]
        BY <1>0, <1>10, SessionKept
      <3>5. t.env # NoEnvelope => s.env # NoEnvelope /\ IntentOf(s.env) = IntentOf(t.env)
        <4>1. t.env # NoEnvelope => t.env.event # <<>>
          BY <3>3, EnvelopeFacts, EventNotEmpty
        <4>2. t.env # NoEnvelope => s.env.event = t.env.event
          BY <3>3, <3>4 DEF Envelopes
        <4> QED BY <4>1, <4>2 DEF IntentOf, NoEnvelope
      <3> QED BY <3>2, <3>4, <3>5
    <2>4. {"load", "execute", "commit", "fail", "mark", "ack", "park"}
             \subseteq Steps \ (Releasing \cup {"record"})
      BY DEF Steps, Releasing
    <2> QED BY <1>6, <2>1, <2>2, <2>3, <2>4
  <1> QED BY <1>7, <1>8, <1>9, <1>10

LEMMA LossFailEnqueue ==
    ASSUME Inv, LossInv, OneWorker, NEW w \in Workers, FailEnqueue(w)
    PROVE  LossInv'
  <1>0. PICK t : t = sess[w]
    OBVIOUS
  <1>1. /\ t \in Session /\ Fits(pc[w], t) /\ Holds(pc[w], t) /\ pc[w] = "park"
        /\ retryQueue \in Seq(Envelopes)
    BY <1>0, Holding DEF LossInv, FailEnqueue
  <1>2. t.env \in Envelopes
    BY <1>1 DEF Fits, Handling
  <1>3. /\ pc' = [pc EXCEPT ![w] = "record"] /\ sess' = [sess EXCEPT ![w] = t]
        /\ UNCHANGED <<queue, ledger, dispatch, crashes>>
    BY <1>0 DEF FailEnqueue, Goto, workerUnchanged, Inv, TypeOK
  <1>4. /\ deadLetter \subseteq deadLetter'
        /\ CopiesIn(retryQueue) \subseteq CopiesIn(retryQueue')
        /\ t.env.event \in deadLetter' \/ t.env \in CopiesIn(retryQueue')
    <2>1. CASE Quarantines(w)
      BY <1>0, <2>1 DEF FailEnqueue
    <2>2. CASE ~Quarantines(w)
      <3>1. retryQueue' = Append(retryQueue, t.env) /\ deadLetter' = deadLetter
        BY <1>0, <2>2 DEF FailEnqueue
      <3> QED BY <1>1, <1>2, <3>1, CopiesAppend
    <2> QED BY <2>1, <2>2
  <1>5. \A i \in Intents : Terminal(i) => Terminal(i)'
    BY <1>3 DEF Terminal
  <1>6. Holds("record", t)'
    <2>1. Len(t.batch) + Len(t.deferred) <= ReleaseLimit /\ t.batch = <<>> /\ t.deferred = <<>>
      BY <1>1 DEF Holds, Releasing
    <2> QED BY <1>4, <2>1 DEF Holds, Releasing
  <1>7. "record" \in Steps
    BY DEF Steps
  <1> QED BY <1>0, <1>1, <1>3, <1>4, <1>5, <1>6, <1>7, NothingDropped

LEMMA LossFailRecord ==
    ASSUME Inv, LossInv, OneWorker, NEW w \in Workers, FailRecord(w)
    PROVE  LossInv'
  <1>0. PICK t : t = sess[w]
    OBVIOUS
  <1>1. /\ t \in Session /\ Fits(pc[w], t) /\ Holds(pc[w], t) /\ pc[w] = "record"
        /\ IntentOf(t.env) \in Intents /\ t.pend \in Seq(Rows)
    BY <1>0, Holding DEF LossInv, FailRecord, Handling
  <1>2. /\ pc' = [pc EXCEPT ![w] = "idle"] /\ sess' = [sess EXCEPT ![w] = NoSession]
        /\ UNCHANGED <<queue, retryQueue, deadLetter, dispatch, crashes>>
    BY DEF FailRecord, Goto, workerUnchanged, queuesUnchanged
  <1>3. \A i \in Intents : Terminal(i) => Terminal(i)'
    <2>1. CASE t.pend = <<>>
      <3>1. UNCHANGED ledger
        BY <1>0, <2>1 DEF FailRecord
      <3> QED BY <3>1 DEF Terminal
    <2>2. CASE t.pend # <<>>
      <3>1. ledger' = [ledger EXCEPT ![IntentOf(t.env)] = @ \o t.pend]
        BY <1>0, <2>2 DEF FailRecord, AddRows
      <3> QED BY <1>1, <3>1, LedgerGrows DEF Inv
    <2> QED BY <2>1, <2>2
  <1>4. \A env \in Held(t) : env = t.env
    BY <1>1, NoCopies DEF Held, Holds, Releasing
  <1>5. t.env.event \in deadLetter \/ t.env \in CopiesIn(retryQueue)
    BY <1>1 DEF Holds
  <1>6. \A env \in Held(t) : \/ env \in CopiesIn(retryQueue')
                             \/ \E e \in deadLetter' : e[1] = IntentOf(env)
    BY <1>2, <1>4, <1>5 DEF IntentOf
  <1>7. NoSession \in Session /\ Holds("idle", NoSession)' /\ "idle" \in Steps
    BY IdleFits, IdleHolds DEF Steps, Holds, Releasing
  <1> QED BY <1>0, <1>2, <1>3, <1>6, <1>7, NothingDropped

\* A dying consumer takes with it the intents it holds, and no other.
LEMMA LossCrash ==
    ASSUME Inv, LossInv, OneWorker, NEW w \in Workers, WorkerCrash(w)
    PROVE  LossInv'
  <1>0. PICK t : t = sess[w]
    OBVIOUS
  <1>1. t \in Session /\ Fits(pc[w], t) /\ Holds(pc[w], t) /\ pc[w] \in Steps
    BY <1>0, Holding DEF LossInv
  <1>2. /\ sess' = [sess EXCEPT ![w] = NoSession] /\ pc' = [pc EXCEPT ![w] = "idle"]
        /\ UNCHANGED <<queue, retryQueue, ledger, deadLetter, dispatch>>
        /\ crashes' = crashes + 1
    BY DEF WorkerCrash, Goto, queuesUnchanged, storesUnchanged
  <1>3. PICK X : /\ IsFiniteSet(X) /\ Cardinality(X) \in Nat /\ Cardinality(X) <= ReleaseLimit
                 /\ \A e \in Held(t) : IntentOf(e) \in X
    BY <1>1, HeldBound
  <1>4. /\ Live = CopiesIn(queue) \cup CopiesIn(retryQueue) \cup Held(t)
        /\ CopiesIn(queue) \cup CopiesIn(retryQueue) \subseteq Live'
    BY <1>0, <1>2, LiveAlone
  <1>5. \A i \in Intents : LiveIntent(i) => LiveIntent(i)' \/ i \in X
    BY <1>3, <1>4 DEF LiveIntent
  <1>6. Lost' \subseteq Lost \cup X
    BY <1>2, <1>5 DEF Lost, Terminal, DeadLettered
  <1>7. /\ IsFiniteSet(Lost \cup X) /\ Cardinality(Lost) \in Nat
        /\ Cardinality(Lost \cup X) <= Cardinality(Lost) + Cardinality(X)
        /\ Cardinality(Lost \cup X) \in Nat
    BY <1>3, UnionBound DEF LossInv
  <1>8. /\ IsFiniteSet(Lost') /\ Cardinality(Lost') <= Cardinality(Lost \cup X)
        /\ Cardinality(Lost') \in Nat
    BY <1>6, <1>7, FS_Subset, FS_CardinalityType
  <1>9. Cardinality(Lost') <= crashes' * ReleaseLimit
    <2>1. PICK a, b, c, d, k : /\ a = Cardinality(Lost') /\ b = Cardinality(Lost \cup X)
                               /\ c = Cardinality(Lost) /\ d = Cardinality(X) /\ k = crashes
      OBVIOUS
    <2>2. /\ a \in Nat /\ b \in Nat /\ c \in Nat /\ d \in Nat /\ k \in Nat
          /\ a <= b /\ b <= c + d /\ c <= k * ReleaseLimit /\ d <= ReleaseLimit
      BY <1>3, <1>7, <1>8, <2>1 DEF LossInv
    <2>3. (k + 1) * ReleaseLimit = k * ReleaseLimit + ReleaseLimit /\ k * ReleaseLimit \in Nat
      BY <2>2, ConstantFacts
    <2>4. a <= (k + 1) * ReleaseLimit
      <3>1. PICK m \in Nat : m = k * ReleaseLimit
        BY <2>3
      <3>2. a <= m + ReleaseLimit
        BY <2>2, <3>1, ConstantFacts
      <3> QED BY <2>3, <3>1, <3>2
    <2> QED BY <1>2, <2>1, <2>4
  <1>10. \A v \in Workers : pc'[v] = "idle" /\ sess'[v] = NoSession
    BY <1>2 DEF OneWorker, Inv, TypeOK
  <1>11. \A v \in Workers : Holds(pc[v], sess[v])'
    BY <1>10, IdleHolds DEF Holds, Releasing
  <1>12. crashes' \in Nat
    BY <1>2 DEF LossInv
  <1> QED BY <1>8, <1>9, <1>11, <1>12 DEF LossInv

LEMMA LossWorker ==
    ASSUME Inv, LossInv, OneWorker, NEW w \in Workers, WorkerStep(w) \/ WorkerCrash(w)
    PROVE  LossInv'
  BY LossReleaseRead, LossReleaseTrim, LossReleaseDue, LossReleaseDeferred, LossOneEvent,
     LossFailEnqueue, LossFailRecord, LossCrash DEF WorkerStep

\* Dispatchers, operators and the gate take no copy out of the queues.
LEMMA LossOthers ==
    ASSUME Inv, LossInv, OneWorker, UNCHANGED <<pc, sess, retryQueue, deadLetter>>,
           CopiesIn(queue) \subseteq CopiesIn(queue'),
           \A i \in Intents : Terminal(i) => Terminal(i)',
           \A i \in Intents : dispatch'[i] \in {"published", "committed"} =>
               \/ dispatch[i] \in {"published", "committed"}
               \/ \E e \in CopiesIn(queue') : IntentOf(e) = i,
           crashes' = crashes \/ crashes' = crashes + 1
    PROVE  LossInv'
  <1>1. Live \subseteq Live' /\ CopiesIn(queue') \subseteq Live'
    BY DEF Live
  <1>2. Lost' \subseteq Lost
    BY <1>1 DEF Lost, LiveIntent, DeadLettered
  <1>3. \A w \in Workers : Holds(pc[w], sess[w])'
    BY DEF LossInv, Holds
  <1>4. /\ IsFiniteSet(Lost') /\ Cardinality(Lost') <= Cardinality(Lost)
        /\ Cardinality(Lost') \in Nat /\ Cardinality(Lost) \in Nat
    BY <1>2, FS_Subset, FS_CardinalityType DEF LossInv
  <1>5. crashes' \in Nat /\ Cardinality(Lost') <= crashes' * ReleaseLimit
    <2>1. PICK a, c, k : a = Cardinality(Lost') /\ c = Cardinality(Lost) /\ k = crashes
      OBVIOUS
    <2>2. a \in Nat /\ c \in Nat /\ k \in Nat /\ a <= c /\ c <= k * ReleaseLimit
      BY <1>4, <2>1 DEF LossInv
    <2>3. /\ (k + 1) * ReleaseLimit = k * ReleaseLimit + ReleaseLimit
          /\ k * ReleaseLimit \in Nat
      BY <2>2, ConstantFacts
    <2>4. PICK m \in Nat : m = k * ReleaseLimit
      BY <2>3
    <2>5. a <= m /\ a <= m + ReleaseLimit
      BY <2>2, <2>4, ConstantFacts
    <2>6. a <= k * ReleaseLimit /\ a <= (k + 1) * ReleaseLimit /\ k + 1 \in Nat
      BY <2>2, <2>3, <2>4, <2>5
    <2> QED BY <2>1, <2>2, <2>6
  <1> QED BY <1>3, <1>4, <1>5 DEF LossInv

LEMMA LossDispatch ==
    ASSUME Inv, LossInv, OneWorker, NEW i \in Intents, Dispatch(i) \/ DispatchCrash(i)
    PROVE  LossInv'
  <1>1. UNCHANGED <<pc, sess, retryQueue, deadLetter, ledger>>
    BY DEF Dispatch, DispatchCheck, DispatchInsert, DispatchPublish, DispatchCommit,
           DispatchCrash, dispatchUnchanged
  <1>2. \A j \in Intents : Terminal(j) => Terminal(j)'
    BY <1>1 DEF Terminal
  <1>3. crashes' = crashes \/ crashes' = crashes + 1
    BY DEF Dispatch, DispatchCheck, DispatchInsert, DispatchPublish, DispatchCommit,
           DispatchCrash
  <1>4. CASE DispatchPublish(i)
    <2> DEFINE e == [event |-> <<i, 0>>, retry |-> 0]
    <2>1. e \in Envelopes /\ IntentOf(e) = i
      <3>1. <<i, 0>> \in Events /\ 0 \in 0..(MaxRetry + MaxOps)
        BY EventFacts, ConstantFacts
      <3> QED BY <3>1 DEF Envelopes, IntentOf
    <2>2. /\ queue' = Append(queue, e)
          /\ dispatch' = [dispatch EXCEPT ![i] = "published"]
      BY <1>4 DEF DispatchPublish
    <2> HIDE DEF e
    <2>3. CopiesIn(queue') = CopiesIn(queue) \cup {e}
      BY <2>1, <2>2, Standing, CopiesAppend
    <2>4. \A j \in Intents : j # i => dispatch'[j] = dispatch[j]
      BY <2>2, Standing
    <2>5. \A j \in Intents : dispatch'[j] \in {"published", "committed"} =>
             \/ dispatch[j] \in {"published", "committed"}
             \/ \E x \in CopiesIn(queue') : IntentOf(x) = j
      BY <2>1, <2>3, <2>4
    <2> QED BY <1>1, <1>2, <1>3, <2>3, <2>5, LossOthers
  <1>5. CASE ~DispatchPublish(i)
    <2>1. UNCHANGED queue
      BY <1>5 DEF Dispatch, DispatchCheck, DispatchInsert, DispatchCommit, DispatchCrash
    <2>2. \A j \in Intents : dispatch'[j] \in {"published", "committed"} =>
             dispatch[j] \in {"published", "committed"}
      BY <1>5, Standing
         DEF Dispatch, DispatchCheck, DispatchInsert, DispatchCommit, DispatchCrash
    <2> QED BY <1>1, <1>2, <1>3, <2>1, <2>2, LossOthers
  <1> QED BY <1>4, <1>5

LEMMA LossOperator ==
    ASSUME Inv, LossInv, OneWorker, operatorUnchanged,
           CopiesIn(queue) \subseteq CopiesIn(queue'),
           \A i \in Intents : Terminal(i) => Terminal(i)'
    PROVE  LossInv'
  <1>1. UNCHANGED <<pc, sess, retryQueue, deadLetter, dispatch, crashes>>
    BY DEF operatorUnchanged
  <1> QED BY <1>1, LossOthers

\* An operator's replay publishes an event of its own.
LEMMA ReplayedEvent ==
    ASSUME Inv, op.act = "replay", NEW i \in Intents, i = op.target
    PROVE  [event |-> <<i, replays[i] + 1>>, retry |-> 0] \in Envelopes
  <1> DEFINE n == replays[i] + 1
  <1>1. n \in 0..MaxOps
    <2>1. replays[i] + (IF op.act = "replay" /\ op.target = i THEN 1 ELSE 0) <= ops
      BY Standing DEF Replays
    <2>2. n <= ops /\ n \in Nat
      BY <2>1, Standing
    <2>3. ops \in 0..MaxOps /\ MaxOps \in Nat
      BY Standing, ConstantFacts
    <2> QED BY <2>2, <2>3
  <1>2. <<i, n>> \in Events /\ 0 \in 0..(MaxRetry + MaxOps)
    BY <1>1, EventFacts, ConstantFacts
  <1> QED BY <1>2 DEF Envelopes

LEMMA LossNext == OneWorker /\ Inv /\ LossInv /\ [Next]_vars => LossInv'
  <1> SUFFICES ASSUME OneWorker, Inv, LossInv, [Next]_vars PROVE LossInv'
    OBVIOUS
  <1>1. ASSUME NEW w \in Workers, WorkerStep(w) \/ WorkerCrash(w)
        PROVE  LossInv'
    BY <1>1, LossWorker
  <1>2. ASSUME NEW i \in Intents, Dispatch(i) \/ DispatchCrash(i)
        PROVE  LossInv'
    BY <1>2, LossDispatch
  <1>3. UNCHANGED ledger => \A i \in Intents : Terminal(i) => Terminal(i)'
    BY DEF Terminal
  <1>4. ASSUME NEW i \in Intents, RecoveryRead(i) PROVE LossInv'
    BY <1>3, <1>4, LossOperator DEF RecoveryRead
  <1>5. ASSUME NEW e \in Events, QuarantineReplay(e) PROVE LossInv'
    <2>1. /\ operatorUnchanged /\ UNCHANGED ledger /\ HasRow(e)
          /\ queue' = Append(queue, failed[e].envelope)
      BY <1>5 DEF QuarantineReplay
    <2>2. failed[e].envelope \in Envelopes
      BY <2>1, Standing, RowFacts DEF HasRow
    <2>3. CopiesIn(queue) \subseteq CopiesIn(queue')
      BY <2>1, <2>2, Standing, CopiesAppend
    <2> QED BY <1>3, <2>1, <2>3, LossOperator
  <1>6. ASSUME NEW e \in Events, QuarantineClose(e) \/ RowAction(e) \/ RecoveryLoop(e)
        PROVE  LossInv'
    <2>1. operatorUnchanged /\ UNCHANGED <<ledger, queue>>
      BY <1>6 DEF QuarantineClose, RowAction, RecoveryLoop
    <2> QED BY <1>3, <2>1, LossOperator
  <1>7. ASSUME QuarantineReplayCommit PROVE LossInv'
    <2>1. operatorUnchanged /\ UNCHANGED <<ledger, queue>>
      BY <1>7 DEF QuarantineReplayCommit
    <2> QED BY <1>3, <2>1, LossOperator
  <1>8. ASSUME RecoveryReplay PROVE LossInv'
    <2>1. op.act = "replay" /\ operatorUnchanged /\ UNCHANGED ledger
      BY <1>8 DEF RecoveryReplay
    <2>2. PICK i \in Intents : i = op.target
      BY <2>1, Standing DEF OpSound, NoOp
    <2> DEFINE n == replays[i] + 1
               x == [event |-> <<i, n>>, retry |-> 0]
    <2>3. queue' = Append(queue, x)
      BY <1>8, <2>2 DEF RecoveryReplay
    <2>4. x \in Envelopes
      BY <2>1, <2>2, ReplayedEvent
    <2> HIDE DEF x
    <2>5. CopiesIn(queue) \subseteq CopiesIn(queue')
      BY <2>3, <2>4, Standing, CopiesAppend
    <2> QED BY <1>3, <2>1, <2>5, LossOperator
  <1>9. ASSUME RecoveryFinalize PROVE LossInv'
    <2>1. op.act = "finalize" /\ operatorUnchanged /\ UNCHANGED queue
      BY <1>9 DEF RecoveryFinalize
    <2>2. PICK i \in Intents : i = op.target
      BY <2>1, Standing DEF OpSound, NoOp
    <2> DEFINE rows == <<"manual">>
    <2>3. rows \in Seq(Rows) /\ "manual" \in Rows
      BY DEF Rows, FinalRows
    <2>4. ledger' = [ledger EXCEPT ![i] = @ \o rows]
      <3>1. Append(ledger[i], "manual") = ledger[i] \o rows
        BY <2>3, Standing, AppendIsConcat
      <3> QED BY <1>9, <2>2, <3>1, Standing DEF RecoveryFinalize
    <2> HIDE DEF rows
    <2>5. \A j \in Intents : Terminal(j) => Terminal(j)'
      BY <2>3, <2>4, LedgerGrows DEF Inv
    <2> QED BY <2>1, <2>5, LossOperator
  <1>10. ASSUME ToggleGate \/ UNCHANGED vars PROVE LossInv'
    <2>1. UNCHANGED <<pc, sess, retryQueue, deadLetter, queue, ledger, dispatch, crashes>>
      BY <1>10 DEF ToggleGate, vars
    <2> QED BY <1>3, <2>1, LossOthers
  <1> QED BY <1>1, <1>2, <1>4, <1>5, <1>6, <1>7, <1>8, <1>9, <1>10 DEF Next

LEMMA LossInit == Init => LossInv
  <1> SUFFICES ASSUME Init PROVE LossInv
    OBVIOUS
  <1>1. Lost = {}
    BY DEF Init, Lost
  <1>2. crashes = 0 /\ 0 * ReleaseLimit = 0
    BY ConstantFacts DEF Init
  <1>3. \A w \in Workers : Holds(pc[w], sess[w])
    BY IdleHolds DEF Init
  <1> QED BY <1>1, <1>2, <1>3, FS_EmptySet DEF LossInv

\* With one consumer the only losses are those of a crash, at most what the
\* dead process had taken out of the lists: the limit of one release.
THEOREM CrashLossBounded == ASSUME OneWorker PROVE Spec => []LossBounded
  <1>1. Init => Inv /\ LossInv
    BY InitInv, LossInit
  <1>2. (Inv /\ LossInv) /\ [Next]_vars => (Inv /\ LossInv)'
    BY NextInv, LossNext
  <1>3. Inv /\ LossInv => LossBounded
    <2> SUFFICES ASSUME LossInv PROVE LossBounded
      OBVIOUS
    <2> DEFINE L == {i \in Intents : Exists(i) /\ ~Terminal(i) /\ ~LiveIntent(i)
                                     /\ ~DeadLettered(i)}
    <2>1. L \subseteq Lost
      BY DEF Lost, Exists
    <2>2. /\ IsFiniteSet(L) /\ Cardinality(L) <= Cardinality(Lost)
          /\ Cardinality(L) \in Nat /\ Cardinality(Lost) \in Nat
      BY <2>1, FS_Subset, FS_CardinalityType DEF LossInv
    <2>3. Cardinality(Lost) <= crashes * ReleaseLimit /\ crashes * ReleaseLimit \in Nat
      BY ConstantFacts DEF LossInv
    <2> HIDE DEF L
    <2>4. Cardinality(L) <= crashes * ReleaseLimit
      BY <2>2, <2>3
    <2> QED BY <2>4 DEF L, LossBounded
  <1> QED BY <1>1, <1>2, <1>3, PTL DEF Spec

-----------------------------------------------------------------------------
(* The promise of IntentDelivery *)

\* Nobody has died and no operator closes an intent by hand.
Undisturbed == crashes = 0 /\ op.act # "finalize"

NoManualRow == \A i \in Intents : \A k \in DOMAIN ledger[i] : ledger[i][k] # "manual"

DeliveryInv == Inv /\ OnceInv /\ LossInv /\ NoManualRow

\* A ledger with one final row, counted by kind.
LEMMA CountsOnce ==
    ASSUME NEW s, \E k \in DOMAIN s : Final(s[k]),
           \A k \in DOMAIN s : s[k] # "manual",
           \A k, n \in DOMAIN s : s[k] \in ConsumerRows /\ s[n] \in ConsumerRows => k = n
    PROVE  \E row \in FinalRows : \A r \in FinalRows :
               Cardinality({k \in DOMAIN s : s[k] = r}) = IF r = row THEN 1 ELSE 0
  <1>1. PICK m \in DOMAIN s : Final(s[m])
    OBVIOUS
  <1>2. \A k \in DOMAIN s : Final(s[k]) => k = m
    BY <1>1 DEF Final, FinalRows, ConsumerRows
  <1> DEFINE row == s[m]
             places(r) == {k \in DOMAIN s : s[k] = r}
  <1>3. ASSUME NEW r \in FinalRows
        PROVE  Cardinality(places(r)) = IF r = row THEN 1 ELSE 0
    <2>1. CASE r = row
      <3>1. places(r) = {m}
        BY <1>2, <2>1 DEF Final
      <3> HIDE DEF places
      <3> QED BY <2>1, <3>1, FS_Singleton
    <2>2. CASE r # row
      <3>1. places(r) = {}
        BY <1>2, <2>2 DEF Final
      <3> HIDE DEF places
      <3> QED BY <2>2, <3>1, FS_EmptySet
    <2> QED BY <2>1, <2>2
  <1> QED BY <1>1, <1>3 DEF Final

LEMMA CountsNone ==
    ASSUME NEW s, ~ \E k \in DOMAIN s : Final(s[k]), NEW r \in FinalRows
    PROVE  Cardinality({k \in DOMAIN s : s[k] = r}) = 0
  <1>1. {k \in DOMAIN s : s[k] = r} = {}
    BY DEF Final
  <1> QED BY <1>1, FS_EmptySet

\* Rows that follow a final row are not final themselves.
LEMMA CountsKept ==
    ASSUME NEW s, NEW t, \E k \in DOMAIN s : Final(s[k]),
           \A k \in DOMAIN s : k \in DOMAIN t /\ t[k] = s[k],
           \A k \in DOMAIN t : t[k] # "manual",
           \A k, n \in DOMAIN t : t[k] \in ConsumerRows /\ t[n] \in ConsumerRows => k = n,
           NEW r \in FinalRows
    PROVE  {k \in DOMAIN t : t[k] = r} = {k \in DOMAIN s : s[k] = r}
  <1>1. PICK m \in DOMAIN s : Final(s[m])
    OBVIOUS
  <1>2. \A k \in DOMAIN t : Final(t[k]) => k = m
    BY <1>1 DEF Final, FinalRows, ConsumerRows
  <1> QED BY <1>1, <1>2 DEF Final

-----------------------------------------------------------------------------
\* Who adds rows, when no operator does.
LEMMA LedgerMoves ==
    ASSUME Inv, op.act # "finalize", [Next]_vars
    PROVE  \/ UNCHANGED ledger
           \/ \E i \in Intents, rows \in FullRows \cup SomeRows :
                 Exists(i) /\ ledger' = [ledger EXCEPT ![i] = @ \o rows]
  <1>1. ASSUME NEW w \in Workers, CommitOrder(w) \/ FailRecord(w), ledger' # ledger
        PROVE  \E i \in Intents, rows \in FullRows \cup SomeRows :
                  Exists(i) /\ ledger' = [ledger EXCEPT ![i] = @ \o rows]
    <2>0. PICK t : t = sess[w]
      OBVIOUS
    <2>1. /\ Fits(pc[w], t) /\ pc[w] \in {"commit", "record"}
          /\ IntentOf(t.env) \in Intents
          /\ ledger' = [ledger EXCEPT ![IntentOf(t.env)] = @ \o t.pend]
      BY <1>1, <2>0, Holding DEF CommitOrder, FailRecord, AddRows, Handling, Attempting
    <2>2. t.pend \in FullRows \cup SomeRows
      BY <2>1 DEF Fits
    <2>3. t.pend # <<>>
      <3>1. CASE pc[w] = "commit"
        BY <2>1, <3>1, PendingRows DEF Fits
      <3>2. CASE pc[w] = "record"
        BY <1>1, <2>0, <3>2 DEF CommitOrder, FailRecord
      <3> QED BY <2>1, <3>1, <3>2
    <2> QED BY <2>1, <2>2, <2>3 DEF Fits
  <1>2. ASSUME NEW w \in Workers, WorkerStep(w) \/ WorkerCrash(w),
               ~CommitOrder(w), ~FailRecord(w)
        PROVE  UNCHANGED ledger
    BY <1>2 DEF WorkerStep, ReleaseRead, ReleaseTrim, ReleaseDue, ReleaseDefer,
       ReleaseDeferred, Consume, CheckProcessed, LoadIntent, ExecuteOrder, ExecuteFault,
       MarkProcessed, Ack, FailAck, FailEnqueue, WorkerCrash, storesUnchanged
  <1>3. ASSUME NEW i \in Intents, Dispatch(i) \/ DispatchCrash(i) \/ RecoveryRead(i)
        PROVE  UNCHANGED ledger
    BY <1>3 DEF Dispatch, DispatchCheck, DispatchInsert, DispatchPublish, DispatchCommit,
                DispatchCrash, RecoveryRead, dispatchUnchanged
  <1>4. ASSUME NEW e \in Events,
               QuarantineReplay(e) \/ QuarantineClose(e) \/ RowAction(e) \/ RecoveryLoop(e)
        PROVE  UNCHANGED ledger
    BY <1>4 DEF QuarantineReplay, QuarantineClose, RowAction, RecoveryLoop
  <1>5. ASSUME QuarantineReplayCommit \/ RecoveryReplay \/ ToggleGate \/ UNCHANGED vars
        PROVE  UNCHANGED ledger
    BY <1>5 DEF QuarantineReplayCommit, RecoveryReplay, ToggleGate, vars
  <1>6. ~RecoveryFinalize
    BY DEF RecoveryFinalize
  <1> QED BY <1>1, <1>2, <1>3, <1>4, <1>5, <1>6 DEF Next

\* What such a step does to the rows of one intent.
LEMMA RowsMove ==
    ASSUME Inv, NoManualRow, op.act # "finalize", [Next]_vars, NEW i \in Intents
    PROVE  /\ \A k \in DOMAIN ledger[i] :
                 k \in DOMAIN ledger'[i] /\ ledger'[i][k] = ledger[i][k]
           /\ ledger'[i] # ledger[i] => Exists(i)
           /\ \A k \in DOMAIN ledger'[i] : ledger'[i][k] # "manual"
  <1>1. CASE UNCHANGED ledger
    BY <1>1 DEF NoManualRow
  <1>2. CASE \E j \in Intents, rows \in FullRows \cup SomeRows :
                Exists(j) /\ ledger' = [ledger EXCEPT ![j] = @ \o rows]
    <2>1. PICK j \in Intents, rows \in FullRows \cup SomeRows :
             Exists(j) /\ ledger' = [ledger EXCEPT ![j] = @ \o rows]
      BY <1>2
    <2>2. rows \in Seq(Rows) /\ ledger[i] \in Seq(Rows) /\ ledger \in [Intents -> Seq(Rows)]
      BY PendingRows, Standing
    <2>3. CASE j # i
      BY <2>1, <2>2, <2>3 DEF NoManualRow
    <2>4. CASE j = i
      <3> DEFINE old == ledger[i]
                 new == ledger'[i]
      <3>1. new = old \o rows
        BY <2>1, <2>2, <2>4
      <3>2. /\ Len(new) = Len(old) + Len(rows) /\ new \in Seq(Rows)
            /\ \A k \in 1..(Len(old) + Len(rows)) :
                  new[k] = IF k <= Len(old) THEN old[k] ELSE rows[k - Len(old)]
        BY <2>2, <3>1, ConcatProperties
      <3>3. /\ Len(old) \in Nat /\ Len(rows) \in Nat /\ DOMAIN old = 1..Len(old)
            /\ DOMAIN rows = 1..Len(rows) /\ DOMAIN new = 1..Len(new)
        BY <2>2, <3>2, LenProperties
      <3>4. \A k \in DOMAIN rows : rows[k] # "manual"
        <4>1. /\ DOMAIN <<"blocked">> = 1..1 /\ DOMAIN <<"submitted">> = 1..1
              /\ DOMAIN ExecutionRows = 1..2 /\ ExecutionRows[1] = "submitted"
              /\ ExecutionRows[2] = "executed" /\ DOMAIN <<>> = {}
          BY DEF ExecutionRows
        <4> QED BY <4>1 DEF FullRows, SomeRows
      <3>5. \A k \in DOMAIN old : old[k] # "manual"
        BY DEF NoManualRow
      <3> HIDE DEF old, new
      <3>6. \A k \in DOMAIN old : k \in DOMAIN new /\ new[k] = old[k]
        BY <3>2, <3>3
      <3>7. \A k \in DOMAIN new : \/ k \in DOMAIN old /\ new[k] = old[k]
                                  \/ k - Len(old) \in DOMAIN rows /\ new[k] = rows[k - Len(old)]
        BY <3>2, <3>3
      <3>8. \A k \in DOMAIN new : new[k] # "manual"
        BY <3>4, <3>5, <3>7
      <3> QED BY <2>1, <2>4, <3>6, <3>8 DEF old, new
    <2> QED BY <2>3, <2>4
  <1> QED BY <1>1, <1>2, LedgerMoves

LEMMA ManualNext == Inv /\ NoManualRow /\ Undisturbed /\ [Next]_vars => NoManualRow'
  BY RowsMove DEF NoManualRow, Undisturbed

\* A committed row stays.
LEMMA ExistsKept ==
    ASSUME Inv, [Next]_vars, NEW i \in Intents, Exists(i)
    PROVE  Exists(i)'
  <1>1. dispatch \in [Intents -> Dispatches] /\ dispatch[i] = "committed"
    BY Standing DEF Exists
  <1>2. ASSUME NEW j \in Intents, Dispatch(j) \/ DispatchCrash(j) PROVE Exists(i)'
    BY <1>1, <1>2 DEF Exists, Dispatch, DispatchCheck, DispatchInsert, DispatchPublish,
       DispatchCommit, DispatchCrash
  <1>3. ASSUME NEW w \in Workers, WorkerStep(w) \/ WorkerCrash(w) PROVE UNCHANGED dispatch
    BY <1>3 DEF WorkerStep, ReleaseRead, ReleaseTrim, ReleaseDue, ReleaseDefer,
       ReleaseDeferred, Consume, CheckProcessed, LoadIntent, ExecuteOrder, ExecuteFault,
       CommitOrder, MarkProcessed, Ack, FailAck, FailEnqueue, FailRecord, WorkerCrash,
       workerUnchanged
  <1>4. ASSUME \/ \E j \in Intents : RecoveryRead(j)
               \/ \E e \in Events : QuarantineReplay(e) \/ QuarantineClose(e)
                                    \/ RowAction(e) \/ RecoveryLoop(e)
               \/ QuarantineReplayCommit \/ RecoveryReplay \/ RecoveryFinalize
               \/ ToggleGate \/ UNCHANGED vars
        PROVE  UNCHANGED dispatch
    BY <1>4 DEF RecoveryRead, QuarantineReplay, QuarantineClose, RowAction, RecoveryLoop,
       QuarantineReplayCommit, RecoveryReplay, RecoveryFinalize, ToggleGate, vars,
       operatorUnchanged
  <1> QED BY <1>1, <1>2, <1>3, <1>4 DEF Next, Exists

-----------------------------------------------------------------------------
\* A committed intent is pending, parked or final while nobody dies.
NeverLost == \A i \in Intents : Stage(i) # "lost"

LEMMA DeliveryNeverLost == LossInv /\ crashes = 0 => NeverLost
  <1> SUFFICES ASSUME LossInv, crashes = 0 PROVE NeverLost
    OBVIOUS
  <1>1. IsFiniteSet(Lost) /\ Cardinality(Lost) <= 0 * ReleaseLimit
    BY DEF LossInv
  <1>2. 0 * ReleaseLimit = 0 /\ Cardinality(Lost) \in Nat
    BY <1>1, ConstantFacts, FS_CardinalityType
  <1>3. Lost = {}
    <2>1. Cardinality(Lost) = 0
      BY <1>1, <1>2
    <2> QED BY <1>1, <2>1, FS_EmptySet
  <1> QED BY <1>3 DEF NeverLost, Lost, Stage, Exists

\* The final rows of an intent: none, or one.
LEMMA FinalsNone ==
    ASSUME NEW i \in Intents
    PROVE  ~Terminal(i) => deliveryFinals[i] = Delivery!NoRows
  BY CountsNone DEF Terminal, deliveryFinals, PlacesOf, Delivery!NoRows

FinalsOne ==
    \A i \in Intents : Terminal(i) =>
        \E row \in FinalRows : deliveryFinals[i] = Delivery!Once(row)

LEMMA DeliveryFinalsOne == OneFinalRow /\ NoManualRow => FinalsOne
  <1> SUFFICES ASSUME OneFinalRow, NoManualRow, NEW i \in Intents, Terminal(i)
               PROVE  \E row \in FinalRows : deliveryFinals[i] = Delivery!Once(row)
    BY DEF FinalsOne
  <1>1. PICK row \in FinalRows : \A r \in FinalRows :
           Cardinality({k \in DOMAIN ledger[i] : ledger[i][k] = r}) = IF r = row THEN 1 ELSE 0
    BY CountsOnce DEF OneFinalRow, NoManualRow, Terminal
  <1> QED BY <1>1 DEF deliveryFinals, PlacesOf, Delivery!Once

\* One step of one intent, whatever the bus does.
IntentStep(i) ==
    \/ deliveryStage'[i] = deliveryStage[i] /\ deliveryFinals'[i] = deliveryFinals[i]
    \/ /\ deliveryStage[i] = "none" /\ deliveryStage'[i] \in {"pending", "parked"}
       /\ deliveryFinals'[i] = deliveryFinals[i]
    \/ /\ deliveryStage[i] \in {"pending", "parked"} /\ deliveryStage'[i] = "final"
       /\ \E row \in FinalRows : deliveryFinals'[i] = Delivery!Once(row)
    \/ /\ deliveryStage[i] = "pending" /\ deliveryStage'[i] = "parked"
       /\ deliveryFinals'[i] = deliveryFinals[i]
    \/ /\ deliveryStage[i] = "parked" /\ deliveryStage'[i] = "pending"
       /\ deliveryFinals'[i] = deliveryFinals[i]

LEMMA IntentSteps ==
    ASSUME DeliveryInv, Undisturbed, [Next]_vars, NeverLost, NeverLost', OneFinalRow',
           FinalsOne', NEW i \in Intents
    PROVE  IntentStep(i)
  <1>1. /\ \A k \in DOMAIN ledger[i] :
              k \in DOMAIN ledger'[i] /\ ledger'[i][k] = ledger[i][k]
        /\ ledger'[i] # ledger[i] => Exists(i)
        /\ \A k \in DOMAIN ledger'[i] : ledger'[i][k] # "manual"
    BY RowsMove DEF DeliveryInv, Undisturbed
  <1>2. Exists(i) => Exists(i)'
    BY ExistsKept DEF DeliveryInv
  <1>3. Terminal(i) => Terminal(i)'
    BY <1>1 DEF Terminal
  <1>4. Terminal(i) => Exists(i)
    BY Standing DEF DeliveryInv, LedgerSound, Terminal
  <1>5. Stage(i) # "lost" /\ Stage(i)' # "lost"
    BY DEF NeverLost
  <1>6. deliveryStage[i] = Stage(i) /\ deliveryStage'[i] = Stage(i)'
    BY DEF deliveryStage
  <1>7. CASE Terminal(i)
    <2>1. \A r \in FinalRows : PlacesOf(r, i)' = PlacesOf(r, i)
      <3>1. \A k, n \in DOMAIN ledger'[i] :
               ledger'[i][k] \in ConsumerRows /\ ledger'[i][n] \in ConsumerRows => k = n
        BY DEF OneFinalRow
      <3> QED BY <1>1, <1>7, <3>1, CountsKept DEF PlacesOf, Terminal
    <2>2. deliveryFinals'[i] = deliveryFinals[i]
      BY <2>1 DEF deliveryFinals
    <2> QED BY <1>3, <1>6, <1>7, <2>2 DEF Stage, IntentStep
  <1>8. CASE ~Terminal(i) /\ Terminal(i)'
    <2>1. Exists(i)
      BY <1>1, <1>8 DEF Terminal
    <2>2. \E row \in FinalRows : deliveryFinals'[i] = Delivery!Once(row)
      BY <1>8 DEF FinalsOne
    <2> QED BY <1>5, <1>6, <1>8, <2>1, <2>2 DEF Stage, IntentStep
  <1>9. CASE ~Terminal(i) /\ ~Terminal(i)'
    <2>1. deliveryFinals'[i] = deliveryFinals[i]
      <3>1. \A r \in FinalRows : /\ Cardinality(PlacesOf(r, i)) = 0
                                 /\ Cardinality(PlacesOf(r, i)') = 0
        BY <1>9, CountsNone DEF PlacesOf, Terminal
      <3> QED BY <3>1 DEF deliveryFinals
    <2> QED BY <1>2, <1>5, <1>6, <1>9, <2>1 DEF Stage, IntentStep
  <1> QED BY <1>7, <1>8, <1>9

-----------------------------------------------------------------------------
\* A step is about one intent.
Untouched(j) ==
    /\ ledger'[j] = ledger[j] /\ (Exists(j)' <=> Exists(j))
    /\ (LiveIntent(j)' <=> LiveIntent(j)) /\ (DeadLettered(j)' <=> DeadLettered(j))

OnlyOne == \E i : \A j \in Intents : j # i => Untouched(j)

LEMMA UntouchedStays ==
    ASSUME NEW j \in Intents, Untouched(j)
    PROVE  deliveryStage'[j] = deliveryStage[j] /\ deliveryFinals'[j] = deliveryFinals[j]
  <1>1. Stage(j)' = Stage(j)
    BY DEF Untouched, Stage, Terminal
  <1>2. \A r \in FinalRows : PlacesOf(r, j)' = PlacesOf(r, j)
    BY DEF Untouched, PlacesOf
  <1> QED BY <1>1, <1>2 DEF deliveryStage, deliveryFinals

\* A step of the consumer keeps the copies of every other intent.
LEMMA ConsumerTouches ==
    ASSUME Inv, OneWorker, NEW w \in Workers, NEW i, NEW s,
           sess' = [sess EXCEPT ![w] = s], UNCHANGED dispatch,
           \A j \in Intents : j # i => ledger'[j] = ledger[j],
           deadLetter \subseteq deadLetter',
           \A e \in deadLetter' : e \in deadLetter \/ e[1] = i,
           \A env \in CopiesIn(queue) \cup CopiesIn(retryQueue) \cup Held(sess[w]) :
               \/ env \in CopiesIn(queue') \cup CopiesIn(retryQueue') \cup Held(s)
               \/ IntentOf(env) = i,
           \A env \in CopiesIn(queue') \cup CopiesIn(retryQueue') \cup Held(s) :
               \/ env \in CopiesIn(queue) \cup CopiesIn(retryQueue) \cup Held(sess[w])
               \/ IntentOf(env) = i
    PROVE  OnlyOne
  <1>1. sess'[w] = s
    BY DEF Inv, TypeOK
  <1>2. /\ Live = CopiesIn(queue) \cup CopiesIn(retryQueue) \cup Held(sess[w])
        /\ Live' = CopiesIn(queue') \cup CopiesIn(retryQueue') \cup Held(s)
    BY <1>1, LiveAlone
  <1>3. ASSUME NEW j \in Intents, j # i PROVE Untouched(j)
    <2>1. LiveIntent(j)' <=> LiveIntent(j)
      BY <1>2, <1>3 DEF LiveIntent
    <2>2. DeadLettered(j)' <=> DeadLettered(j)
      BY <1>3 DEF DeadLettered
    <2> QED BY <1>3, <2>1, <2>2 DEF Untouched, Exists
  <1> QED BY <1>3 DEF OnlyOne

\* So does everybody else's, who take no copy away.
LEMMA OthersTouch ==
    ASSUME NEW i, UNCHANGED <<sess, retryQueue, deadLetter, ledger>>,
           \A j \in Intents : j # i => (Exists(j)' <=> Exists(j)),
           CopiesIn(queue) \subseteq CopiesIn(queue'),
           \A env \in CopiesIn(queue') : env \in CopiesIn(queue) \/ IntentOf(env) = i
    PROVE  OnlyOne
  <1>1. Live \subseteq Live' /\ \A env \in Live' : env \in Live \/ IntentOf(env) = i
    BY DEF Live
  <1>2. ASSUME NEW j \in Intents, j # i PROVE Untouched(j)
    <2>1. LiveIntent(j)' <=> LiveIntent(j)
      BY <1>1, <1>2 DEF LiveIntent
    <2> QED BY <1>2, <2>1 DEF Untouched, DeadLettered
  <1> QED BY <1>2 DEF OnlyOne

LEMMA ReleaseTouches ==
    ASSUME Inv, LossInv, OneWorker, NEW w \in Workers,
           ReleaseRead(w) \/ ReleaseTrim(w)
    PROVE  OnlyOne
  <1>0. PICK t : t = sess[w]
    OBVIOUS
  <1>1. /\ t \in Session /\ Holds(pc[w], t) /\ t.batch \in Seq(Envelopes)
        /\ retryQueue \in Seq(Envelopes) /\ sess \in [Workers -> Session]
    BY <1>0, Holding DEF LossInv, Inv, TypeOK
  <1>2. UNCHANGED <<queue, dispatch, ledger, deadLetter>>
    BY DEF ReleaseRead, ReleaseTrim, storesUnchanged, workerUnchanged
  <1>3. CASE ReleaseRead(w)
    <2> DEFINE n == Sets!Min({ReleaseLimit, Len(retryQueue)})
               c == SubSeq(retryQueue, 1, n)
               s == [t EXCEPT !.batch = c]
    <2>1. n \in 0..Len(retryQueue)
      <3>1. Len(retryQueue) \in Nat
        BY <1>1, CopiesOf
      <3> QED BY <3>1, ConstantFacts, MinOfTwo
    <2>2. sess' = [sess EXCEPT ![w] = s] /\ retryQueue' = retryQueue /\ pc[w] = "idle"
      BY <1>0, <1>3 DEF ReleaseRead
    <2> HIDE DEF n
    <2>3. CopiesIn(c) \subseteq CopiesIn(retryQueue)
      BY <1>1, <2>1, CopiesSplit
    <2> HIDE DEF c
    <2>4. /\ s.batch = c /\ s.deferred = t.deferred /\ s.env = t.env
          /\ t.batch = <<>>
      BY <1>1, <2>2 DEF Session, Holds, Releasing
    <2> HIDE DEF s
    <2>5. Held(t) \subseteq Held(s) /\ Held(s) \subseteq Held(t) \cup CopiesIn(retryQueue)
      BY <2>3, <2>4, NoCopies DEF Held
    <2> QED BY <1>0, <1>2, <2>2, <2>5, ConsumerTouches
  <1>4. CASE ReleaseTrim(w)
    <2> DEFINE n == Len(t.batch)
               a == SubSeq(retryQueue, 1, n)
    <2>1. n \in Nat /\ n \in 0..Len(retryQueue) /\ pc[w] = "trim"
      BY <1>1, <1>4, LenProperties DEF Holds, ReleaseTrim
    <2>2. /\ retryQueue' = SubSeq(retryQueue, n + 1, Len(retryQueue))
          /\ sess' = [sess EXCEPT ![w] = t]
      BY <1>0, <1>1, <1>4 DEF ReleaseTrim
    <2>3. /\ a \in Seq(Envelopes) /\ Len(a) = n /\ \A k \in 1..n : a[k] = retryQueue[k]
          /\ CopiesIn(retryQueue) = CopiesIn(a) \cup CopiesIn(retryQueue')
      BY <1>1, <2>1, <2>2, CopiesSplit
    <2>4. t.batch = a
      <3> HIDE DEF a
      <3>1. \A k \in 1..Len(t.batch) : t.batch[k] = a[k]
        BY <1>1, <2>1, <2>3 DEF Holds
      <3> QED BY <1>1, <2>3, <3>1, SeqEqual
    <2> HIDE DEF a
    <2>5. CopiesIn(retryQueue) \cup Held(t) = CopiesIn(retryQueue') \cup Held(t)
      BY <2>3, <2>4 DEF Held
    <2> HIDE DEF n
    <2> QED BY <1>0, <1>2, <2>2, <2>5, ConsumerTouches
  <1> QED BY <1>3, <1>4

LEMMA MoveTouches ==
    ASSUME Inv, OneWorker, NEW w \in Workers,
           ReleaseDue(w) \/ ReleaseDefer(w) \/ ReleaseDeferred(w) \/ Consume(w)
    PROVE  OnlyOne
  <1>0. PICK t : t = sess[w]
    OBVIOUS
  <1>1. /\ t \in Session /\ Fits(pc[w], t)
        /\ t.batch \in Seq(Envelopes) /\ t.deferred \in Seq(Envelopes)
        /\ queue \in Seq(Envelopes) /\ retryQueue \in Seq(Envelopes)
        /\ sess \in [Workers -> Session]
    BY <1>0, Holding DEF Inv, TypeOK
  <1>2. UNCHANGED <<dispatch, ledger, deadLetter>>
    BY DEF ReleaseDue, ReleaseDefer, ReleaseDeferred, Consume, storesUnchanged,
           workerUnchanged
  <1>3. t.env = NoEnvelope
    BY <1>0, <1>1 DEF ReleaseDue, ReleaseDefer, ReleaseDeferred, Consume, Fits, Handling,
                      Attempting
  <1>4. SUFFICES ASSUME NEW s, sess' = [sess EXCEPT ![w] = s]
                 PROVE  CopiesIn(queue) \cup CopiesIn(retryQueue) \cup Held(t)
                          = CopiesIn(queue') \cup CopiesIn(retryQueue') \cup Held(s)
    <2>1. sess' = [sess EXCEPT ![w] = sess'[w]]
      BY <1>1 DEF ReleaseDue, ReleaseDefer, ReleaseDeferred, Consume
    <2> QED BY <1>0, <1>2, <2>1, ConsumerTouches
  <1>5. s = sess'[w]
    BY <1>1, <1>4
  <1>6. CASE ReleaseDue(w) \/ ReleaseDefer(w)
    <2> DEFINE b == Tail(t.batch)
               h == Head(t.batch)
               d == Append(t.deferred, h)
    <2>1. /\ b \in Seq(Envelopes) /\ h \in Envelopes
          /\ CopiesIn(t.batch) = CopiesIn(b) \cup {h}
      BY <1>0, <1>1, <1>6, CopiesHeadTail DEF ReleaseDue, ReleaseDefer
    <2>2. CopiesIn(d) = CopiesIn(t.deferred) \cup {h}
      BY <1>1, <2>1, CopiesAppend
    <2>3. CASE ReleaseDue(w)
      <3>1. /\ s.batch = b /\ s.deferred = t.deferred /\ s.env = t.env
            /\ queue' = Append(queue, h) /\ retryQueue' = retryQueue
        BY <1>0, <1>1, <1>5, <2>3 DEF ReleaseDue, Session
      <3> HIDE DEF b, h
      <3>2. CopiesIn(queue') = CopiesIn(queue) \cup {h}
        BY <1>1, <2>1, <3>1, CopiesAppend
      <3> QED BY <1>4, <2>1, <3>1, <3>2 DEF Held
    <2>4. CASE ReleaseDefer(w)
      <3>1. /\ s.batch = b /\ s.deferred = d /\ s.env = t.env
            /\ queue' = queue /\ retryQueue' = retryQueue
        BY <1>0, <1>1, <1>5, <2>4 DEF ReleaseDefer, Session
      <3> HIDE DEF b, h, d
      <3> QED BY <1>4, <2>1, <2>2, <3>1 DEF Held
    <2> QED BY <1>6, <2>3, <2>4
  <1>7. CASE ReleaseDeferred(w)
    <2>1. /\ retryQueue' = retryQueue \o t.deferred /\ queue' = queue
          /\ s = NoSession /\ t.batch = <<>>
      BY <1>0, <1>1, <1>5, <1>7 DEF ReleaseDeferred
    <2>2. CopiesIn(retryQueue') = CopiesIn(retryQueue) \cup CopiesIn(t.deferred)
      BY <1>1, <2>1, CopiesConcat
    <2>3. Held(s) = {} /\ Held(t) = CopiesIn(t.deferred)
      BY <1>3, <2>1, IdleHolds, NoCopies DEF Held
    <2> QED BY <1>4, <2>1, <2>2, <2>3
  <1>8. CASE Consume(w) /\ queue = <<>>
    <2>1. s = t /\ queue' = queue /\ retryQueue' = retryQueue
      BY <1>0, <1>5, <1>8 DEF Consume
    <2> QED BY <1>4, <2>1
  <1>9. CASE Consume(w) /\ queue # <<>>
    <2>1. PICK x : x = Seqs!Last(queue)
      OBVIOUS
    <2>2. /\ s = [t EXCEPT !.env = x] /\ queue' = Seqs!Front(queue)
          /\ retryQueue' = retryQueue
      BY <1>0, <1>1, <1>5, <1>9, <2>1 DEF Consume
    <2>3. x \in Envelopes /\ CopiesIn(queue) = CopiesIn(queue') \cup {x}
      BY <1>1, <1>9, <2>1, <2>2, CopiesFrontLast
    <2>4. s.env = x /\ s.batch = t.batch /\ s.deferred = t.deferred
      BY <1>1, <2>2 DEF Session
    <2>5. x # NoEnvelope
      <3>1. x.event # <<>>
        BY <2>3, EnvelopeFacts, EventNotEmpty
      <3> QED BY <3>1 DEF NoEnvelope
    <2> QED BY <1>3, <1>4, <2>2, <2>3, <2>4, <2>5 DEF Held
  <1> QED BY <1>6, <1>7, <1>8, <1>9

LEMMA HandlingTouches ==
    ASSUME Inv, LossInv, OneWorker, NEW w \in Workers,
           \/ CheckProcessed(w) \/ LoadIntent(w) \/ ExecuteOrder(w) \/ ExecuteFault(w)
           \/ CommitOrder(w) \/ MarkProcessed(w) \/ Ack(w) \/ FailAck(w)
           \/ FailEnqueue(w) \/ FailRecord(w)
    PROVE  OnlyOne
  <1>0. PICK t, s, i : t = sess[w] /\ s = sess'[w] /\ i = IntentOf(t.env)
    OBVIOUS
  <1>1. /\ Holds(pc[w], t) /\ pc[w] \in Handling /\ t.env \in Envelopes
        /\ ledger \in [Intents -> Seq(Rows)] /\ sess \in [Workers -> Session]
        /\ queue' = queue /\ UNCHANGED dispatch /\ retryQueue \in Seq(Envelopes)
        /\ sess' = [sess EXCEPT ![w] = s]
    <2>1. pc[w] \in Handling
      BY DEF CheckProcessed, LoadIntent, ExecuteOrder, ExecuteFault, CommitOrder,
             MarkProcessed, Ack, FailAck, FailEnqueue, FailRecord, Handling, Attempting
    <2>2. sess \in [Workers -> Session] /\ ledger \in [Intents -> Seq(Rows)]
      BY DEF Inv, TypeOK
    <2>3. queue' = queue /\ UNCHANGED dispatch
      BY DEF CheckProcessed, LoadIntent, ExecuteOrder, ExecuteFault, CommitOrder,
             MarkProcessed, Ack, FailAck, FailEnqueue, FailRecord, queuesUnchanged,
             workerUnchanged
    <2>4. sess' = [sess EXCEPT ![w] = s]
      <3>1. Inv'
        BY CheckProcessedInv, LoadIntentInv, ExecuteOrderInv, ExecuteFaultInv,
           CommitOrderInv, MarkProcessedInv, AckInv, FailAckInv, FailEnqueueInv,
           FailRecordInv
      <3>2. sess' \in [Workers -> Session] /\ \A v \in Workers : v = w
        BY <3>1 DEF Inv, TypeOK, OneWorker
      <3> QED BY <1>0, <2>2, <3>2
    <2> QED BY <1>0, <2>1, <2>2, <2>3, <2>4, Holding DEF LossInv
  <1>2. t.batch = <<>> /\ t.deferred = <<>>
    BY <1>1 DEF Holds, Handling, Attempting, Releasing
  <1>3. \A env \in Held(t) : IntentOf(env) = i
    BY <1>0, <1>2, NoCopies DEF Held
  <1>4. \A env \in Held(s) : IntentOf(env) = i
    <2>1. CASE Held(s) = {}
      BY <2>1
    <2>2. CASE s.batch = <<>> /\ s.deferred = <<>> /\ IntentOf(s.env) = i
      BY <2>2, NoCopies DEF Held
    <2>3. CASE s = NoSession
      BY <2>1, <2>3, IdleHolds
    <2>4. CASE \/ CheckProcessed(w) /\ t.env.event \in processed
               \/ Ack(w) \/ FailRecord(w)
      BY <1>0, <1>1, <2>3, <2>4 DEF CheckProcessed, Ack, FailRecord
    <2>5. CASE FailEnqueue(w)
      BY <1>0, <1>2, <2>2, <2>5 DEF FailEnqueue
    <2>6. CASE ~FailEnqueue(w) /\ ~Ack(w) /\ ~FailRecord(w)
               /\ ~(CheckProcessed(w) /\ t.env.event \in processed)
      <3>1. /\ s.batch = t.batch /\ s.deferred = t.deferred
            /\ ~FailAck(w) => s.env = t.env
            /\ FailAck(w) => s.env = [t.env EXCEPT !.retry = t.env.retry + 1]
        BY <1>0, <2>6, SessionKept
      <3>2. s.env.event = t.env.event
        BY <1>1, <3>1 DEF Envelopes
      <3> QED BY <1>0, <1>2, <2>2, <3>1, <3>2 DEF IntentOf
    <2> QED BY <2>4, <2>5, <2>6
  <1>5. \A j \in Intents : j # i => ledger'[j] = ledger[j]
    BY <1>0, <1>1 DEF CheckProcessed, LoadIntent, ExecuteOrder, ExecuteFault, CommitOrder,
       MarkProcessed, Ack, FailAck, FailEnqueue, FailRecord, storesUnchanged, AddRows
  <1>6. /\ deadLetter \subseteq deadLetter'
        /\ \A e \in deadLetter' : e \in deadLetter \/ e[1] = i
    BY <1>0 DEF CheckProcessed, LoadIntent, ExecuteOrder, ExecuteFault, CommitOrder,
       MarkProcessed, Ack, FailAck, FailEnqueue, FailRecord, storesUnchanged, IntentOf
  <1>7. /\ CopiesIn(retryQueue) \subseteq CopiesIn(retryQueue')
        /\ CopiesIn(retryQueue') \subseteq CopiesIn(retryQueue) \cup {t.env}
    <2>1. retryQueue' = retryQueue \/ retryQueue' = Append(retryQueue, t.env)
      BY <1>0 DEF CheckProcessed, LoadIntent, ExecuteOrder, ExecuteFault, CommitOrder,
         MarkProcessed, Ack, FailAck, FailEnqueue, FailRecord, queuesUnchanged
    <2>2. CASE retryQueue' = Append(retryQueue, t.env)
      BY <1>1, <2>2, CopiesAppend
    <2> QED BY <2>1, <2>2
  <1>8. /\ \A env \in CopiesIn(queue) \cup CopiesIn(retryQueue) \cup Held(sess[w]) :
              \/ env \in CopiesIn(queue') \cup CopiesIn(retryQueue') \cup Held(s)
              \/ IntentOf(env) = i
        /\ \A env \in CopiesIn(queue') \cup CopiesIn(retryQueue') \cup Held(s) :
              \/ env \in CopiesIn(queue) \cup CopiesIn(retryQueue) \cup Held(sess[w])
              \/ IntentOf(env) = i
    BY <1>0, <1>1, <1>3, <1>4, <1>7
  <1>9. sess' = [sess EXCEPT ![w] = s] /\ UNCHANGED dispatch
    BY <1>1
  <1> QED BY <1>5, <1>6, <1>8, <1>9, ConsumerTouches, Zenon

LEMMA DispatchTouches ==
    ASSUME Inv, NEW i \in Intents, Dispatch(i) \/ DispatchCrash(i)
    PROVE  OnlyOne
  <1>1. UNCHANGED <<sess, retryQueue, deadLetter, ledger>>
    BY DEF Dispatch, DispatchCheck, DispatchInsert, DispatchPublish, DispatchCommit,
           DispatchCrash, dispatchUnchanged
  <1>2. \A j \in Intents : j # i => (Exists(j)' <=> Exists(j))
    BY Standing DEF Exists, Dispatch, DispatchCheck, DispatchInsert, DispatchPublish,
                    DispatchCommit, DispatchCrash
  <1>3. CASE DispatchPublish(i)
    <2> DEFINE x == [event |-> <<i, 0>>, retry |-> 0]
    <2>1. x \in Envelopes /\ IntentOf(x) = i
      <3>1. <<i, 0>> \in Events /\ 0 \in 0..(MaxRetry + MaxOps)
        BY EventFacts, ConstantFacts
      <3> QED BY <3>1 DEF Envelopes, IntentOf
    <2>2. queue' = Append(queue, x)
      BY <1>3 DEF DispatchPublish
    <2> HIDE DEF x
    <2>3. CopiesIn(queue') = CopiesIn(queue) \cup {x}
      BY <2>1, <2>2, Standing, CopiesAppend
    <2> QED BY <1>1, <1>2, <2>1, <2>3, OthersTouch
  <1>4. CASE ~DispatchPublish(i)
    <2>1. UNCHANGED queue
      BY <1>4 DEF Dispatch, DispatchCheck, DispatchInsert, DispatchCommit, DispatchCrash
    <2> QED BY <1>1, <1>2, <2>1, OthersTouch
  <1> QED BY <1>3, <1>4

\* An operator's replay is about the intent of the event it replays.
LEMMA ReplayTouches ==
    ASSUME Inv, operatorUnchanged, UNCHANGED ledger, NEW x \in Envelopes,
           queue' = Append(queue, x)
    PROVE  OnlyOne
  <1>1. UNCHANGED <<sess, retryQueue, deadLetter, dispatch>>
    BY DEF operatorUnchanged
  <1>2. CopiesIn(queue') = CopiesIn(queue) \cup {x}
    BY Standing, CopiesAppend
  <1> QED BY <1>1, <1>2, OthersTouch DEF Exists

LEMMA StepTouches ==
    ASSUME Inv, LossInv, OneWorker, Undisturbed, Undisturbed', [Next]_vars
    PROVE  OnlyOne
  <1>1. ASSUME NEW w \in Workers, WorkerStep(w) PROVE OnlyOne
    BY <1>1, ReleaseTouches, MoveTouches, HandlingTouches DEF WorkerStep
  <1>2. ASSUME NEW w \in Workers, WorkerCrash(w) PROVE OnlyOne
    BY <1>2 DEF WorkerCrash, Undisturbed
  <1>3. ASSUME NEW i \in Intents, Dispatch(i) \/ DispatchCrash(i) PROVE OnlyOne
    BY <1>3, DispatchTouches
  <1>4. ASSUME UNCHANGED <<sess, queue, retryQueue, deadLetter, ledger, dispatch>>
        PROVE  OnlyOne
    BY <1>4, OthersTouch DEF Exists
  <1>5. ASSUME NEW i \in Intents, RecoveryRead(i) PROVE OnlyOne
    BY <1>4, <1>5 DEF RecoveryRead, operatorUnchanged
  <1>6. ASSUME NEW e \in Events, QuarantineReplay(e) PROVE OnlyOne
    <2>1. /\ operatorUnchanged /\ UNCHANGED ledger /\ HasRow(e)
          /\ queue' = Append(queue, failed[e].envelope)
      BY <1>6 DEF QuarantineReplay
    <2>2. failed[e].envelope \in Envelopes
      BY <2>1, Standing, RowFacts DEF HasRow
    <2> QED BY <2>1, <2>2, ReplayTouches
  <1>7. ASSUME NEW e \in Events, QuarantineClose(e) \/ RowAction(e) \/ RecoveryLoop(e)
        PROVE  OnlyOne
    BY <1>4, <1>7 DEF QuarantineClose, RowAction, RecoveryLoop, operatorUnchanged
  <1>8. ASSUME QuarantineReplayCommit \/ ToggleGate \/ UNCHANGED vars PROVE OnlyOne
    BY <1>4, <1>8 DEF QuarantineReplayCommit, ToggleGate, vars, operatorUnchanged
  <1>9. ASSUME RecoveryReplay PROVE OnlyOne
    <2>1. op.act = "replay" /\ operatorUnchanged /\ UNCHANGED ledger
      BY <1>9 DEF RecoveryReplay
    <2>2. PICK i \in Intents : i = op.target
      BY <2>1, Standing DEF OpSound, NoOp
    <2> DEFINE n == replays[i] + 1
               x == [event |-> <<i, n>>, retry |-> 0]
    <2>3. queue' = Append(queue, x)
      BY <1>9, <2>2 DEF RecoveryReplay
    <2>4. x \in Envelopes
      BY <2>1, <2>2, ReplayedEvent
    <2> HIDE DEF x
    <2> QED BY <2>1, <2>3, <2>4, ReplayTouches
  <1>10. ~RecoveryFinalize
    BY DEF RecoveryFinalize, Undisturbed
  <1> QED BY <1>1, <1>2, <1>3, <1>5, <1>6, <1>7, <1>8, <1>9, <1>10 DEF Next

-----------------------------------------------------------------------------
LEMMA DeliveryStep ==
    OneWorker /\ DeliveryInv /\ Undisturbed /\ Undisturbed' /\ NeverLost /\ NeverLost'
    /\ OneFinalRow' /\ FinalsOne' /\ [Next]_vars
    => [Delivery!Next]_(Delivery!vars)
  <1> SUFFICES ASSUME OneWorker, DeliveryInv, Undisturbed, Undisturbed', NeverLost,
                      NeverLost', OneFinalRow', FinalsOne', [Next]_vars
               PROVE  [Delivery!Next]_(Delivery!vars)
    OBVIOUS
  <1>1. PICK i : \A j \in Intents : j # i => Untouched(j)
    BY StepTouches DEF OnlyOne, DeliveryInv
  <1> DEFINE st == deliveryStage
             fi == deliveryFinals
  <1>2. \A j \in Intents : j # i => st'[j] = st[j] /\ fi'[j] = fi[j]
    BY <1>1, UntouchedStays
  <1>3. /\ st = [j \in Intents |-> st[j]] /\ st' = [j \in Intents |-> st'[j]]
        /\ fi = [j \in Intents |-> fi[j]] /\ fi' = [j \in Intents |-> fi'[j]]
    BY DEF deliveryStage, deliveryFinals
  <1>4. i \in Intents => IntentStep(i)
    BY IntentSteps
  <1> HIDE DEF st, fi
  <1>5. /\ i \in Intents => st' = [st EXCEPT ![i] = st'[i]] /\ fi' = [fi EXCEPT ![i] = fi'[i]]
        /\ i \notin Intents => st' = st /\ fi' = fi
        /\ i \in Intents /\ st'[i] = st[i] => st' = st
        /\ i \in Intents /\ fi'[i] = fi[i] => fi' = fi
    BY <1>2, <1>3
  <1> USE DEF st, fi
  <1>6. CASE st' = st /\ fi' = fi
    BY <1>6 DEF Delivery!vars
  <1>7. CASE ~(st' = st /\ fi' = fi)
    <2>1. i \in Intents /\ IntentStep(i)
      BY <1>4, <1>5, <1>7
    <2>2. Delivery!Record(i) \/ Delivery!Finish(i) \/ Delivery!Park(i) \/ Delivery!Unpark(i)
      BY <1>5, <1>7, <2>1
         DEF IntentStep, Delivery!Record, Delivery!Finish, Delivery!Park, Delivery!Unpark
    <2> QED BY <2>1, <2>2 DEF Delivery!Next
  <1> QED BY <1>6, <1>7

LEMMA DeliveryInit == Init => Delivery!Init
  <1> SUFFICES ASSUME Init PROVE Delivery!Init
    OBVIOUS
  <1>1. \A i \in Intents : ~Terminal(i) /\ Stage(i) = "none"
    BY DEF Init, Terminal, Stage, Exists
  <1>2. \A i \in Intents : deliveryFinals[i] = Delivery!NoRows
    BY <1>1, FinalsNone
  <1> QED BY <1>1, <1>2 DEF Delivery!Init, deliveryStage, deliveryFinals

\* While nobody dies and no operator closes an intent by hand, one consumer
\* keeps the promise of IntentDelivery: an intent that is committed is never
\* lost, it has one final row or is where somebody will look at it, and a final
\* row is not followed by another, whatever is retried, parked and replayed.
THEOREM DeliverySafe == ASSUME OneWorker PROVE Spec /\ []Undisturbed => Delivery!Safe
  <1>1. Init => DeliveryInv
    <2>1. Init => NoManualRow
      BY DEF Init, NoManualRow
    <2> QED BY <2>1, InitInv, OnceInit, LossInit DEF DeliveryInv
  <1>2. DeliveryInv /\ Undisturbed /\ [Next]_vars => DeliveryInv'
    BY NextInv, OnceNext, LossNext, ManualNext DEF DeliveryInv
  <1>3. DeliveryInv => OneFinalRow /\ FinalsOne
    BY DeliveryFinalsOne DEF DeliveryInv, OnceInv
  <1>4. DeliveryInv /\ Undisturbed => NeverLost
    BY DeliveryNeverLost DEF DeliveryInv, Undisturbed
  <1>5. DeliveryInv /\ Undisturbed /\ Undisturbed' /\ NeverLost /\ NeverLost'
        /\ OneFinalRow' /\ FinalsOne' /\ [Next]_vars
        => [Delivery!Next]_(Delivery!vars)
    BY DeliveryStep
  <1> QED BY <1>1, <1>2, <1>3, <1>4, <1>5, DeliveryInit, PTL DEF Spec, Delivery!Safe

=============================================================================
