---------------------- MODULE ExecutionSafetyProofs ------------------------
(***************************************************************************)
(* Proofs about the execution gate, for every value of the constants: as   *)
(* long as no two lanes race past the gate, what the tables count passes   *)
(* the limits by no more than was opened, queued or booked without asking; *)
(* lanes that race add at most one proposal each but the last; and of what *)
(* the gate lets through, only the work that was already past it is        *)
(* executed after the switch was turned off.                               *)
(***************************************************************************)
EXTENDS ExecutionSafety, FiniteSetTheorems, TLAPS
----------------------------------------------------------------------------
(* Amounts.                                                                *)

\* A finite set with an amount for each of its elements.
Sized(f, S) == IsFiniteSet(S) /\ \A i \in S : f[i] \in 0..MaxSize

\* What of a proposal a position still counts for.
Kept == [i \in Intents |-> IF i \in UIntents THEN Lesser(Claim[i], Worth[i])
                                            ELSE Claim[i]]

Amounts == [Intents -> 0..MaxSize]

LEMMA ClaimTypes ==
    /\ Claim \in Amounts /\ Kept \in Amounts
    /\ \A i \in Intents : /\ Kept[i] <= Claim[i] /\ Claim[i] <= Asked[i]
                          /\ Claim[i] <= Booked[i]
                          /\ Asked[i] \in 0..MaxSize /\ Booked[i] \in 0..MaxSize
    /\ \A u \in UIntents : /\ Kept[u] <= Worth[u] /\ Worth[u] \in 0..MaxSize
                           /\ Kept[u] = Lesser(Claim[u], Worth[u])
  <1>1. /\ MaxSize \in Nat /\ Asked \in [Intents -> 0..MaxSize]
        /\ Booked \in [Intents -> 0..MaxSize]
        /\ Worth \in [Positions -> 0..MaxSize]
    BY SafetyConstants
  <1>2. \A i \in Intents : Claim[i] = Lesser(Asked[i], Booked[i])
    BY DEF Claim
  <1>3. ASSUME NEW i \in Intents
        PROVE  /\ Claim[i] \in 0..MaxSize /\ Claim[i] <= Asked[i]
               /\ Claim[i] <= Booked[i]
               /\ Asked[i] \in 0..MaxSize /\ Booked[i] \in 0..MaxSize
    BY <1>1, <1>2 DEF Lesser
  <1>4. \A i \in Intents : Kept[i] = IF i \in UIntents
                                     THEN Lesser(Claim[i], Worth[i])
                                     ELSE Claim[i]
    BY DEF Kept
  <1>5. \A u \in UIntents : u \in Intents /\ Worth[u] \in 0..MaxSize
    BY <1>1 DEF Intents, Positions
  <1>6. ASSUME NEW i \in Intents
        PROVE  Kept[i] \in 0..MaxSize /\ Kept[i] <= Claim[i]
    BY <1>1, <1>3, <1>4, <1>5 DEF Lesser
  <1>7. ASSUME NEW u \in UIntents
        PROVE  Kept[u] <= Worth[u] /\ Kept[u] = Lesser(Claim[u], Worth[u])
    BY <1>1, <1>3, <1>4, <1>5 DEF Lesser
  <1>8. Claim \in Amounts /\ Kept \in Amounts
    BY <1>3, <1>6 DEF Claim, Kept, Amounts
  <1>. QED  BY <1>3, <1>5, <1>6, <1>7, <1>8

\* A product grows with its first factor.
LEMMA ProductGrows ==
    ASSUME NEW m \in Nat, NEW n \in Nat, NEW k \in Nat, m <= n
    PROVE  m * k <= n * k /\ m * k \in Nat /\ n * k \in Nat
  <1>1. PICK d \in Nat : n = m + d
    <2>1. n - m \in Nat /\ n = m + (n - m)
      OBVIOUS
    <2>. QED  BY <2>1
  <1>2. n * k = m * k + d * k
    BY <1>1
  <1>3. m * k \in Nat /\ d * k \in Nat /\ n * k \in Nat
    OBVIOUS
  <1>. QED  BY <1>2, <1>3

LEMMA FiniteIntents ==
    ASSUME NEW S \in SUBSET Intents
    PROVE  IsFiniteSet(S) /\ Cardinality(S) \in Nat
  BY SafetyConstants, FS_Subset, FS_CardinalityType

LEMMA SizedIntents ==
    ASSUME NEW f \in Amounts, NEW S \in SUBSET Intents
    PROVE  Sized(f, S)
  BY FiniteIntents DEF Sized, Amounts

LEMMA FiniteUnits ==
    ASSUME NEW f, NEW S, Sized(f, S)
    PROVE  /\ IsFiniteSet(Units(f, S))
           /\ Amount(f, S) \in Nat
           /\ Amount(f, S) <= Cardinality(S) * MaxSize
  <1>1. IsFiniteSet(S) /\ Cardinality(S) \in Nat
    BY FS_CardinalityType DEF Sized
  <1>2. MaxSize \in Nat
    BY SafetyConstants
  <1>3. IsFiniteSet(1..MaxSize) /\ Cardinality(1..MaxSize) = MaxSize
    BY <1>2, FS_Interval
  <1>4. /\ IsFiniteSet(S \X (1..MaxSize))
        /\ Cardinality(S \X (1..MaxSize)) = Cardinality(S) * MaxSize
    BY <1>1, <1>3, FS_Product
  <1>5. Units(f, S) \in SUBSET (S \X (1..MaxSize))
    BY DEF Units
  <1>. QED  BY <1>4, <1>5, FS_Subset, FS_CardinalityType DEF Amount

\* An amount that is no larger over a set that is no larger.
LEMMA AmountGrows ==
    ASSUME NEW f, NEW g, NEW T, NEW S \in SUBSET T,
           Sized(f, T), Sized(g, S), \A i \in S : g[i] <= f[i]
    PROVE  Amount(g, S) <= Amount(f, T)
  <1>1. ASSUME NEW p \in Units(g, S)
        PROVE  p \in Units(f, T)
    <2>1. p \in S \X (1..MaxSize) /\ p[2] <= g[p[1]]
      BY DEF Units
    <2>2. p[1] \in S /\ p[1] \in T /\ p[2] \in 1..MaxSize
      BY <2>1
    <2>3. g[p[1]] <= f[p[1]] /\ g[p[1]] \in 0..MaxSize /\ f[p[1]] \in 0..MaxSize
      BY <2>2 DEF Sized
    <2>4. p[2] <= f[p[1]]
      BY <2>1, <2>2, <2>3, SafetyConstants
    <2>5. p \in T \X (1..MaxSize)
      BY <2>1
    <2>. QED  BY <2>4, <2>5 DEF Units
  <1>2. Units(g, S) \in SUBSET Units(f, T)
    BY <1>1
  <1>. QED  BY <1>2, FiniteUnits, FS_Subset DEF Amount

\* The parts of a finite set cover it.
LEMMA Covered ==
    ASSUME NEW A, NEW B, IsFiniteSet(A), IsFiniteSet(B), NEW C \in SUBSET (A \cup B)
    PROVE  /\ IsFiniteSet(C) /\ Cardinality(C) \in Nat
           /\ Cardinality(C) <= Cardinality(A) + Cardinality(B)
  <1>1. /\ IsFiniteSet(A \cup B) /\ IsFiniteSet(A \cap B)
        /\ Cardinality(A \cup B)
             = Cardinality(A) + Cardinality(B) - Cardinality(A \cap B)
    BY FS_Union, FS_Intersection
  <1>2. /\ Cardinality(A) \in Nat /\ Cardinality(B) \in Nat
        /\ Cardinality(A \cap B) \in Nat /\ Cardinality(A \cup B) \in Nat
    BY <1>1, FS_CardinalityType
  <1>3. /\ IsFiniteSet(C) /\ Cardinality(C) <= Cardinality(A \cup B)
    BY <1>1, FS_Subset
  <1>4. Cardinality(C) \in Nat
    BY <1>3, FS_CardinalityType
  <1>. QED  BY <1>1, <1>2, <1>3, <1>4

\* An amount over two parts of a set.
LEMMA AmountSplits ==
    ASSUME NEW f, NEW A, NEW B, NEW S \in SUBSET (A \cup B),
           Sized(f, A), Sized(f, B)
    PROVE  Amount(f, S) <= Amount(f, A) + Amount(f, B)
  <1>1. Units(f, S) \in SUBSET (Units(f, A) \cup Units(f, B))
    BY DEF Units
  <1>. QED  BY <1>1, FiniteUnits, Covered DEF Amount

\* An amount is what was asked about and what exceeds it.
LEMMA AmountExceeds ==
    ASSUME NEW f, NEW g, NEW h, NEW S, Sized(f, S), Sized(h, S), Sized(g, S),
           \A i \in S : h[i] = Lesser(g[i], f[i])
    PROVE  /\ Amount(f, S) <= Amount(h, S) + Excess(f, g, S)
           /\ Excess(f, g, S) \in Nat
  <1>1. ASSUME NEW p \in Units(f, S), p \notin Units(g, S)
        PROVE  p \in Units(f, S) \ Units(g, S)
    BY <1>1
  <1>2. ASSUME NEW p \in Units(f, S), p \in Units(g, S)
        PROVE  p \in Units(h, S)
    <2>1. /\ p \in S \X (1..MaxSize) /\ p[1] \in S /\ p[2] <= f[p[1]]
          /\ p[2] <= g[p[1]]
      BY <1>2 DEF Units
    <2>2. p[2] <= h[p[1]]
      BY <2>1 DEF Lesser
    <2>. QED  BY <2>1, <2>2 DEF Units
  <1>3. Units(f, S) \in SUBSET (Units(h, S) \cup (Units(f, S) \ Units(g, S)))
    BY <1>2
  <1>4. IsFiniteSet(Units(f, S) \ Units(g, S))
    BY FiniteUnits, FS_Subset
  <1>5. Excess(f, g, S) \in Nat
    BY <1>4, FS_CardinalityType DEF Excess
  <1>6. Cardinality(Units(f, S)) <= Cardinality(Units(h, S))
                                 + Cardinality(Units(f, S) \ Units(g, S))
    BY <1>3, <1>4, FiniteUnits, Covered
  <1>. QED  BY <1>5, <1>6 DEF Amount, Excess

LEMMA UnitsOfOne ==
    ASSUME NEW a \in Amounts, NEW i \in Intents
    PROVE  Amount(a, {i}) = a[i]
  <1>. DEFINE f == [n \in 1..a[i] |-> <<i, n>>]
  <1>1. a[i] \in Nat /\ a[i] <= MaxSize /\ MaxSize \in Nat
    BY SafetyConstants DEF Amounts
  <1>2. f \in [1..a[i] -> Units(a, {i})]
    <2>. SUFFICES ASSUME NEW n \in 1..a[i]
                  PROVE  <<i, n>> \in Units(a, {i})
      OBVIOUS
    <2>1. n \in 1..MaxSize /\ n <= a[i]
      BY <1>1
    <2>. QED  BY <2>1 DEF Units
  <1>3. \A p \in Units(a, {i}) : \E n \in 1..a[i] : f[n] = p
    <2>. SUFFICES ASSUME NEW p \in Units(a, {i})
                  PROVE  \E n \in 1..a[i] : <<i, n>> = p
      OBVIOUS
    <2>1. p \in {i} \X (1..MaxSize) /\ p[2] <= a[p[1]]
      BY DEF Units
    <2>2. p = <<i, p[2]>> /\ p[1] = i /\ p[2] \in 1..MaxSize
      BY <2>1
    <2>3. p[2] \in 1..a[i]
      BY <1>1, <2>1, <2>2
    <2>. QED  BY <2>2, <2>3
  <1>4. f \in Surjection(1..a[i], Units(a, {i}))
    BY <1>2, <1>3 DEF Surjection
  <1>5. f \in Injection(1..a[i], Units(a, {i}))
    BY <1>2 DEF Injection, IsInjective
  <1>6. IsFiniteSet(1..a[i]) /\ Cardinality(1..a[i]) = a[i]
    <2>1. ASSUME NEW n \in Nat
          PROVE  IsFiniteSet(1..n) /\ Cardinality(1..n) = n
      BY <2>1, FS_Interval
    <2>. QED  BY <1>1, <2>1
  <1>. QED  BY <1>4, <1>5, <1>6, FS_Surjection DEF Amount

\* An amount over a set with one more intent.
LEMMA AmountAdds ==
    ASSUME NEW f \in Amounts, NEW S \in SUBSET Intents, NEW i \in Intents
    PROVE  /\ Amount(f, S \cup {i}) <= Amount(f, S) + f[i]
           /\ i \in S => Amount(f, S) = Amount(f, S \ {i}) + f[i]
  <1>1. ASSUME NEW T \in SUBSET Intents, i \notin T
        PROVE  Amount(f, T \cup {i}) = Amount(f, T) + f[i]
    <2>1. Units(f, T \cup {i}) = Units(f, T) \cup Units(f, {i})
      BY DEF Units
    <2>2. Units(f, T) \cap Units(f, {i}) = {}
      BY <1>1 DEF Units
    <2>3. IsFiniteSet(Units(f, T)) /\ IsFiniteSet(Units(f, {i}))
      BY SizedIntents, FiniteUnits
    <2>4. /\ Cardinality(Units(f, T)) \in Nat
          /\ Cardinality(Units(f, {i})) \in Nat /\ Cardinality({}) = 0
      BY <2>3, FS_CardinalityType, FS_EmptySet
    <2>5. Cardinality(Units(f, T) \cup Units(f, {i}))
            = Cardinality(Units(f, T)) + Cardinality(Units(f, {i}))
                - Cardinality(Units(f, T) \cap Units(f, {i}))
      BY <2>3, FS_Union
    <2>6. Cardinality(Units(f, T) \cup Units(f, {i}))
            = Cardinality(Units(f, T)) + Cardinality(Units(f, {i}))
      <3>1. Cardinality(Units(f, T) \cap Units(f, {i})) = 0
        BY <2>2, <2>4
      <3>. QED  BY <2>4, <2>5, <3>1
    <2>7. Amount(f, T \cup {i}) = Amount(f, T) + Amount(f, {i})
      BY <2>1, <2>6 DEF Amount
    <2>. QED  BY <2>7, UnitsOfOne
  <1>2. Amount(f, S) \in Nat /\ f[i] \in Nat
    BY SizedIntents, FiniteUnits, SafetyConstants DEF Amounts
  <1>3. CASE i \in S
    <2>1. S \cup {i} = S /\ S = (S \ {i}) \cup {i}
      BY <1>3
    <2>2. Amount(f, S) = Amount(f, S \ {i}) + f[i]
      BY <1>1, <2>1, S \ {i} \in SUBSET Intents, i \notin S \ {i}
    <2>3. Amount(f, S \cup {i}) = Amount(f, S)
      BY <2>1
    <2>4. Amount(f, S \cup {i}) <= Amount(f, S) + f[i]
      BY <1>2, <2>3
    <2>. QED  BY <1>3, <2>2, <2>4
  <1>4. CASE i \notin S
    <2>1. Amount(f, S \cup {i}) = Amount(f, S) + f[i]
      BY <1>1, <1>4
    <2>2. Amount(f, S \cup {i}) <= Amount(f, S) + f[i]
      BY <1>2, <2>1
    <2>. QED  BY <1>4, <2>2
  <1>. QED  BY <1>3, <1>4

\* An intent that moves from one set to another, where it counts no more,
\* raises no sum.
LEMMA Moves ==
    ASSUME NEW f \in Amounts, NEW g \in Amounts,
           NEW A \in SUBSET Intents, NEW B \in SUBSET Intents, NEW i \in A,
           NEW C \in SUBSET (A \ {i}), NEW D \in SUBSET (B \cup {i}),
           g[i] <= f[i]
    PROVE  /\ Amount(f, C) + Amount(g, D) <= Amount(f, A) + Amount(g, B)
           /\ Cardinality(C) + Cardinality(D)
                <= Cardinality(A) + Cardinality(B)
  <1>1. /\ i \in Intents /\ A \ {i} \in SUBSET Intents
        /\ B \cup {i} \in SUBSET Intents
        /\ C \in SUBSET Intents /\ D \in SUBSET Intents
    OBVIOUS
  <1>2. /\ Amount(f, A) \in Nat /\ Amount(g, B) \in Nat /\ Amount(f, C) \in Nat
        /\ Amount(g, D) \in Nat /\ Amount(f, A \ {i}) \in Nat
        /\ Amount(g, B \cup {i}) \in Nat /\ f[i] \in Nat /\ g[i] \in Nat
    <2>1. \A h \in Amounts, S \in SUBSET Intents : Amount(h, S) \in Nat
      BY SizedIntents, FiniteUnits
    <2>2. f[i] \in Nat /\ g[i] \in Nat
      BY <1>1, SafetyConstants DEF Amounts
    <2>. QED  BY <1>1, <2>1, <2>2
  <1>3. ASSUME NEW h \in Amounts, NEW T \in SUBSET Intents, NEW S \in SUBSET T
        PROVE  Amount(h, S) <= Amount(h, T)
    <2>1. Sized(h, T) /\ Sized(h, S)
      BY SizedIntents
    <2>2. \A j \in S : h[j] <= h[j]
      BY <2>1, SafetyConstants DEF Sized
    <2>. QED  BY <2>1, <2>2, AmountGrows
  <1>4. /\ Amount(f, C) <= Amount(f, A \ {i})
        /\ Amount(g, D) <= Amount(g, B \cup {i})
    BY <1>1, <1>3
  <1>5. /\ Amount(f, A) = Amount(f, A \ {i}) + f[i]
        /\ Amount(g, B \cup {i}) <= Amount(g, B) + g[i]
    BY <1>1, AmountAdds
  <1>6. /\ IsFiniteSet(A) /\ IsFiniteSet(B) /\ IsFiniteSet(A \ {i})
        /\ IsFiniteSet(B \cup {i})
        /\ Cardinality(A) \in Nat /\ Cardinality(B) \in Nat
        /\ Cardinality(C) \in Nat /\ Cardinality(D) \in Nat
        /\ Cardinality(A \ {i}) \in Nat /\ Cardinality(B \cup {i}) \in Nat
    BY <1>1, FiniteIntents
  <1>7. /\ Cardinality(C) <= Cardinality(A \ {i})
        /\ Cardinality(D) <= Cardinality(B \cup {i})
    BY <1>6, FS_Subset
  <1>8. Cardinality(A \ {i}) = Cardinality(A) - 1
    BY <1>6, FS_RemoveElement
  <1>9. Cardinality(B \cup {i}) <= Cardinality(B) + 1
    BY <1>6, FS_AddElement
  <1>10. Amount(f, C) + Amount(g, D) <= Amount(f, A) + Amount(g, B)
    BY <1>2, <1>4, <1>5
  <1>. QED  BY <1>6, <1>7, <1>8, <1>9, <1>10

\* A smaller set, a smaller sum.
LEMMA Shrinks ==
    ASSUME NEW f \in Amounts, NEW A \in SUBSET Intents, NEW C \in SUBSET A
    PROVE  Amount(f, C) <= Amount(f, A) /\ Cardinality(C) <= Cardinality(A)
  <1>1. Sized(f, A) /\ Sized(f, C)
    BY SizedIntents
  <1>2. \A j \in C : f[j] <= f[j]
    BY <1>1, SafetyConstants DEF Sized
  <1>. QED  BY <1>1, <1>2, AmountGrows, FiniteIntents, FS_Subset

\* A set of intents and its sums.
LEMMA Sums ==
    ASSUME NEW f \in Amounts, NEW A \in SUBSET Intents
    PROVE  Amount(f, A) \in Nat /\ Cardinality(A) \in Nat
  BY SizedIntents, FiniteUnits, FiniteIntents
----------------------------------------------------------------------------
(* The type of the state.                                                  *)

LaneStates == [step : Steps, intent : Intents \cup {NoIntent}]

LEMMA TypeInit == Init => TypeOK
  <1>. SUFFICES ASSUME Init PROVE TypeOK
    OBVIOUS
  <1>1. config \in [trading_enabled : BOOLEAN, exposure : Nat,
                    positions : Nat, canary : Canaries]
    BY SafetyConstants DEF Init, Bounds
  <1>2. lane \in [Lanes -> LaneStates]
    BY DEF Init, Idle, LaneStates, Steps
  <1>3. 0 \in 0..MaxChanges
    BY SafetyConstants
  <1>. QED  BY <1>1, <1>2, <1>3 DEF Init, TypeOK, LaneStates, UserStates

LEMMA TypeRuntimeStep ==
    ASSUME TypeOK, NEW l \in Lanes, NEW r \in RIntents, RuntimeStep(l, r)
    PROVE  TypeOK'
  <1>. r \in Intents
    BY DEF Intents
  <1>. USE DEF TypeOK, Goto, Leave, Idle, Steps
  <1>1. CASE DispatchCheck(l, r)
    BY <1>1 DEF DispatchCheck, Pass
  <1>2. CASE DispatchInsert(l, r)
    BY <1>2 DEF DispatchInsert
  <1>3. CASE WorkerCheck(l, r)
    <2>1. CASE Allowed(Booked[r], r, FALSE)
      BY <1>3, <2>1 DEF WorkerCheck, Pass
    <2>2. CASE ~Allowed(Booked[r], r, FALSE)
      BY <1>3, <2>2 DEF WorkerCheck, Finals
    <2>. QED  BY <2>1, <2>2
  <1>4. CASE WorkerPlace(l, r)
    BY <1>4 DEF WorkerPlace, Executed, Finals
  <1>. QED  BY <1>1, <1>2, <1>3, <1>4 DEF RuntimeStep

LEMMA TypeUserStep ==
    ASSUME TypeOK, NEW l \in Lanes, NEW u \in UIntents, UserStep(l, u)
    PROVE  TypeOK'
  <1>. u \in Intents /\ u \in Positions
    BY DEF Intents, Positions
  <1>. USE DEF TypeOK, Goto, Leave, Idle, Steps
  <1>1. CASE SubmitCheck(l, u)
    BY <1>1 DEF SubmitCheck, Pass
  <1>2. ASSUME NEW step, NEW status \in UserStates, NEW next \in Steps,
               Write(l, u, step, status, next)
        PROVE  /\ user' \in [UIntents -> UserStates]
               /\ lane' \in [Lanes -> [step : Steps,
                                       intent : Intents \cup {NoIntent}]]
               /\ UNCHANGED <<config, runtime, outcome, changes, raced,
                              lowered, requeued>>
    <2>1. CASE next = "idle"
      BY <1>2, <2>1 DEF Write
    <2>2. CASE next # "idle"
      BY <1>2, <2>2 DEF Write
    <2>. QED  BY <2>1, <2>2
  <1>3. CASE SubmitCommit(l, u)
    BY <1>2, <1>3 DEF SubmitCommit, UserStates
  <1>4. CASE Enqueue(l, u)
    BY <1>2, <1>4 DEF Enqueue, UserStates
  <1>5. CASE Approve(l, u)
    BY <1>2, <1>5 DEF Approve, UserStates
  <1>6. CASE Release(l, u)
    <2>1. /\ user' \in [UIntents -> UserStates]
          /\ lane' \in [Lanes -> [step : Steps,
                                  intent : Intents \cup {NoIntent}]]
          /\ UNCHANGED <<config, runtime, outcome, changes, raced, lowered,
                         requeued>>
      BY <1>2, <1>6 DEF Release, UserStates
    <2>2. leaked' \in Nat
      BY <1>6 DEF Release, Executed
    <2>3. position' \in [Positions -> {"none", "open", "closed"}]
      BY <1>6 DEF Release
    <2>. QED  BY <2>1, <2>2, <2>3
  <1>7. CASE ReleaseBreaksOff(l, u)
    BY <1>7 DEF ReleaseBreaksOff, Executed
  <1>. QED  BY <1>1, <1>3, <1>4, <1>5, <1>6, <1>7 DEF UserStep

\* What update_execution_safety_state may write.
LEMMA UpdateBounds ==
    ASSUME TypeOK, SetKillSwitch \/ ControlKill
    PROVE  \E enabled \in BOOLEAN, bounds \in Bounds \cup {Keep} :
             UpdateState(enabled, bounds)
  BY SafetyConstants DEF SetKillSwitch, ControlKill

\* What it wrote: limits no tighter than those that stood, unless it says so.
LEMMA Updated ==
    ASSUME TypeOK, NEW enabled \in BOOLEAN, NEW bounds \in Bounds \cup {Keep},
           UpdateState(enabled, bounds)
    PROVE  \E new \in Bounds :
             /\ config' = [config EXCEPT !.trading_enabled = enabled,
                                         !.exposure = new.exposure,
                                         !.positions = new.positions]
             /\ lowered' \in BOOLEAN
             /\ ~lowered' =>
                  /\ ~lowered
                  /\ ~Below(new.exposure, config.exposure)
                  /\ ~Below(new.positions, config.positions)
             /\ changes' \in 0..MaxChanges
             /\ leaked' = IF config.trading_enabled \/ enabled
                            THEN 0 ELSE leaked
             /\ UNCHANGED <<runtime, outcome, user, position, lane, raced,
                            requeued>>
  <1>. DEFINE new == IF bounds = Keep THEN LimitsOf(config) ELSE bounds
  <1>1. new \in Bounds
    BY DEF TypeOK, Bounds, LimitsOf
  <1>2. lowered' = (lowered \/ Tighter(new, LimitsOf(config)))
    BY DEF UpdateState
  <1>3. /\ LimitsOf(config).exposure = config.exposure
        /\ LimitsOf(config).positions = config.positions
    BY DEF LimitsOf
  <1>4. lowered' \in BOOLEAN
    BY <1>2
  <1>5. ~lowered' => /\ ~lowered
                     /\ ~Below(new.exposure, config.exposure)
                     /\ ~Below(new.positions, config.positions)
    BY <1>2, <1>3 DEF Tighter
  <1>6. changes' \in 0..MaxChanges
    BY SafetyConstants DEF UpdateState, TypeOK
  <1>7. /\ config' = [config EXCEPT !.trading_enabled = enabled,
                                    !.exposure = new.exposure,
                                    !.positions = new.positions]
        /\ leaked' = IF config.trading_enabled \/ enabled THEN 0 ELSE leaked
        /\ UNCHANGED <<runtime, outcome, user, position, lane, raced, requeued>>
    BY DEF UpdateState
  <1>. HIDE DEF new
  <1>. WITNESS new \in Bounds
  <1>. QED  BY <1>4, <1>5, <1>6, <1>7

LEMMA TypeNext == TypeOK /\ [Next]_vars => TypeOK'
  <1>. SUFFICES ASSUME TypeOK, [Next]_vars PROVE TypeOK'
    OBVIOUS
  <1>1. ASSUME NEW u \in UIntents, Cancel(u) PROVE TypeOK'
    BY <1>1 DEF Cancel, TypeOK, UserStates
  <1>2. ASSUME NEW p \in Positions, ClosePosition(p) PROVE TypeOK'
    BY <1>2 DEF ClosePosition, TypeOK
  <1>3. CASE SetKillSwitch \/ ControlKill
    <2>1. PICK enabled \in BOOLEAN, bounds \in Bounds \cup {Keep} :
            UpdateState(enabled, bounds)
      BY <1>3, UpdateBounds
    <2>2. PICK new \in Bounds :
            /\ config' = [config EXCEPT !.trading_enabled = enabled,
                                        !.exposure = new.exposure,
                                        !.positions = new.positions]
            /\ lowered' \in BOOLEAN
            /\ changes' \in 0..MaxChanges
            /\ leaked' = IF config.trading_enabled \/ enabled
                           THEN 0 ELSE leaked
            /\ UNCHANGED <<runtime, outcome, user, position, lane, raced,
                           requeued>>
      BY <2>1, Updated
    <2>. QED  BY <2>2 DEF TypeOK, Bounds
  <1>4. CASE UNCHANGED vars
    BY <1>4 DEF TypeOK, vars
  <1>5. ASSUME NEW u \in UIntents, Requeue(u) PROVE TypeOK'
    BY <1>5 DEF Requeue, TypeOK, UserStates
  <1>6. ASSUME NEW p \in Outside, UngatedStep(p) PROVE TypeOK'
    <2>1. p \in Positions
      BY DEF Positions
    <2>2. CASE OpenOutside(p)
      BY <2>1, <2>2 DEF OpenOutside, TypeOK
    <2>3. ASSUME NEW old \in Positions, Reverse(old, p)
          PROVE  TypeOK'
      BY <2>1, <2>3 DEF Reverse, TypeOK
    <2>. QED  BY <1>6, <2>2, <2>3 DEF UngatedStep
  <1>7. CASE EmergencyStop
    <2>1. /\ position' \in [Positions -> {"none", "open", "closed"}]
          /\ user' \in [UIntents -> UserStates]
      BY <1>7 DEF EmergencyStop, TypeOK, UserStates
    <2>. QED  BY <1>7, <2>1 DEF EmergencyStop, TypeOK
  <1>8. ASSUME NEW l \in Lanes, LaneFails(l) PROVE TypeOK'
    BY <1>8 DEF LaneFails, Leave, Idle, Steps, TypeOK
  <1>. QED
    BY <1>1, <1>2, <1>3, <1>4, <1>5, <1>6, <1>7, <1>8, TypeRuntimeStep,
       TypeUserStep DEF Next

\* Every variable of the gate and of the lanes keeps its type, for every
\* number of intents and lanes and for all limits.
THEOREM TypeCorrect == Spec => []TypeOK
  BY TypeInit, TypeNext, PTL DEF Spec
----------------------------------------------------------------------------
(* The lanes.                                                              *)

\* The intents a set of lane states holds at certain steps, and the lanes.
Held(f, S) == {i \in Intents :
                 \E l \in Lanes : f[l].intent = i /\ f[l].step \in S}
LanesAt(f, S) == {l \in Lanes : f[l].step \in S}

\* The gate let them through and no table counts them yet.
Counting == {"insert", "commit", "enqueue"}

\* The lane goes on until the position is open.
Releasing == {"commit", "enqueue", "approve", "release"}

\* The lane may still execute something.
Executing == Releasing \cup {"place"}

\* No two lanes work on the same intent.
Apart(f) == \A l, k \in Lanes :
    f[l].intent = f[k].intent /\ f[l].intent # NoIntent => l = k

\* A lane without an intent is idle.
IdleLanes(f) == \A l \in Lanes : f[l].intent = NoIntent <=> f[l].step = "idle"

LEMMA HeldType ==
    ASSUME NEW f, NEW S
    PROVE  Held(f, S) \in SUBSET Intents
  BY DEF Held

LEMMA LaneTyped ==
    ASSUME TypeOK
    PROVE  lane \in [Lanes -> LaneStates]
  BY DEF TypeOK, LaneStates

\* What the lanes hold after lane l has moved to e.
LEMMA HeldAfter ==
    ASSUME NEW f \in [Lanes -> LaneStates], NEW l \in Lanes,
           NEW e \in LaneStates, NEW g, g = [f EXCEPT ![l] = e], NEW S,
           Apart(f)
    PROVE  /\ Held(g, S) \subseteq (Held(f, S) \ {f[l].intent}) \cup {e.intent}
           /\ e.step \notin S =>
                Held(g, S) \subseteq Held(f, S) \ {f[l].intent}
           /\ e.step \in S /\ f[l].step \in S /\ e.intent = f[l].intent =>
                Held(g, S) \subseteq Held(f, S)
           /\ f[l].step \notin S /\ e.step \notin S =>
                Held(g, S) \subseteq Held(f, S)
  <1>1. \A k \in Lanes : g[k] = IF k = l THEN e ELSE f[k]
    OBVIOUS
  <1>2. NoIntent \notin Intents
    BY SafetyConstants
  <1>3. ASSUME NEW i \in Held(g, S)
        PROVE  \/ i = e.intent /\ e.step \in S
               \/ i \in Held(f, S) /\ i # f[l].intent
    <2>1. PICK k \in Lanes : g[k].intent = i /\ g[k].step \in S
      BY <1>3 DEF Held
    <2>2. i \in Intents
      BY <1>3 DEF Held
    <2>3. CASE k = l
      BY <1>1, <2>1, <2>3
    <2>4. CASE k # l
      <3>1. f[k].intent = i /\ f[k].step \in S
        BY <1>1, <2>1, <2>4
      <3>2. i # f[l].intent
        BY <1>2, <2>2, <2>4, <3>1 DEF Apart
      <3>. QED  BY <2>2, <3>1, <3>2 DEF Held
    <2>. QED  BY <2>3, <2>4
  <1>4. ASSUME e.step \in S, f[l].step \in S, e.intent = f[l].intent,
               NEW i \in Held(g, S)
        PROVE  i \in Held(f, S)
    <2>1. i \in Intents
      BY <1>4 DEF Held
    <2>2. CASE i = e.intent
      BY <1>4, <2>1, <2>2 DEF Held
    <2>3. CASE i # e.intent
      BY <1>3, <1>4, <2>3
    <2>. QED  BY <2>2, <2>3
  <1>. QED  BY <1>3, <1>4
----------------------------------------------------------------------------
(* The inductive invariant.                                                *)

\* What of the tables was asked about.
AskedOpen == OpenPositions \ Ungated
AskedCanary == CanaryOpen \ Ungated

AskedExposure == Amount(Kept, AskedOpen) + Amount(Claim, AskedRows)
                   + Amount(Claim, PendingRuntime)
AskedPositions == Cardinality(AskedOpen) + Cardinality(AskedRows)
                    + Cardinality(PendingRuntime)

\* That, and what was let through and is not counted yet.
Load == AskedExposure + Amount(Claim, Held(lane, Counting))
Entries == AskedPositions + Cardinality(Held(lane, Counting))

\* The same for open canary positions.
CanaryLoad == Amount(Kept, AskedCanary) + Amount(Kept, Held(lane, Releasing))
CanaryEntries == Cardinality(AskedCanary)
                   + Cardinality(Held(lane, Releasing))

\* An intent that is not submitted yet, or is under way, has no position.
UnderWay(u) == user[u] = "PREVIEWED" \/ \E l \in Lanes : lane[l].intent = u
Fresh == \A u \in UIntents : UnderWay(u) => position[u] = "none"

\* As long as no lane was let through while another was at work, one lane is
\* at work.
OneAtWork == raced \/ \A l, k \in Lanes :
    lane[l].step # "idle" /\ lane[k].step # "idle" => l = k

\* What one lane was let through with is within the limits that stand.
LoadWithin == raced \/ lowered \/
    /\ config.exposure > 0 => Load <= config.exposure
    /\ config.positions > 0 => Entries <= config.positions

CanaryWithin == raced \/ (Canary.enabled =>
    /\ CanaryEntries <= Canary.positions
    /\ Canary.capital > 0 => CanaryLoad * CapitalPct <= Canary.capital * 100)

\* What several lanes were let through with overshoots by one intent for
\* every other lane.
LoadBounded == lowered \/ (config.exposure > 0 =>
    Load <= config.exposure + (Cardinality(Lanes) - 1) * MaxSize)

\* While trading is off, what was executed and what still may be is the work
\* of one lane each.
Drains ==
    /\ config.trading_enabled => leaked = 0
    /\ ~config.trading_enabled =>
         leaked + Cardinality(LanesAt(lane, Executing)) <= Cardinality(Lanes)

LaneInv == Apart(lane) /\ IdleLanes(lane) /\ OneAtWork

SafetyInv == /\ TypeOK /\ LaneInv /\ Fresh /\ LoadWithin /\ CanaryWithin
             /\ LoadBounded /\ Drains

LEMMA CountedTypes ==
    /\ AskedOpen \in SUBSET Intents /\ AskedRows \in SUBSET Intents
    /\ PendingRuntime \in SUBSET Intents /\ AskedCanary \in SUBSET Intents
    /\ AskedOpen \in SUBSET UIntents /\ AskedCanary \in SUBSET AskedOpen
  BY DEF AskedOpen, AskedRows, PendingRuntime, AskedCanary, OpenPositions,
         PendingUser, CanaryOpen, Intents, Positions, Ungated

LEMMA PositionsTyped ==
    /\ IsFiniteSet(Positions) /\ Sized(Worth, OpenPositions)
    /\ Sized(Worth, CanaryOpen) /\ CanaryOpen \in SUBSET OpenPositions
    /\ Sized(Booked, PendingUser) /\ Sized(Booked, PendingRuntime)
  <1>1. IsFiniteSet(UIntents)
    BY SafetyConstants, FS_Subset DEF Intents
  <1>2. IsFiniteSet(Positions)
    BY <1>1, SafetyConstants, FS_Union DEF Positions
  <1>3. /\ OpenPositions \in SUBSET Positions
        /\ CanaryOpen \in SUBSET OpenPositions
    BY DEF OpenPositions, CanaryOpen
  <1>4. IsFiniteSet(OpenPositions) /\ IsFiniteSet(CanaryOpen)
    BY <1>2, <1>3, FS_Subset
  <1>5. \A p \in Positions : Worth[p] \in 0..MaxSize
    BY SafetyConstants
  <1>6. PendingUser \in SUBSET Intents /\ PendingRuntime \in SUBSET Intents
    BY DEF PendingUser, PendingRuntime, Intents
  <1>7. Booked \in Amounts
    BY SafetyConstants DEF Amounts
  <1>. QED  BY <1>2, <1>3, <1>4, <1>5, <1>6, <1>7, SizedIntents DEF Sized

LoadTyped ==
    /\ Load \in Nat /\ Entries \in Nat /\ CanaryLoad \in Nat
    /\ CanaryEntries \in Nat
    /\ AskedExposure \in Nat /\ AskedPositions \in Nat
    /\ Amount(Kept, AskedCanary) \in Nat /\ Cardinality(AskedCanary) \in Nat
    /\ AskedExposure <= Load /\ AskedPositions <= Entries
    /\ Amount(Kept, AskedCanary) <= CanaryLoad
    /\ Cardinality(AskedCanary) <= CanaryEntries

LEMMA LoadTypes == LoadTyped
  <1>1. /\ Held(lane, Counting) \in SUBSET Intents
        /\ Held(lane, Releasing) \in SUBSET Intents
    BY HeldType
  <1>2. /\ Amount(Kept, AskedOpen) \in Nat /\ Amount(Claim, AskedRows) \in Nat
        /\ Amount(Claim, PendingRuntime) \in Nat
        /\ Amount(Kept, AskedCanary) \in Nat
        /\ Cardinality(AskedOpen) \in Nat /\ Cardinality(AskedRows) \in Nat
        /\ Cardinality(PendingRuntime) \in Nat
        /\ Cardinality(AskedCanary) \in Nat
    BY CountedTypes, ClaimTypes, Sums
  <1>3. /\ Amount(Claim, Held(lane, Counting)) \in Nat
        /\ Cardinality(Held(lane, Counting)) \in Nat
        /\ Amount(Kept, Held(lane, Releasing)) \in Nat
        /\ Cardinality(Held(lane, Releasing)) \in Nat
    BY <1>1, ClaimTypes, Sums
  <1>. QED
    BY <1>2, <1>3 DEF Load, Entries, CanaryLoad, CanaryEntries, AskedExposure,
                      AskedPositions, LoadTyped

\* What the gate measures is no less than what was asked about.
Measured ==
    /\ Exposure \in Nat /\ ActivePositions \in Nat
    /\ Amount(Worth, CanaryOpen) \in Nat /\ Cardinality(CanaryOpen) \in Nat
    /\ AskedExposure <= Exposure /\ AskedPositions <= ActivePositions
    /\ Amount(Kept, AskedCanary) <= Amount(Worth, CanaryOpen)
    /\ Cardinality(AskedCanary) <= Cardinality(CanaryOpen)

LEMMA MeasuredMore == Measured
  <1>1. /\ Sized(Worth, OpenPositions) /\ Sized(Worth, CanaryOpen)
        /\ Sized(Booked, PendingUser) /\ Sized(Booked, PendingRuntime)
    BY PositionsTyped
  <1>2. /\ Sized(Kept, AskedOpen) /\ Sized(Kept, AskedCanary)
        /\ Sized(Claim, AskedRows) /\ Sized(Claim, PendingRuntime)
    BY CountedTypes, ClaimTypes, SizedIntents
  <1>3. /\ AskedOpen \in SUBSET OpenPositions /\ AskedCanary \in SUBSET CanaryOpen
        /\ AskedRows \in SUBSET PendingUser
    BY DEF AskedOpen, AskedCanary, AskedRows
  <1>4. /\ \A u \in AskedOpen : Kept[u] <= Worth[u]
        /\ \A u \in AskedCanary : Kept[u] <= Worth[u]
        /\ \A u \in AskedRows : Claim[u] <= Booked[u]
        /\ \A r \in PendingRuntime : Claim[r] <= Booked[r]
    BY ClaimTypes, CountedTypes
  <1>5. Amount(Kept, AskedOpen) <= Amount(Worth, OpenPositions)
    BY <1>1, <1>2, <1>3, <1>4, AmountGrows
  <1>6. Amount(Kept, AskedCanary) <= Amount(Worth, CanaryOpen)
    BY <1>1, <1>2, <1>3, <1>4, AmountGrows
  <1>7. Amount(Claim, AskedRows) <= Amount(Booked, PendingUser)
    BY <1>1, <1>2, <1>3, <1>4, AmountGrows
  <1>8. Amount(Claim, PendingRuntime) <= Amount(Booked, PendingRuntime)
    BY <1>1, <1>2, <1>4, AmountGrows
  <1>9. /\ Amount(Worth, OpenPositions) \in Nat /\ Amount(Worth, CanaryOpen) \in Nat
        /\ Amount(Booked, PendingUser) \in Nat
        /\ Amount(Booked, PendingRuntime) \in Nat
        /\ Amount(Kept, AskedOpen) \in Nat /\ Amount(Claim, AskedRows) \in Nat
        /\ Amount(Claim, PendingRuntime) \in Nat
    BY <1>1, <1>2, FiniteUnits
  <1>10. /\ Cardinality(OpenPositions) \in Nat /\ Cardinality(PendingUser) \in Nat
         /\ Cardinality(PendingRuntime) \in Nat
         /\ Cardinality(CanaryOpen) \in Nat
         /\ Cardinality(AskedOpen) \in Nat /\ Cardinality(AskedRows) \in Nat
         /\ Cardinality(AskedOpen) <= Cardinality(OpenPositions)
         /\ Cardinality(AskedCanary) <= Cardinality(CanaryOpen)
         /\ Cardinality(AskedRows) <= Cardinality(PendingUser)
    BY <1>1, <1>2, <1>3, FS_Subset, FS_CardinalityType DEF Sized
  <1>. QED
    BY <1>5, <1>6, <1>7, <1>8, <1>9, <1>10
       DEF Measured, AskedExposure, AskedPositions, Exposure, ActivePositions

\* No lane holds anything at the start.
LEMMA SafetyInit == Init => SafetyInv
  <1>. SUFFICES ASSUME Init PROVE SafetyInv
    OBVIOUS
  <1>1. TypeOK
    BY TypeInit
  <1>2. \A l \in Lanes : lane[l].step = "idle" /\ lane[l].intent = NoIntent
    BY DEF Init, Idle
  <1>3. LaneInv
    BY <1>2 DEF LaneInv, Apart, IdleLanes, OneAtWork
  <1>4. \A S \in {Counting, Releasing, Executing} :
          Held(lane, S) = {} /\ LanesAt(lane, S) = {}
    BY <1>2 DEF Held, LanesAt, Counting, Releasing, Executing
  <1>5. /\ AskedOpen = {} /\ AskedRows = {} /\ PendingRuntime = {}
        /\ AskedCanary = {}
    BY DEF Init, OpenPositions, PendingUser, PendingRuntime, CanaryOpen,
           AskedOpen, AskedRows, AskedCanary
  <1>6. /\ Amount(Claim, {}) = 0 /\ Amount(Kept, {}) = 0
        /\ Cardinality({}) = 0
    <2>1. Units(Claim, {}) = {} /\ Units(Kept, {}) = {}
      BY DEF Units
    <2>. QED  BY <2>1, FS_EmptySet DEF Amount
  <1>7. Load = 0 /\ Entries = 0 /\ CanaryLoad = 0 /\ CanaryEntries = 0
    BY <1>4, <1>5, <1>6 DEF Load, Entries, CanaryLoad, CanaryEntries,
                            AskedExposure, AskedPositions
  <1>8. /\ config.exposure \in Nat /\ config.positions \in Nat
        /\ config.canary \in Canaries
    BY <1>1 DEF TypeOK
  <1>9. LoadWithin
    BY <1>7, <1>8 DEF LoadWithin
  <1>10. CapitalPct \in Nat /\ Canary.positions \in Nat /\ Canary.capital \in Nat
    BY <1>8, SafetyConstants DEF Canary
  <1>11. CanaryWithin
    BY <1>7, <1>10 DEF CanaryWithin
  <1>12. Cardinality(Lanes) \in Nat /\ Cardinality(Lanes) - 1 \in Nat
    <2>1. IsFiniteSet(Lanes) /\ Lanes # {}
      BY SafetyConstants
    <2>2. Cardinality(Lanes) # 0
      BY <2>1, FS_EmptySet
    <2>. QED  BY <2>1, <2>2, FS_CardinalityType
  <1>13. (Cardinality(Lanes) - 1) * MaxSize \in Nat
    BY <1>12, SafetyConstants, ProductGrows
  <1>14. LoadBounded
    BY <1>7, <1>8, <1>13 DEF LoadBounded
  <1>15. Drains
    <2>1. leaked = 0 /\ ~config.trading_enabled
      BY DEF Init
    <2>2. Cardinality(LanesAt(lane, Executing)) = 0
      BY <1>4, <1>6
    <2>. QED  BY <1>12, <2>1, <2>2 DEF Drains
  <1>16. Fresh
    BY DEF Init, Fresh, Positions
  <1>. QED  BY <1>1, <1>3, <1>9, <1>11, <1>14, <1>15, <1>16 DEF SafetyInv
----------------------------------------------------------------------------
(* What a step does to the parts of the invariant.                         *)

\* A step after which no more is counted or under way keeps the bounds.
LEMMA NoMoreLoad ==
    ASSUME SafetyInv, UNCHANGED <<config, raced, lowered>>,
           Load' <= Load, Entries' <= Entries,
           CanaryLoad' <= CanaryLoad, CanaryEntries' <= CanaryEntries
    PROVE  LoadWithin' /\ CanaryWithin' /\ LoadBounded'
  <1>1. /\ Load \in Nat /\ Entries \in Nat /\ CanaryLoad \in Nat
        /\ CanaryEntries \in Nat
    BY LoadTypes DEF LoadTyped
  <1>2. /\ Load' \in Nat /\ Entries' \in Nat /\ CanaryLoad' \in Nat
        /\ CanaryEntries' \in Nat
    <2>1. LoadTyped'
      BY LoadTypes, PTL
    <2>. QED  BY <2>1 DEF LoadTyped
  <1>3. /\ config.exposure \in Nat /\ config.positions \in Nat
        /\ Canary \in Canaries
    BY DEF SafetyInv, TypeOK, Canary
  <1>4. Canary.positions \in Nat /\ Canary.capital \in Nat /\ CapitalPct \in Nat
    BY <1>3, SafetyConstants
  <1>5. Canary' = Canary
    BY DEF Canary
  <1>6. LoadWithin'
    BY <1>1, <1>2, <1>3 DEF SafetyInv, LoadWithin
  <1>7. CanaryLoad' * CapitalPct <= CanaryLoad * CapitalPct
        /\ CanaryLoad' * CapitalPct \in Nat /\ CanaryLoad * CapitalPct \in Nat
    BY <1>1, <1>2, <1>4, ProductGrows
  <1>8. CanaryWithin'
    BY <1>1, <1>2, <1>4, <1>5, <1>7 DEF SafetyInv, CanaryWithin
  <1>9. (Cardinality(Lanes) - 1) * MaxSize \in Int
    <2>1. Cardinality(Lanes) \in Nat /\ MaxSize \in Nat
      BY SafetyConstants, FS_CardinalityType
    <2>. QED  BY <2>1
  <1>10. LoadBounded'
    BY <1>1, <1>2, <1>3, <1>9 DEF SafetyInv, LoadBounded
  <1>. QED  BY <1>6, <1>8, <1>10

\* A lane that goes idle.
LEMMA LaneLeaves ==
    ASSUME SafetyInv, NEW l \in Lanes, Leave(l)
    PROVE  /\ LaneInv'
           /\ \A S : "idle" \notin S =>
                Held(lane', S) \subseteq Held(lane, S) \ {lane[l].intent}
           /\ LanesAt(lane', Executing)
                \subseteq LanesAt(lane, Executing) \ {l}
           /\ \A k \in Lanes : lane'[k].intent # NoIntent =>
                k # l /\ lane'[k].intent = lane[k].intent
  <1>1. lane \in [Lanes -> LaneStates] /\ Apart(lane)
    BY LaneTyped DEF SafetyInv, LaneInv
  <1>2. PICK e \in LaneStates : /\ e = Idle
                                /\ e.step = "idle" /\ e.intent = NoIntent
    <2>1. Idle \in LaneStates /\ Idle.step = "idle" /\ Idle.intent = NoIntent
      BY DEF Idle, LaneStates, Steps
    <2>. QED  BY <2>1
  <1>3. lane' = [lane EXCEPT ![l] = e] /\ raced' = raced
    BY <1>2 DEF Leave
  <1>4. \A k \in Lanes : lane'[k] = IF k = l THEN e ELSE lane[k]
    BY <1>1, <1>3
  <1>5. ASSUME NEW S, "idle" \notin S
        PROVE  Held(lane', S) \subseteq Held(lane, S) \ {lane[l].intent}
    <2>1. e.step \notin S =>
            Held(lane', S) \subseteq Held(lane, S) \ {lane[l].intent}
      BY <1>1, <1>3, HeldAfter
    <2>. QED  BY <1>2, <1>5, <2>1
  <1>6. LanesAt(lane', Executing) \subseteq LanesAt(lane, Executing) \ {l}
    BY <1>2, <1>4 DEF LanesAt, Executing, Releasing
  <1>7. Apart(lane') /\ IdleLanes(lane')
    BY <1>2, <1>4 DEF SafetyInv, LaneInv, Apart, IdleLanes
  <1>8. OneAtWork'
    BY <1>2, <1>3, <1>4 DEF SafetyInv, LaneInv, OneAtWork
  <1>9. LaneInv'
    BY <1>7, <1>8 DEF LaneInv
  <1>10. \A k \in Lanes : lane'[k].intent # NoIntent =>
           k # l /\ lane'[k].intent = lane[k].intent
    BY <1>2, <1>4
  <1>. QED  BY <1>5, <1>6, <1>9, <1>10

\* A lane that goes on with its intent.
LEMMA LaneGoesOn ==
    ASSUME SafetyInv, NEW l \in Lanes, NEW i \in Intents,
           NEW step \in Steps \ {"idle"}, lane[l].intent = i,
           Goto(l, step, i), raced' = raced
    PROVE  /\ LaneInv'
           /\ \A S : step \notin S =>
                Held(lane', S) \subseteq Held(lane, S) \ {i}
           /\ \A S : step \in S /\ lane[l].step \in S =>
                Held(lane', S) \subseteq Held(lane, S)
           /\ \A S : lane[l].step \in S =>
                LanesAt(lane', S) \subseteq LanesAt(lane, S)
           /\ \A k \in Lanes : lane'[k].intent = lane[k].intent
  <1>. DEFINE e == [step |-> step, intent |-> i]
  <1>1. lane \in [Lanes -> LaneStates] /\ Apart(lane)
    BY LaneTyped DEF SafetyInv, LaneInv
  <1>2. e \in LaneStates /\ e.step = step /\ e.intent = i
    BY DEF LaneStates
  <1>3. lane' = [lane EXCEPT ![l] = e] /\ raced' = raced
    BY DEF Goto
  <1>. HIDE DEF e
  <1>4. \A k \in Lanes : lane'[k] = IF k = l THEN e ELSE lane[k]
    BY <1>1, <1>3
  <1>5. ASSUME NEW S, step \notin S
        PROVE  Held(lane', S) \subseteq Held(lane, S) \ {i}
    BY <1>1, <1>2, <1>3, <1>5, HeldAfter
  <1>6. ASSUME NEW S, step \in S, lane[l].step \in S
        PROVE  Held(lane', S) \subseteq Held(lane, S)
    <2>1. e.step \in S /\ lane[l].step \in S /\ e.intent = lane[l].intent =>
            Held(lane', S) \subseteq Held(lane, S)
      BY <1>1, <1>2, <1>3, HeldAfter
    <2>. QED  BY <1>2, <1>6, <2>1
  <1>7. ASSUME NEW S, lane[l].step \in S
        PROVE  LanesAt(lane', S) \subseteq LanesAt(lane, S)
    BY <1>4, <1>7 DEF LanesAt
  <1>8. lane[l].step # "idle" /\ i # NoIntent
    BY SafetyConstants DEF SafetyInv, LaneInv, IdleLanes
  <1>9. Apart(lane') /\ IdleLanes(lane')
    BY <1>2, <1>4, <1>8 DEF SafetyInv, LaneInv, Apart, IdleLanes
  <1>10. OneAtWork'
    BY <1>2, <1>3, <1>4, <1>8 DEF SafetyInv, LaneInv, OneAtWork
  <1>11. LaneInv'
    BY <1>9, <1>10 DEF LaneInv
  <1>12. \A k \in Lanes : lane'[k].intent = lane[k].intent
    BY <1>2, <1>4
  <1>. QED  BY <1>5, <1>6, <1>7, <1>11, <1>12

\* Nothing new is executed and no lane joins those that may execute.
LEMMA DrainsOn ==
    ASSUME SafetyInv, UNCHANGED <<config, leaked>>,
           LanesAt(lane', Executing) \subseteq LanesAt(lane, Executing)
    PROVE  Drains'
  <1>1. IsFiniteSet(LanesAt(lane, Executing)) /\ IsFiniteSet(Lanes)
    BY SafetyConstants, FS_Subset DEF LanesAt
  <1>2. /\ Cardinality(LanesAt(lane', Executing))
             <= Cardinality(LanesAt(lane, Executing))
        /\ Cardinality(LanesAt(lane', Executing)) \in Nat
        /\ Cardinality(LanesAt(lane, Executing)) \in Nat
        /\ Cardinality(Lanes) \in Nat
    BY <1>1, FS_Subset, FS_CardinalityType
  <1>3. leaked \in Nat
    BY DEF SafetyInv, TypeOK
  <1>. QED  BY <1>2, <1>3 DEF SafetyInv, Drains

\* A lane executes its intent and stops.
LEMMA DrainsByOne ==
    ASSUME SafetyInv, Executed, UNCHANGED config, NEW l \in Lanes,
           lane[l].step \in Executing,
           LanesAt(lane', Executing) \subseteq LanesAt(lane, Executing) \ {l}
    PROVE  Drains'
  <1>1. IsFiniteSet(LanesAt(lane, Executing)) /\ IsFiniteSet(Lanes)
    BY SafetyConstants, FS_Subset DEF LanesAt
  <1>2. l \in LanesAt(lane, Executing)
    BY DEF LanesAt
  <1>3. /\ IsFiniteSet(LanesAt(lane, Executing) \ {l})
        /\ Cardinality(LanesAt(lane, Executing) \ {l})
             = Cardinality(LanesAt(lane, Executing)) - 1
    BY <1>1, <1>2, FS_RemoveElement
  <1>4. /\ Cardinality(LanesAt(lane', Executing))
             <= Cardinality(LanesAt(lane, Executing) \ {l})
        /\ Cardinality(LanesAt(lane', Executing)) \in Nat
        /\ Cardinality(LanesAt(lane, Executing)) \in Nat
        /\ Cardinality(Lanes) \in Nat
    BY <1>1, <1>3, FS_Subset, FS_CardinalityType
  <1>5. leaked \in Nat
    BY DEF SafetyInv, TypeOK
  <1>6. CASE config.trading_enabled
    BY <1>6 DEF Executed, Drains
  <1>7. CASE ~config.trading_enabled
    BY <1>3, <1>4, <1>5, <1>7 DEF Executed, SafetyInv, Drains
  <1>. QED  BY <1>6, <1>7
----------------------------------------------------------------------------
(* The gate lets a lane through.                                           *)

\* Idle lanes hold nothing, and a lane holds one intent.
LEMMA HeldByOthers ==
    ASSUME SafetyInv, NEW l \in Lanes, lane[l] = Idle
    PROVE  /\ Amount(Claim, Held(lane, Counting))
                <= (Cardinality(Lanes) - 1) * MaxSize
           /\ (Cardinality(Lanes) - 1) * MaxSize \in Nat
  <1>. DEFINE H == Held(lane, Counting)
              K == {k \in Lanes \ {l} : lane[k].intent \in H}
              f == [k \in K |-> lane[k].intent]
  <1>1. H \in SUBSET Intents /\ IsFiniteSet(H) /\ Cardinality(H) \in Nat
    BY HeldType, FiniteIntents
  <1>2. f \in Surjection(K, H)
    <2>1. f \in [K -> H]
      OBVIOUS
    <2>2. ASSUME NEW i \in H
          PROVE  \E k \in K : f[k] = i
      <3>1. PICK k \in Lanes : lane[k].intent = i /\ lane[k].step \in Counting
        BY <2>2 DEF Held
      <3>2. k # l
        BY <3>1 DEF Idle, Counting
      <3>. QED  BY <2>2, <3>1, <3>2
    <2>. QED  BY <2>1, <2>2 DEF Surjection
  <1>3. IsFiniteSet(Lanes) /\ Cardinality(Lanes) \in Nat /\ MaxSize \in Nat
    BY SafetyConstants, FS_CardinalityType
  <1>4. /\ IsFiniteSet(Lanes \ {l})
        /\ Cardinality(Lanes \ {l}) = Cardinality(Lanes) - 1
        /\ Cardinality(Lanes \ {l}) \in Nat
    BY <1>3, FS_RemoveElement, FS_CardinalityType
  <1>5. /\ IsFiniteSet(K) /\ Cardinality(K) \in Nat
        /\ Cardinality(K) <= Cardinality(Lanes \ {l})
    BY <1>4, FS_Subset, FS_CardinalityType
  <1>. HIDE DEF f, K, H
  <1>6. Cardinality(H) <= Cardinality(K)
    BY <1>2, <1>5, FS_Surjection
  <1>7. Amount(Claim, H) <= Cardinality(H) * MaxSize /\ Amount(Claim, H) \in Nat
    BY <1>1, ClaimTypes, SizedIntents, FiniteUnits
  <1>8. Cardinality(H) <= Cardinality(Lanes) - 1 /\ Cardinality(Lanes) - 1 \in Nat
    BY <1>1, <1>3, <1>4, <1>5, <1>6
  <1>9. /\ Cardinality(H) * MaxSize <= (Cardinality(Lanes) - 1) * MaxSize
        /\ Cardinality(H) * MaxSize \in Nat
        /\ (Cardinality(Lanes) - 1) * MaxSize \in Nat
    BY <1>1, <1>3, <1>8, ProductGrows
  <1>10. Amount(Claim, H) <= (Cardinality(Lanes) - 1) * MaxSize
    BY <1>7, <1>9
  <1>. QED  BY <1>9, <1>10 DEF H

\* The lanes after one was let through.
LEMMA LanePasses ==
    ASSUME SafetyInv, NEW l \in Lanes, NEW i \in Intents,
           NEW step \in Steps \ {"idle"}, lane[l] = Idle, Unhandled(i),
           Pass(l, step, i)
    PROVE  /\ LaneInv'
           /\ \A S : Held(lane', S) \subseteq Held(lane, S) \cup {i}
           /\ ~raced' => ~raced /\ \A S : "idle" \notin S =>
                                       Held(lane', S) \subseteq {i}
           /\ raced' \in BOOLEAN
           /\ \A k \in Lanes : lane'[k].intent \in {i, lane[k].intent}
  <1>. DEFINE e == [step |-> step, intent |-> i]
  <1>1. lane \in [Lanes -> LaneStates] /\ Apart(lane)
    BY LaneTyped DEF SafetyInv, LaneInv
  <1>2. e \in LaneStates /\ e.step = step /\ e.intent = i
    BY DEF LaneStates
  <1>3. lane' = [lane EXCEPT ![l] = e]
    BY DEF Pass, Goto
  <1>4. raced' = (raced \/ \E k \in Lanes : lane[k] # Idle)
    BY DEF Pass
  <1>. HIDE DEF e
  <1>5. \A k \in Lanes : lane'[k] = IF k = l THEN e ELSE lane[k]
    BY <1>1, <1>3
  <1>6. i # NoIntent /\ \A k \in Lanes : lane[k].intent # i
    BY SafetyConstants DEF Unhandled
  <1>7. Apart(lane') /\ IdleLanes(lane')
    BY <1>2, <1>5, <1>6 DEF SafetyInv, LaneInv, Apart, IdleLanes
  <1>8. ASSUME ~raced'
        PROVE  ~raced /\ \A k \in Lanes : lane[k] = Idle
    BY <1>4, <1>8
  <1>9. OneAtWork'
    <2>1. CASE raced'
      BY <2>1 DEF OneAtWork
    <2>2. CASE ~raced'
      <3>1. \A k \in Lanes : lane[k].step = "idle"
        BY <1>8, <2>2 DEF Idle
      <3>. QED  BY <1>5, <3>1 DEF OneAtWork
    <2>. QED  BY <2>1, <2>2
  <1>10. LaneInv'
    BY <1>7, <1>9 DEF LaneInv
  <1>11. ASSUME NEW S
         PROVE  Held(lane', S) \subseteq Held(lane, S) \cup {i}
    BY <1>2, <1>5 DEF Held
  <1>12. ASSUME ~raced', NEW S, "idle" \notin S
         PROVE  Held(lane', S) \subseteq {i}
    <2>1. \A k \in Lanes : lane[k].step = "idle"
      BY <1>8, <1>12 DEF Idle
    <2>. QED  BY <1>2, <1>5, <1>12, <2>1 DEF Held
  <1>13. raced' \in BOOLEAN
    BY <1>4
  <1>14. \A k \in Lanes : lane'[k].intent \in {i, lane[k].intent}
    BY <1>2, <1>5
  <1>. QED  BY <1>8, <1>10, <1>11, <1>12, <1>13, <1>14

\* The bounds after a lane was let through with an allowed amount, no less
\* than what counts of it.
LEMMA GatePasses ==
    ASSUME SafetyInv, NEW l \in Lanes, NEW i \in Intents, NEW amount \in Nat,
           NEW step \in Steps \ {"idle"}, NEW named \in BOOLEAN,
           lane[l] = Idle, Unhandled(i), Claim[i] <= amount,
           Allowed(amount, i, named), Pass(l, step, i),
           i \in UIntents => user[i] = "PREVIEWED",
           UNCHANGED <<config, runtime, outcome, user, position, changes,
                       leaked, lowered, requeued>>
    PROVE  /\ LaneInv' /\ LoadWithin' /\ CanaryWithin' /\ LoadBounded'
           /\ Drains' /\ Fresh'
  <1>. DEFINE H == Held(lane, Counting)
              H1 == Held(lane', Counting)
              R1 == Held(lane', Releasing)
              X == (Cardinality(Lanes) - 1) * MaxSize
  <1>1. /\ LaneInv'
        /\ H1 \subseteq H \cup {i}
        /\ ~raced' => ~raced /\ H1 \subseteq {i} /\ R1 \subseteq {i}
        /\ \A k \in Lanes : lane'[k].intent \in {i, lane[k].intent}
    BY LanePasses DEF Counting, Releasing
  <1>2. /\ H \in SUBSET Intents /\ H1 \in SUBSET Intents
        /\ R1 \in SUBSET Intents /\ H \cup {i} \in SUBSET Intents
        /\ {i} \in SUBSET Intents
    BY HeldType
  <1>. HIDE DEF H, H1, R1, X
  <1>3. /\ Amount(Claim, H) \in Nat /\ Amount(Claim, H1) \in Nat
        /\ Amount(Kept, R1) \in Nat /\ Amount(Claim, H \cup {i}) \in Nat
        /\ Cardinality(H1) \in Nat /\ Cardinality(R1) \in Nat
    BY <1>2, Sums, ClaimTypes
  <1>4. /\ Claim[i] \in Nat /\ Kept[i] \in Nat /\ Kept[i] <= Claim[i]
        /\ Claim[i] <= MaxSize /\ MaxSize \in Nat
    BY ClaimTypes, SafetyConstants DEF Amounts
  <1>5. Amount(Claim, H1) <= Amount(Claim, H) + amount
    <2>1. Amount(Claim, H1) <= Amount(Claim, H \cup {i})
      BY <1>1, <1>2, ClaimTypes, Shrinks
    <2>2. Amount(Claim, H \cup {i}) <= Amount(Claim, H) + Claim[i]
      BY <1>2, ClaimTypes, AmountAdds
    <2>. QED  BY <1>3, <1>4, <2>1, <2>2
  <1>6. Amount(Claim, H) <= X /\ X \in Nat
    BY HeldByOthers DEF H, X
  <1>7. ASSUME ~raced'
        PROVE  /\ Amount(Claim, H1) <= amount /\ Amount(Kept, R1) <= amount
               /\ Cardinality(H1) <= 1 /\ Cardinality(R1) <= 1
    <2>1. H1 \in SUBSET {i} /\ R1 \in SUBSET {i}
      BY <1>1, <1>7
    <2>2. /\ Cardinality({i}) = 1 /\ Amount(Claim, {i}) = Claim[i]
          /\ Amount(Kept, {i}) = Kept[i]
      BY FS_Singleton, UnitsOfOne, ClaimTypes
    <2>3. /\ Amount(Claim, H1) <= Amount(Claim, {i})
          /\ Amount(Kept, R1) <= Amount(Kept, {i})
          /\ Cardinality(H1) <= Cardinality({i})
          /\ Cardinality(R1) <= Cardinality({i})
      BY <1>2, <2>1, ClaimTypes, Shrinks
    <2>. QED  BY <1>3, <1>4, <2>2, <2>3
  <1>8. /\ AskedOpen' = AskedOpen /\ AskedRows' = AskedRows
        /\ PendingRuntime' = PendingRuntime /\ AskedCanary' = AskedCanary
        /\ config' = config /\ Canary' = Canary /\ lowered' = lowered
    BY DEF AskedOpen, AskedRows, PendingRuntime, AskedCanary, OpenPositions,
           PendingUser, CanaryOpen, Canary, Ungated
  <1>9. /\ Load' = AskedExposure + Amount(Claim, H1)
        /\ Entries' = AskedPositions + Cardinality(H1)
        /\ CanaryLoad' = Amount(Kept, AskedCanary) + Amount(Kept, R1)
        /\ CanaryEntries' = Cardinality(AskedCanary) + Cardinality(R1)
    BY <1>8 DEF Load, Entries, CanaryLoad, CanaryEntries, AskedExposure,
                AskedPositions, H1, R1
  <1>10. /\ config.exposure \in Nat /\ config.positions \in Nat
         /\ Canary \in Canaries
    BY DEF SafetyInv, TypeOK, Canary
  <1>11. LoadTyped /\ Measured
    BY LoadTypes, MeasuredMore
  <1>12. /\ config.exposure > 0 => Exposure + amount <= config.exposure
         /\ config.positions > 0 => ActivePositions + 1 <= config.positions
    BY DEF Allowed, WithinBounds
  <1>13. LoadWithin'
    <2>. SUFFICES ASSUME ~raced', ~lowered
                  PROVE  /\ config.exposure > 0 => Load' <= config.exposure
                         /\ config.positions > 0 => Entries' <= config.positions
      BY <1>8 DEF LoadWithin
    <2>. QED  BY <1>3, <1>7, <1>9, <1>10, <1>11, <1>12 DEF LoadTyped, Measured
  <1>14. Canary.enabled =>
           /\ Canary.capital > 0 =>
                (Amount(Worth, CanaryOpen) + amount) * CapitalPct
                  <= Canary.capital * 100
           /\ Cardinality(CanaryOpen) + 1 <= Canary.positions
    BY DEF Allowed, CanaryAllows
  <1>15. CanaryWithin'
    <2>. SUFFICES ASSUME ~raced', Canary.enabled
                  PROVE  /\ CanaryEntries' <= Canary.positions
                         /\ Canary.capital > 0 =>
                              CanaryLoad' * CapitalPct <= Canary.capital * 100
      BY <1>8 DEF CanaryWithin
    <2>1. Canary.positions \in Nat /\ Canary.capital \in Nat
          /\ CapitalPct \in Nat
      BY <1>10, SafetyConstants
    <2>2. CanaryEntries' <= Canary.positions
      BY <1>3, <1>7, <1>9, <1>11, <1>14, <2>1 DEF LoadTyped, Measured
    <2>3. /\ CanaryLoad' \in Nat
          /\ Amount(Worth, CanaryOpen) + amount \in Nat
          /\ CanaryLoad' <= Amount(Worth, CanaryOpen) + amount
      BY <1>3, <1>7, <1>9, <1>11 DEF LoadTyped, Measured
    <2>4. /\ CanaryLoad' * CapitalPct
               <= (Amount(Worth, CanaryOpen) + amount) * CapitalPct
          /\ CanaryLoad' * CapitalPct \in Nat
          /\ (Amount(Worth, CanaryOpen) + amount) * CapitalPct \in Nat
      BY <2>1, <2>3, ProductGrows
    <2>. QED  BY <1>14, <2>1, <2>2, <2>4
  <1>16. LoadBounded'
    <2>1. Load' <= Exposure + amount + X
      BY <1>3, <1>5, <1>6, <1>9, <1>11 DEF LoadTyped, Measured
    <2>2. config.exposure > 0 => Load' <= config.exposure + X
      BY <1>3, <1>6, <1>9, <1>10, <1>11, <1>12, <2>1 DEF LoadTyped, Measured
    <2>. QED  BY <1>8, <2>2 DEF LoadBounded, X
  <1>17. Drains'
    <2>1. config.trading_enabled
      BY DEF Allowed
    <2>. QED  BY <1>8, <2>1 DEF SafetyInv, Drains
  <1>18. Fresh'
    <2>. SUFFICES ASSUME NEW u \in UIntents, UnderWay(u)'
                  PROVE  position[u] = "none"
      BY DEF Fresh
    <2>1. user[u] = "PREVIEWED" \/ \E k \in Lanes : lane[k].intent = u
      BY <1>1 DEF UnderWay
    <2>. QED  BY <2>1 DEF SafetyInv, Fresh, UnderWay
  <1>. QED  BY <1>1, <1>13, <1>15, <1>16, <1>17, <1>18
----------------------------------------------------------------------------
(* Steps after which nothing more is asked about.                          *)

\* The sums of the tables and of the lanes.
SumsTyped ==
    /\ AskedOpen \in SUBSET Intents /\ AskedRows \in SUBSET Intents
    /\ PendingRuntime \in SUBSET Intents /\ AskedCanary \in SUBSET Intents
    /\ Held(lane, Counting) \in SUBSET Intents
    /\ Held(lane, Releasing) \in SUBSET Intents
    /\ Amount(Kept, AskedOpen) \in Nat /\ Cardinality(AskedOpen) \in Nat
    /\ Amount(Claim, AskedRows) \in Nat /\ Cardinality(AskedRows) \in Nat
    /\ Amount(Claim, PendingRuntime) \in Nat
    /\ Cardinality(PendingRuntime) \in Nat
    /\ Amount(Kept, AskedCanary) \in Nat /\ Cardinality(AskedCanary) \in Nat
    /\ Amount(Claim, Held(lane, Counting)) \in Nat
    /\ Cardinality(Held(lane, Counting)) \in Nat
    /\ Amount(Kept, Held(lane, Releasing)) \in Nat
    /\ Cardinality(Held(lane, Releasing)) \in Nat

LEMMA SumTypes == SumsTyped
  BY CountedTypes, HeldType, ClaimTypes, Sums DEF SumsTyped

\* No table and no lane gains an intent that was asked about.
AllLess ==
    /\ AskedOpen' \subseteq AskedOpen
    /\ AskedRows' \subseteq AskedRows
    /\ PendingRuntime' \subseteq PendingRuntime
    /\ AskedCanary' \subseteq AskedCanary
    /\ Held(lane', Counting) \subseteq Held(lane, Counting)
    /\ Held(lane', Releasing) \subseteq Held(lane, Releasing)

LEMMA AllShrink ==
    ASSUME AllLess
    PROVE  /\ Load' <= Load /\ Entries' <= Entries
           /\ CanaryLoad' <= CanaryLoad /\ CanaryEntries' <= CanaryEntries
  <1>1. SumsTyped /\ SumsTyped'
    BY SumTypes, PTL
  <1>2. /\ Amount(Kept, AskedOpen') <= Amount(Kept, AskedOpen)
        /\ Cardinality(AskedOpen') <= Cardinality(AskedOpen)
        /\ Amount(Claim, AskedRows') <= Amount(Claim, AskedRows)
        /\ Cardinality(AskedRows') <= Cardinality(AskedRows)
        /\ Amount(Claim, PendingRuntime') <= Amount(Claim, PendingRuntime)
        /\ Cardinality(PendingRuntime') <= Cardinality(PendingRuntime)
    BY <1>1, ClaimTypes, Shrinks DEF SumsTyped, AllLess
  <1>3. /\ Amount(Kept, AskedCanary') <= Amount(Kept, AskedCanary)
        /\ Cardinality(AskedCanary') <= Cardinality(AskedCanary)
        /\ Amount(Claim, Held(lane', Counting))
             <= Amount(Claim, Held(lane, Counting))
        /\ Cardinality(Held(lane', Counting))
             <= Cardinality(Held(lane, Counting))
        /\ Amount(Kept, Held(lane', Releasing))
             <= Amount(Kept, Held(lane, Releasing))
        /\ Cardinality(Held(lane', Releasing))
             <= Cardinality(Held(lane, Releasing))
    BY <1>1, ClaimTypes, Shrinks DEF SumsTyped, AllLess
  <1>4. Load' <= Load /\ Entries' <= Entries
    BY <1>1, <1>2, <1>3 DEF SumsTyped, Load, Entries, AskedExposure,
                            AskedPositions
  <1>5. CanaryLoad' <= CanaryLoad /\ CanaryEntries' <= CanaryEntries
    BY <1>1, <1>3 DEF SumsTyped, CanaryLoad, CanaryEntries
  <1>. QED  BY <1>4, <1>5

\* So the invariant stays, if nothing is executed either.
LEMMA QuietStep ==
    ASSUME SafetyInv, TypeOK', UNCHANGED <<config, raced, lowered, leaked>>,
           AllLess, LaneInv', Fresh',
           LanesAt(lane', Executing) \subseteq LanesAt(lane, Executing)
    PROVE  SafetyInv'
  <1>1. /\ Load' <= Load /\ Entries' <= Entries
        /\ CanaryLoad' <= CanaryLoad /\ CanaryEntries' <= CanaryEntries
    BY AllShrink
  <1>2. LoadWithin' /\ CanaryWithin' /\ LoadBounded' /\ Drains'
    BY <1>1, NoMoreLoad, DrainsOn
  <1>. QED  BY <1>2 DEF SafetyInv

\* No intent gets under way and none that is gets a position.
LEMMA FreshOn ==
    ASSUME SafetyInv,
           \A u \in UIntents : position[u] = "none" => position'[u] = "none",
           \A u \in UIntents : user'[u] = "PREVIEWED" => user[u] = "PREVIEWED",
           \A k \in Lanes : lane'[k].intent # NoIntent =>
             lane'[k].intent = lane[k].intent
    PROVE  Fresh'
  <1>. SUFFICES ASSUME NEW u \in UIntents, UnderWay(u)'
                PROVE  position'[u] = "none"
    BY DEF Fresh
  <1>1. u # NoIntent
    BY SafetyConstants DEF Intents
  <1>2. user[u] = "PREVIEWED" \/ \E k \in Lanes : lane[k].intent = u
    BY <1>1 DEF UnderWay
  <1>. QED  BY <1>2 DEF SafetyInv, Fresh, UnderWay

\* The tables of the intents that were asked about, when no row of theirs
\* changes.
LEMMA TablesStay ==
    ASSUME UNCHANGED <<config, runtime, user, position, requeued>>
    PROVE  /\ AskedOpen' = AskedOpen /\ AskedRows' = AskedRows
           /\ PendingRuntime' = PendingRuntime /\ AskedCanary' = AskedCanary
  BY DEF AskedOpen, AskedRows, PendingRuntime, AskedCanary, OpenPositions,
         PendingUser, CanaryOpen, Canary, Ungated

\* A lane whose work is over or fails.
LEMMA LaneStops ==
    ASSUME SafetyInv, NEW l \in Lanes, NEW i, lane[l].intent = i, Leave(l)
    PROVE  /\ LaneInv'
           /\ Held(lane', Counting) \subseteq Held(lane, Counting) \ {i}
           /\ Held(lane', Releasing) \subseteq Held(lane, Releasing) \ {i}
           /\ LanesAt(lane', Executing) \subseteq LanesAt(lane, Executing) \ {l}
           /\ \A k \in Lanes : lane'[k].intent # NoIntent =>
                k # l /\ lane'[k].intent = lane[k].intent
           /\ raced' = raced
  <1>1. "idle" \notin Counting /\ "idle" \notin Releasing
    BY DEF Counting, Releasing
  <1>2. /\ LaneInv'
        /\ \A S : "idle" \notin S =>
             Held(lane', S) \subseteq Held(lane, S) \ {lane[l].intent}
        /\ LanesAt(lane', Executing) \subseteq LanesAt(lane, Executing) \ {l}
        /\ \A k \in Lanes : lane'[k].intent # NoIntent =>
             k # l /\ lane'[k].intent = lane[k].intent
    BY LaneLeaves
  <1>3. /\ Held(lane', Counting) \subseteq Held(lane, Counting) \ {i}
        /\ Held(lane', Releasing) \subseteq Held(lane, Releasing) \ {i}
    BY <1>1, <1>2
  <1>4. raced' = raced
    BY DEF Leave
  <1>. QED  BY <1>2, <1>3, <1>4
----------------------------------------------------------------------------
(* The steps of the runtime path.                                          *)

LEMMA RuntimeKeeps ==
    ASSUME SafetyInv, TypeOK', NEW l \in Lanes, NEW r \in RIntents,
           RuntimeStep(l, r)
    PROVE  SafetyInv'
  <1>1. r \in Intents /\ r # NoIntent /\ r \notin UIntents
    BY SafetyConstants DEF Intents
  <1>2. SumsTyped /\ SumsTyped'
    BY SumTypes, PTL
  <1>3. /\ Claim[r] <= Asked[r] /\ Claim[r] <= Booked[r]
        /\ Asked[r] \in Nat /\ Booked[r] \in Nat
    BY <1>1, ClaimTypes, SafetyConstants
  <1>4. CASE DispatchCheck(l, r)
    <2>1. /\ Pass(l, "insert", r) /\ lane[l] = Idle /\ Unhandled(r)
          /\ Allowed(Asked[r], r, TRUE)
          /\ UNCHANGED <<config, runtime, outcome, user, position, changes,
                         leaked, lowered, requeued>>
      BY <1>4 DEF DispatchCheck
    <2>2. /\ LaneInv' /\ LoadWithin' /\ CanaryWithin' /\ LoadBounded'
          /\ Drains' /\ Fresh'
      BY <1>1, <1>3, <2>1, GatePasses DEF Steps
    <2>. QED  BY <2>2 DEF SafetyInv
  <1>5. CASE DispatchInsert(l, r)
    <2>1. /\ lane[l].step = "insert" /\ lane[l].intent = r /\ Leave(l)
          /\ runtime' = [runtime EXCEPT ![r] = "pending"]
          /\ UNCHANGED <<config, outcome, user, position, changes, leaked,
                         lowered, requeued>>
      BY <1>5 DEF DispatchInsert, At
    <2>2. /\ LaneInv'
          /\ Held(lane', Counting) \subseteq Held(lane, Counting) \ {r}
          /\ Held(lane', Releasing) \subseteq Held(lane, Releasing)
          /\ LanesAt(lane', Executing) \subseteq LanesAt(lane, Executing)
          /\ \A k \in Lanes : lane'[k].intent # NoIntent =>
               lane'[k].intent = lane[k].intent
          /\ raced' = raced
      <3>1. /\ LaneInv'
            /\ Held(lane', Counting) \subseteq Held(lane, Counting) \ {r}
            /\ Held(lane', Releasing) \subseteq Held(lane, Releasing) \ {r}
            /\ LanesAt(lane', Executing)
                 \subseteq LanesAt(lane, Executing) \ {l}
            /\ \A k \in Lanes : lane'[k].intent # NoIntent =>
                 k # l /\ lane'[k].intent = lane[k].intent
            /\ raced' = raced
        BY <2>1, LaneStops
      <3>. QED  BY <3>1
    <2>3. r \in Held(lane, Counting)
      BY <1>1, <2>1 DEF Held, Counting
    <2>4. /\ PendingRuntime' \subseteq PendingRuntime \cup {r}
          /\ AskedOpen' = AskedOpen /\ AskedRows' = AskedRows
          /\ AskedCanary' = AskedCanary
      BY <2>1 DEF PendingRuntime, AskedOpen, AskedRows, AskedCanary,
                  OpenPositions, PendingUser, CanaryOpen, Canary, Ungated,
                  SafetyInv, TypeOK
    <2>5. /\ Amount(Claim, Held(lane', Counting)) + Amount(Claim, PendingRuntime')
               <= Amount(Claim, Held(lane, Counting))
                    + Amount(Claim, PendingRuntime)
          /\ Cardinality(Held(lane', Counting)) + Cardinality(PendingRuntime')
               <= Cardinality(Held(lane, Counting)) + Cardinality(PendingRuntime)
      <3>1. Claim \in Amounts /\ Claim[r] <= Claim[r]
        BY <1>1, ClaimTypes, SafetyConstants DEF Amounts
      <3>. QED  BY <1>2, <2>2, <2>3, <2>4, <3>1, Moves DEF SumsTyped
    <2>6. /\ Amount(Kept, Held(lane', Releasing))
               <= Amount(Kept, Held(lane, Releasing))
          /\ Cardinality(Held(lane', Releasing))
               <= Cardinality(Held(lane, Releasing))
      BY <1>2, <2>2, ClaimTypes, Shrinks DEF SumsTyped
    <2>7. Load' <= Load /\ Entries' <= Entries
      BY <1>2, <2>4, <2>5 DEF SumsTyped, Load, Entries, AskedExposure,
                              AskedPositions
    <2>8. CanaryLoad' <= CanaryLoad /\ CanaryEntries' <= CanaryEntries
      BY <1>2, <2>4, <2>6 DEF SumsTyped, CanaryLoad, CanaryEntries
    <2>9. UNCHANGED <<config, raced, lowered, leaked>>
      BY <2>1, <2>2
    <2>10. LoadWithin' /\ CanaryWithin' /\ LoadBounded' /\ Drains'
      BY <2>2, <2>7, <2>8, <2>9, NoMoreLoad, DrainsOn
    <2>11. Fresh'
      BY <2>1, <2>2, FreshOn
    <2>. QED  BY <2>2, <2>10, <2>11 DEF SafetyInv
  <1>6. CASE WorkerCheck(l, r)
    <2>1. CASE Allowed(Booked[r], r, FALSE)
      <3>1. /\ Pass(l, "place", r) /\ lane[l] = Idle /\ Unhandled(r)
            /\ UNCHANGED <<config, runtime, outcome, user, position, changes,
                           leaked, lowered, requeued>>
        BY <1>6, <2>1 DEF WorkerCheck
      <3>2. /\ LaneInv' /\ LoadWithin' /\ CanaryWithin' /\ LoadBounded'
            /\ Drains' /\ Fresh'
        BY <1>1, <1>3, <2>1, <3>1, GatePasses DEF Steps
      <3>. QED  BY <3>2 DEF SafetyInv
    <2>2. CASE ~Allowed(Booked[r], r, FALSE)
      <3>1. UNCHANGED <<config, runtime, user, position, lane, leaked, raced,
                        lowered, requeued>>
        BY <1>6, <2>2 DEF WorkerCheck
      <3>2. AllLess
        BY <3>1, TablesStay DEF AllLess
      <3>3. LaneInv' /\ LanesAt(lane', Executing) = LanesAt(lane, Executing)
        BY <3>1 DEF SafetyInv, LaneInv, Apart, IdleLanes, OneAtWork
      <3>4. Fresh'
        BY <3>1, FreshOn
      <3>. QED  BY <3>1, <3>2, <3>3, <3>4, QuietStep
    <2>. QED  BY <2>1, <2>2
  <1>7. CASE WorkerPlace(l, r)
    <2>1. /\ lane[l].step = "place" /\ lane[l].intent = r /\ Leave(l) /\ Executed
          /\ UNCHANGED <<config, runtime, user, position, changes, lowered,
                         requeued>>
      BY <1>7 DEF WorkerPlace, At
    <2>2. /\ LaneInv'
          /\ Held(lane', Counting) \subseteq Held(lane, Counting) \ {r}
          /\ Held(lane', Releasing) \subseteq Held(lane, Releasing) \ {r}
          /\ LanesAt(lane', Executing) \subseteq LanesAt(lane, Executing) \ {l}
          /\ \A k \in Lanes : lane'[k].intent # NoIntent =>
               k # l /\ lane'[k].intent = lane[k].intent
          /\ raced' = raced
      BY <2>1, LaneStops
    <2>3. AllLess
      BY <2>1, <2>2, TablesStay DEF AllLess
    <2>4. /\ Load' <= Load /\ Entries' <= Entries
          /\ CanaryLoad' <= CanaryLoad /\ CanaryEntries' <= CanaryEntries
      BY <2>3, AllShrink
    <2>5. UNCHANGED <<config, raced, lowered>>
      BY <2>1, <2>2
    <2>6. LoadWithin' /\ CanaryWithin' /\ LoadBounded'
      BY <2>4, <2>5, NoMoreLoad
    <2>7. Drains'
      BY <2>1, <2>2, DrainsByOne DEF Executing
    <2>8. Fresh'
      BY <2>1, <2>2, FreshOn
    <2>. QED  BY <2>2, <2>6, <2>7, <2>8 DEF SafetyInv
  <1>. QED  BY <1>4, <1>5, <1>6, <1>7 DEF RuntimeStep
----------------------------------------------------------------------------
(* The steps of the user path.                                             *)

\* The user's row moves on and no position with it.
LEMMA RowMoves ==
    ASSUME SafetyInv, NEW u \in UIntents, NEW status \in UserStates,
           user' = [user EXCEPT ![u] = status],
           UNCHANGED <<config, runtime, position, requeued>>
    PROVE  /\ AskedOpen' = AskedOpen
           /\ PendingRuntime' = PendingRuntime
           /\ AskedCanary' = AskedCanary
           /\ AskedRows' \subseteq AskedRows \cup {u}
           /\ status \notin {"QUEUED", "APPROVED"} \/ u \in PendingUser =>
                AskedRows' \subseteq AskedRows
  <1>1. user \in [UIntents -> UserStates]
    BY DEF SafetyInv, TypeOK
  <1>2. \A v \in UIntents : user'[v] = IF v = u THEN status ELSE user[v]
    BY <1>1
  <1>3. /\ AskedOpen' = AskedOpen /\ PendingRuntime' = PendingRuntime
        /\ AskedCanary' = AskedCanary
    BY DEF AskedOpen, PendingRuntime, AskedCanary, OpenPositions, CanaryOpen,
           Canary, Ungated
  <1>4. /\ PendingUser' \subseteq PendingUser \cup {u}
        /\ status \notin {"QUEUED", "APPROVED"} \/ u \in PendingUser =>
             PendingUser' \subseteq PendingUser
    BY <1>2 DEF PendingUser
  <1>5. AskedRows' = {v \in PendingUser' \ Ungated : position[v] = "none"}
    BY DEF AskedRows, Ungated
  <1>. QED  BY <1>3, <1>4, <1>5 DEF AskedRows

\* Its row is no PREVIEWED one.
LEMMA RowFresh ==
    ASSUME SafetyInv, NEW u \in UIntents, NEW status \in UserStates,
           status # "PREVIEWED", user' = [user EXCEPT ![u] = status],
           UNCHANGED position,
           \A k \in Lanes : lane'[k].intent # NoIntent =>
             lane'[k].intent = lane[k].intent
    PROVE  Fresh'
  <1>1. \A v \in UIntents : user'[v] = "PREVIEWED" => user[v] = "PREVIEWED"
    BY DEF SafetyInv, TypeOK
  <1>. QED  BY <1>1, FreshOn

\* A lane moves the row of its intent and goes on; nothing is counted anew.
LEMMA RowStep ==
    ASSUME SafetyInv, TypeOK', NEW l \in Lanes, NEW u \in UIntents,
           NEW status \in UserStates, status # "PREVIEWED",
           NEW next \in Steps \ {"idle"}, lane[l].intent = u,
           user' = [user EXCEPT ![u] = status],
           status \notin {"QUEUED", "APPROVED"} \/ u \in PendingUser,
           Goto(l, next, u), lane[l].step \in Releasing, next \in Releasing,
           next \in Counting => lane[l].step \in Counting,
           UNCHANGED <<config, runtime, position, raced, lowered, leaked,
                       requeued>>
    PROVE  SafetyInv'
  <1>1. u \in Intents
    BY DEF Intents
  <1>2. /\ AskedOpen' = AskedOpen /\ PendingRuntime' = PendingRuntime
        /\ AskedCanary' = AskedCanary /\ AskedRows' \subseteq AskedRows
    BY RowMoves
  <1>3. /\ LaneInv'
        /\ \A S : next \notin S =>
             Held(lane', S) \subseteq Held(lane, S) \ {u}
        /\ \A S : next \in S /\ lane[l].step \in S =>
             Held(lane', S) \subseteq Held(lane, S)
        /\ \A S : lane[l].step \in S => LanesAt(lane', S) \subseteq LanesAt(lane, S)
        /\ \A k \in Lanes : lane'[k].intent = lane[k].intent
    BY <1>1, LaneGoesOn
  <1>4. Held(lane', Counting) \subseteq Held(lane, Counting)
    <2>1. CASE next \in Counting
      BY <1>3, <2>1
    <2>2. CASE next \notin Counting
      <3>1. Held(lane', Counting) \subseteq Held(lane, Counting) \ {u}
        BY <1>3, <2>2
      <3>. QED  BY <3>1
    <2>. QED  BY <2>1, <2>2
  <1>5. /\ Held(lane', Releasing) \subseteq Held(lane, Releasing)
        /\ LanesAt(lane', Executing) \subseteq LanesAt(lane, Executing)
    BY <1>3 DEF Executing
  <1>6. AllLess
    BY <1>2, <1>4, <1>5 DEF AllLess
  <1>7. Fresh'
    BY <1>3, RowFresh
  <1>8. UNCHANGED <<config, raced, lowered, leaked>>
    OBVIOUS
  <1>. QED  BY <1>3, <1>5, <1>6, <1>7, <1>8, QuietStep

\* A lane opens the position of its intent, whose row is RELEASED or stays
\* APPROVED beside it.
LEMMA PositionOpens ==
    ASSUME SafetyInv, TypeOK', NEW l \in Lanes, NEW u \in UIntents,
           lane[l].step = "release", lane[l].intent = u, user[u] = "APPROVED",
           position' = [position EXCEPT ![u] = "open"],
           NEW status \in {"APPROVED", "RELEASED"},
           user' = [user EXCEPT ![u] = status],
           Leave(l), Executed,
           UNCHANGED <<config, runtime, lowered, requeued>>
    PROVE  SafetyInv'
  <1>1. u \in Intents /\ u \in Positions /\ u # NoIntent /\ u \in PendingUser
    BY SafetyConstants DEF Intents, Positions, PendingUser
  <1>2. SumsTyped /\ SumsTyped'
    BY SumTypes, PTL
  <1>3. /\ \A v \in UIntents : user'[v] = IF v = u THEN status ELSE user[v]
        /\ \A p \in Positions :
             position'[p] = IF p = u THEN "open" ELSE position[p]
        /\ position[u] = "none"
    BY <1>1 DEF SafetyInv, TypeOK, Fresh, UnderWay
  <1>4. /\ LaneInv'
        /\ Held(lane', Counting) \subseteq Held(lane, Counting) \ {u}
        /\ Held(lane', Releasing) \subseteq Held(lane, Releasing) \ {u}
        /\ LanesAt(lane', Executing) \subseteq LanesAt(lane, Executing) \ {l}
        /\ \A k \in Lanes : lane'[k].intent # NoIntent =>
             k # l /\ lane'[k].intent = lane[k].intent
        /\ raced' = raced
    BY LaneStops
  <1>5. /\ AskedRows' \subseteq AskedRows \ {u}
        /\ PendingRuntime' = PendingRuntime
    <2>1. AskedRows' = {v \in PendingUser' \ Ungated : position'[v] = "none"}
      BY DEF AskedRows, Ungated
    <2>2. \A v \in PendingUser' : v \in PendingUser
      BY <1>1, <1>3 DEF PendingUser
    <2>3. \A v \in UIntents : v \in Positions
      BY DEF Positions
    <2>4. ASSUME NEW v \in AskedRows'
          PROVE  v \in AskedRows /\ v # u
      <3>1. /\ v \in PendingUser /\ v \notin Ungated /\ position'[v] = "none"
            /\ v \in Positions
        BY <2>1, <2>2, <2>3 DEF PendingUser
      <3>. QED  BY <1>3, <3>1 DEF AskedRows
    <2>5. PendingRuntime' = PendingRuntime
      BY DEF PendingRuntime
    <2>. QED  BY <2>4, <2>5
  <1>6. /\ AskedOpen' \subseteq AskedOpen \cup {u}
        /\ AskedCanary' \subseteq AskedCanary \cup {u}
        /\ u \in Ungated => AskedOpen' \subseteq AskedOpen
    BY <1>3 DEF AskedOpen, AskedCanary, OpenPositions, CanaryOpen, Canary, Ungated
  <1>7. u \in Held(lane, Releasing)
    BY <1>1 DEF Held, Releasing
  <1>8. /\ Claim \in Amounts /\ Kept \in Amounts /\ Kept[u] <= Claim[u]
        /\ Kept[u] <= Kept[u]
    BY <1>1, ClaimTypes, SafetyConstants DEF Amounts
  <1>9. /\ Amount(Claim, AskedRows') + Amount(Kept, AskedOpen')
             <= Amount(Claim, AskedRows) + Amount(Kept, AskedOpen)
        /\ Cardinality(AskedRows') + Cardinality(AskedOpen')
             <= Cardinality(AskedRows) + Cardinality(AskedOpen)
    <2>1. CASE u \notin Ungated
      <3>1. u \in AskedRows
        BY <1>1, <1>3, <2>1 DEF AskedRows
      <3>. QED  BY <1>2, <1>5, <1>6, <1>8, <3>1, Moves DEF SumsTyped
    <2>2. CASE u \in Ungated
      <3>1. AskedRows' \subseteq AskedRows /\ AskedOpen' \subseteq AskedOpen
        BY <1>5, <1>6, <2>2
      <3>2. /\ Amount(Claim, AskedRows') <= Amount(Claim, AskedRows)
            /\ Cardinality(AskedRows') <= Cardinality(AskedRows)
            /\ Amount(Kept, AskedOpen') <= Amount(Kept, AskedOpen)
            /\ Cardinality(AskedOpen') <= Cardinality(AskedOpen)
        BY <1>2, <1>8, <3>1, Shrinks DEF SumsTyped
      <3>. QED  BY <1>2, <3>2 DEF SumsTyped
    <2>. QED  BY <2>1, <2>2
  <1>10. /\ Amount(Kept, Held(lane', Releasing)) + Amount(Kept, AskedCanary')
              <= Amount(Kept, Held(lane, Releasing)) + Amount(Kept, AskedCanary)
         /\ Cardinality(Held(lane', Releasing)) + Cardinality(AskedCanary')
              <= Cardinality(Held(lane, Releasing)) + Cardinality(AskedCanary)
    BY <1>2, <1>4, <1>6, <1>7, <1>8, Moves DEF SumsTyped
  <1>11. /\ Amount(Claim, Held(lane', Counting))
              <= Amount(Claim, Held(lane, Counting))
         /\ Cardinality(Held(lane', Counting))
              <= Cardinality(Held(lane, Counting))
    BY <1>2, <1>4, <1>8, Shrinks DEF SumsTyped
  <1>12. Load' <= Load /\ Entries' <= Entries
    BY <1>2, <1>5, <1>9, <1>11 DEF SumsTyped, Load, Entries, AskedExposure,
                                   AskedPositions
  <1>13. CanaryLoad' <= CanaryLoad /\ CanaryEntries' <= CanaryEntries
    BY <1>2, <1>10 DEF SumsTyped, CanaryLoad, CanaryEntries
  <1>14. UNCHANGED <<config, raced, lowered>>
    BY <1>4
  <1>15. LoadWithin' /\ CanaryWithin' /\ LoadBounded'
    BY <1>12, <1>13, <1>14, NoMoreLoad
  <1>16. Drains'
    BY <1>4, DrainsByOne DEF Executing, Releasing
  <1>17. Fresh'
    <2>. SUFFICES ASSUME NEW v \in UIntents, UnderWay(v)'
                  PROVE  position'[v] = "none"
      BY DEF Fresh
    <2>1. v # NoIntent /\ v \in Positions
      BY SafetyConstants DEF Intents, Positions
    <2>2. v # u
      BY <1>3, <1>4, <2>1 DEF UnderWay, SafetyInv, LaneInv, Apart
    <2>3. UnderWay(v)
      BY <1>3, <1>4, <2>1, <2>2 DEF UnderWay
    <2>. QED  BY <1>3, <2>1, <2>2, <2>3 DEF SafetyInv, Fresh
  <1>. QED  BY <1>4, <1>15, <1>16, <1>17 DEF SafetyInv

LEMMA UserKeeps ==
    ASSUME SafetyInv, TypeOK', NEW l \in Lanes, NEW u \in UIntents,
           UserStep(l, u)
    PROVE  SafetyInv'
  <1>1. u \in Intents /\ u # NoIntent
    BY SafetyConstants DEF Intents
  <1>2. SumsTyped /\ SumsTyped'
    BY SumTypes, PTL
  <1>3. CASE SubmitCheck(l, u)
    <2>1. /\ Pass(l, "commit", u) /\ lane[l] = Idle /\ Unhandled(u)
          /\ Allowed(Asked[u], u, TRUE) /\ user[u] = "PREVIEWED"
          /\ UNCHANGED <<config, runtime, outcome, user, position, changes,
                         leaked, lowered, requeued>>
      BY <1>3 DEF SubmitCheck
    <2>2. Claim[u] <= Asked[u] /\ Asked[u] \in Nat
      BY <1>1, ClaimTypes, SafetyConstants
    <2>3. /\ LaneInv' /\ LoadWithin' /\ CanaryWithin' /\ LoadBounded'
          /\ Drains' /\ Fresh'
      BY <1>1, <2>1, <2>2, GatePasses DEF Steps
    <2>. QED  BY <2>3 DEF SafetyInv
  <1>4. CASE SubmitCommit(l, u)
    <2>1. CASE Write(l, u, "commit", "SUBMITTED", "enqueue")
      <3>1. /\ lane[l].step = "commit" /\ lane[l].intent = u
            /\ user' = [user EXCEPT ![u] = "SUBMITTED"]
            /\ Goto(l, "enqueue", u)
            /\ UNCHANGED <<config, runtime, position, raced, lowered, leaked,
                           requeued>>
        BY <1>4, <2>1 DEF SubmitCommit, Write, At
      <3>. QED
        BY <3>1, RowStep DEF Counting, Releasing, Steps, UserStates
    <2>2. CASE Write(l, u, "commit", "REJECTED", "idle")
      <3>1. /\ lane[l].intent = u /\ user' = [user EXCEPT ![u] = "REJECTED"]
            /\ Leave(l)
            /\ UNCHANGED <<config, runtime, position, leaked, lowered,
                           requeued>>
        BY <1>4, <2>2 DEF SubmitCommit, Write, At
      <3>2. /\ AskedOpen' = AskedOpen /\ PendingRuntime' = PendingRuntime
            /\ AskedCanary' = AskedCanary /\ AskedRows' \subseteq AskedRows
        BY <3>1, RowMoves DEF UserStates
      <3>3. /\ LaneInv'
            /\ Held(lane', Counting) \subseteq Held(lane, Counting) \ {u}
            /\ Held(lane', Releasing) \subseteq Held(lane, Releasing) \ {u}
            /\ LanesAt(lane', Executing)
                 \subseteq LanesAt(lane, Executing) \ {l}
            /\ \A k \in Lanes : lane'[k].intent # NoIntent =>
                 k # l /\ lane'[k].intent = lane[k].intent
            /\ raced' = raced
        BY <3>1, LaneStops
      <3>4. AllLess
        BY <3>2, <3>3 DEF AllLess
      <3>5. Fresh'
        BY <3>1, <3>3, RowFresh DEF UserStates
      <3>6. UNCHANGED <<config, raced, lowered, leaked>>
        BY <3>1, <3>3
      <3>7. LanesAt(lane', Executing) \subseteq LanesAt(lane, Executing)
        BY <3>3
      <3>. QED  BY <3>3, <3>4, <3>5, <3>6, <3>7, QuietStep
    <2>. QED  BY <1>4, <2>1, <2>2 DEF SubmitCommit
  <1>5. CASE Enqueue(l, u)
    <2>1. /\ lane[l].step = "enqueue" /\ lane[l].intent = u
          /\ user' = [user EXCEPT ![u] = "QUEUED"]
          /\ Goto(l, "approve", u) /\ raced' = raced
          /\ UNCHANGED <<config, runtime, position, leaked, lowered, requeued>>
      BY <1>5 DEF Enqueue, Write, At
    <2>2. /\ AskedOpen' = AskedOpen /\ PendingRuntime' = PendingRuntime
          /\ AskedCanary' = AskedCanary /\ AskedRows' \subseteq AskedRows \cup {u}
      BY <2>1, RowMoves DEF UserStates
    <2>3. /\ LaneInv'
          /\ \A S : "approve" \notin S =>
               Held(lane', S) \subseteq Held(lane, S) \ {u}
          /\ \A S : "approve" \in S /\ lane[l].step \in S =>
               Held(lane', S) \subseteq Held(lane, S)
          /\ \A S : lane[l].step \in S =>
               LanesAt(lane', S) \subseteq LanesAt(lane, S)
          /\ \A k \in Lanes : lane'[k].intent = lane[k].intent
      BY <1>1, <2>1, LaneGoesOn DEF Steps
    <2>4. /\ Held(lane', Counting) \subseteq Held(lane, Counting) \ {u}
          /\ Held(lane', Releasing) \subseteq Held(lane, Releasing)
          /\ LanesAt(lane', Executing) \subseteq LanesAt(lane, Executing)
      BY <2>1, <2>3 DEF Counting, Releasing, Executing
    <2>5. u \in Held(lane, Counting)
      BY <1>1, <2>1 DEF Held, Counting
    <2>6. /\ Claim \in Amounts /\ Kept \in Amounts /\ Claim[u] <= Claim[u]
      BY <1>1, ClaimTypes, SafetyConstants DEF Amounts
    <2>7. /\ Amount(Claim, Held(lane', Counting)) + Amount(Claim, AskedRows')
               <= Amount(Claim, Held(lane, Counting)) + Amount(Claim, AskedRows)
          /\ Cardinality(Held(lane', Counting)) + Cardinality(AskedRows')
               <= Cardinality(Held(lane, Counting)) + Cardinality(AskedRows)
      BY <1>2, <2>2, <2>4, <2>5, <2>6, Moves DEF SumsTyped
    <2>8. /\ Amount(Kept, Held(lane', Releasing))
               <= Amount(Kept, Held(lane, Releasing))
          /\ Cardinality(Held(lane', Releasing))
               <= Cardinality(Held(lane, Releasing))
      BY <1>2, <2>4, <2>6, Shrinks DEF SumsTyped
    <2>9. Load' <= Load /\ Entries' <= Entries
      BY <1>2, <2>2, <2>7 DEF SumsTyped, Load, Entries, AskedExposure,
                              AskedPositions
    <2>10. CanaryLoad' <= CanaryLoad /\ CanaryEntries' <= CanaryEntries
      BY <1>2, <2>2, <2>8 DEF SumsTyped, CanaryLoad, CanaryEntries
    <2>11. UNCHANGED <<config, raced, lowered, leaked>>
      BY <2>1
    <2>12. LoadWithin' /\ CanaryWithin' /\ LoadBounded' /\ Drains'
      BY <2>4, <2>9, <2>10, <2>11, NoMoreLoad, DrainsOn
    <2>13. Fresh'
      BY <2>1, <2>3, RowFresh DEF UserStates
    <2>. QED  BY <2>3, <2>12, <2>13 DEF SafetyInv
  <1>6. CASE Approve(l, u)
    <2>1. /\ lane[l].step = "approve" /\ lane[l].intent = u
          /\ user' = [user EXCEPT ![u] = "APPROVED"] /\ u \in PendingUser
          /\ Goto(l, "release", u)
          /\ UNCHANGED <<config, runtime, position, raced, lowered, leaked,
                         requeued>>
      BY <1>6 DEF Approve, Write, At, PendingUser
    <2>. QED  BY <2>1, RowStep DEF Counting, Releasing, Steps, UserStates
  <1>7. CASE Release(l, u)
    <2>1. /\ lane[l].step = "release" /\ lane[l].intent = u
          /\ user' = [user EXCEPT ![u] = "RELEASED"]
          /\ position' = [position EXCEPT ![u] = "open"]
          /\ user[u] = "APPROVED" /\ Leave(l) /\ Executed
          /\ UNCHANGED <<config, runtime, lowered, requeued>>
      BY <1>7 DEF Release, Write, At
    <2>. QED  BY <2>1, PositionOpens
  <1>8. CASE ReleaseBreaksOff(l, u)
    <2>1. /\ lane[l].step = "release" /\ lane[l].intent = u
          /\ user' = user /\ position' = [position EXCEPT ![u] = "open"]
          /\ user[u] = "APPROVED" /\ Leave(l) /\ Executed
          /\ UNCHANGED <<config, runtime, lowered, requeued>>
      BY <1>8 DEF ReleaseBreaksOff, At
    <2>2. user' = [user EXCEPT ![u] = "APPROVED"]
      BY <2>1 DEF SafetyInv, TypeOK
    <2>. QED  BY <2>1, <2>2, PositionOpens
  <1>. QED  BY <1>3, <1>4, <1>5, <1>6, <1>7, <1>8 DEF UserStep
----------------------------------------------------------------------------
(* The steps that move no lane, and those that ask nobody.                 *)

\* A step that moves no lane and adds nothing to the tables.
LEMMA TableStep ==
    ASSUME SafetyInv, TypeOK',
           UNCHANGED <<config, runtime, lane, leaked, raced, lowered>>,
           AskedOpen' \subseteq AskedOpen, AskedRows' \subseteq AskedRows,
           AskedCanary' \subseteq AskedCanary,
           \A u \in UIntents : position[u] = "none" => position'[u] = "none",
           \A u \in UIntents : user'[u] = "PREVIEWED" => user[u] = "PREVIEWED"
    PROVE  SafetyInv'
  <1>1. PendingRuntime' = PendingRuntime
    BY DEF PendingRuntime
  <1>2. LaneInv'
    BY DEF SafetyInv, LaneInv, Apart, IdleLanes, OneAtWork
  <1>3. AllLess
    BY <1>1 DEF AllLess
  <1>4. Fresh'
    BY FreshOn
  <1>5. LanesAt(lane', Executing) \subseteq LanesAt(lane, Executing)
    OBVIOUS
  <1>6. UNCHANGED <<config, raced, lowered, leaked>>
    OBVIOUS
  <1>. QED  BY <1>2, <1>3, <1>4, <1>5, <1>6, QuietStep

LEMMA CancelKeeps ==
    ASSUME SafetyInv, TypeOK', NEW u \in UIntents, Cancel(u) \/ Requeue(u)
    PROVE  SafetyInv'
  <1>1. CASE Cancel(u)
    <2>1. /\ user' = [user EXCEPT ![u] = "CANCELLED"]
          /\ UNCHANGED <<config, runtime, position, lane, leaked, raced,
                         lowered, requeued>>
      BY <1>1 DEF Cancel
    <2>2. /\ AskedOpen' = AskedOpen /\ AskedCanary' = AskedCanary
          /\ AskedRows' \subseteq AskedRows
      BY <2>1, RowMoves DEF UserStates
    <2>3. \A v \in UIntents : user'[v] = "PREVIEWED" => user[v] = "PREVIEWED"
      BY <2>1 DEF SafetyInv, TypeOK
    <2>. QED  BY <2>1, <2>2, <2>3, TableStep
  <1>2. CASE Requeue(u)
    <2>1. /\ user' = [user EXCEPT ![u] = "QUEUED"]
          /\ requeued' = requeued \cup {u}
          /\ UNCHANGED <<config, runtime, position, lane, leaked, raced,
                         lowered>>
      BY <1>2 DEF Requeue
    <2>2. \A v \in UIntents : user'[v] = IF v = u THEN "QUEUED" ELSE user[v]
      BY <2>1 DEF SafetyInv, TypeOK
    <2>3. /\ AskedOpen' \subseteq AskedOpen /\ AskedCanary' \subseteq AskedCanary
          /\ AskedRows' \subseteq AskedRows
      BY <2>1, <2>2 DEF AskedOpen, AskedCanary, AskedRows, OpenPositions,
                        CanaryOpen, Canary, PendingUser, Ungated
    <2>4. \A v \in UIntents : user'[v] = "PREVIEWED" => user[v] = "PREVIEWED"
      BY <2>2
    <2>. QED  BY <2>1, <2>3, <2>4, TableStep
  <1>. QED  BY <1>1, <1>2

\* Positions are closed, or opened by those who ask nobody.
LEMMA PositionsMove ==
    ASSUME SafetyInv, TypeOK',
           UNCHANGED <<config, runtime, user, lane, leaked, raced, lowered,
                       requeued>>,
           \A p \in Positions : position'[p] \in {position[p], "closed"}
                                  \/ p \in Outside,
           \A u \in UIntents : position[u] = "none" => position'[u] = "none"
    PROVE  SafetyInv'
  <1>1. \A p \in Positions \ Ungated : p \notin Outside
    BY DEF Ungated
  <1>2. /\ AskedOpen' \subseteq AskedOpen /\ AskedCanary' \subseteq AskedCanary
    BY <1>1 DEF AskedOpen, AskedCanary, OpenPositions, CanaryOpen, Canary,
                Ungated
  <1>3. \A u \in UIntents : u \in Positions /\ u \notin Outside
    BY SafetyConstants DEF Positions, Intents
  <1>4. AskedRows' \subseteq AskedRows
    <2>1. /\ AskedRows' = {v \in PendingUser \ Ungated : position'[v] = "none"}
          /\ PendingUser \subseteq UIntents
      BY DEF AskedRows, PendingUser, Ungated
    <2>. QED  BY <1>3, <2>1 DEF AskedRows
  <1>. QED  BY <1>2, <1>4, TableStep

LEMMA ClosingKeeps ==
    ASSUME SafetyInv, TypeOK', NEW p \in Positions, ClosePosition(p)
    PROVE  SafetyInv'
  <1>1. /\ \A q \in Positions :
             position'[q] = IF q = p THEN "closed" ELSE position[q]
        /\ position[p] = "open"
    BY DEF ClosePosition, SafetyInv, TypeOK
  <1>2. UNCHANGED <<config, runtime, user, lane, leaked, raced, lowered, requeued>>
    BY DEF ClosePosition
  <1>3. \A u \in UIntents : u \in Positions
    BY DEF Positions
  <1>4. \A u \in UIntents : position[u] = "none" => position'[u] = "none"
    BY <1>1, <1>3
  <1>. QED  BY <1>1, <1>2, <1>4, PositionsMove

LEMMA UngatedKeeps ==
    ASSUME SafetyInv, TypeOK', NEW p \in Outside, UngatedStep(p)
    PROVE  SafetyInv'
  <1>1. p \in Positions /\ p \notin UIntents
    BY SafetyConstants DEF Positions, Intents
  <1>2. \A u \in UIntents : u \in Positions
    BY DEF Positions
  <1>3. CASE OpenOutside(p)
    <2>1. \A q \in Positions :
            position'[q] = IF q = p THEN "open" ELSE position[q]
      BY <1>3 DEF OpenOutside, SafetyInv, TypeOK
    <2>2. UNCHANGED <<config, runtime, user, lane, leaked, raced, lowered,
                      requeued>>
      BY <1>3 DEF OpenOutside
    <2>3. \A u \in UIntents : position[u] = "none" => position'[u] = "none"
      BY <1>1, <1>2, <2>1
    <2>. QED  BY <2>1, <2>2, <2>3, PositionsMove
  <1>4. ASSUME NEW old \in Positions, Reverse(old, p)
        PROVE  SafetyInv'
    <2>1. /\ \A q \in Positions :
               position'[q] = IF q = p THEN "open"
                              ELSE IF q = old THEN "closed" ELSE position[q]
          /\ position[old] = "open"
      BY <1>4 DEF Reverse, SafetyInv, TypeOK
    <2>2. UNCHANGED <<config, runtime, user, lane, leaked, raced, lowered,
                      requeued>>
      BY <1>4 DEF Reverse
    <2>3. \A u \in UIntents : position[u] = "none" => position'[u] = "none"
      BY <1>1, <1>2, <2>1
    <2>. QED  BY <2>1, <2>2, <2>3, PositionsMove
  <1>. QED  BY <1>3, <1>4 DEF UngatedStep

LEMMA EmergencyKeeps ==
    ASSUME SafetyInv, TypeOK', EmergencyStop
    PROVE  SafetyInv'
  <1>1. /\ \A p \in Positions :
             position'[p] = IF position[p] = "open" THEN "closed" ELSE position[p]
        /\ \A u \in UIntents :
             user'[u] = IF user[u] \in {"RELEASED", "CANCELLED"}
                          THEN user[u] ELSE "REJECTED"
        /\ UNCHANGED <<config, runtime, lane, leaked, raced, lowered, requeued>>
    BY DEF EmergencyStop
  <1>2. AskedOpen' = {} /\ AskedCanary' = {} /\ AskedRows' = {}
    BY <1>1 DEF AskedOpen, AskedCanary, AskedRows, OpenPositions, CanaryOpen,
                PendingUser
  <1>3. \A u \in UIntents : u \in Positions
    BY DEF Positions
  <1>4. /\ \A u \in UIntents : position[u] = "none" => position'[u] = "none"
        /\ \A u \in UIntents : user'[u] = "PREVIEWED" => user[u] = "PREVIEWED"
    BY <1>1, <1>3
  <1>. QED  BY <1>1, <1>2, <1>4, TableStep

\* A lane that fails leaves the tables as they are.
LEMMA FailingKeeps ==
    ASSUME SafetyInv, TypeOK', NEW l \in Lanes, LaneFails(l)
    PROVE  SafetyInv'
  <1>1. /\ Leave(l)
        /\ UNCHANGED <<config, runtime, user, position, leaked, lowered,
                       requeued>>
    BY DEF LaneFails
  <1>2. PICK i : lane[l].intent = i
    OBVIOUS
  <1>3. /\ LaneInv'
        /\ Held(lane', Counting) \subseteq Held(lane, Counting) \ {i}
        /\ Held(lane', Releasing) \subseteq Held(lane, Releasing) \ {i}
        /\ LanesAt(lane', Executing) \subseteq LanesAt(lane, Executing) \ {l}
        /\ \A k \in Lanes : lane'[k].intent # NoIntent =>
             k # l /\ lane'[k].intent = lane[k].intent
        /\ raced' = raced
    BY <1>1, <1>2, LaneStops
  <1>4. AllLess
    BY <1>1, <1>3, TablesStay DEF AllLess
  <1>5. Fresh'
    BY <1>1, <1>3, FreshOn
  <1>6. UNCHANGED <<config, raced, lowered, leaked>>
    BY <1>1, <1>3
  <1>7. LanesAt(lane', Executing) \subseteq LanesAt(lane, Executing)
    BY <1>3
  <1>. QED  BY <1>3, <1>4, <1>5, <1>6, <1>7, QuietStep

\* The row is written: the canary fields stay, the limits are no tighter, and
\* with the switch the count of what leaks starts again.
LEMMA SwitchKeeps ==
    ASSUME SafetyInv, TypeOK', SetKillSwitch \/ ControlKill
    PROVE  SafetyInv'
  <1>1. PICK enabled \in BOOLEAN, bounds \in Bounds \cup {Keep} :
          UpdateState(enabled, bounds)
    BY UpdateBounds DEF SafetyInv
  <1>2. PICK new \in Bounds :
          /\ config' = [config EXCEPT !.trading_enabled = enabled,
                                      !.exposure = new.exposure,
                                      !.positions = new.positions]
          /\ ~lowered' =>
               /\ ~lowered
               /\ ~Below(new.exposure, config.exposure)
               /\ ~Below(new.positions, config.positions)
          /\ leaked' = IF config.trading_enabled \/ enabled THEN 0 ELSE leaked
          /\ UNCHANGED <<runtime, outcome, user, position, lane, raced,
                         requeued>>
    BY <1>1, Updated DEF SafetyInv
  <1>3. /\ config'.trading_enabled = enabled
        /\ config'.exposure = new.exposure /\ config'.positions = new.positions
        /\ config'.canary = config.canary
        /\ new.exposure \in Nat /\ new.positions \in Nat
        /\ config.exposure \in Nat /\ config.positions \in Nat
    BY <1>2 DEF SafetyInv, TypeOK, Bounds
  <1>4. /\ Load' = Load /\ Entries' = Entries
        /\ CanaryLoad' = CanaryLoad /\ CanaryEntries' = CanaryEntries
    BY <1>2, <1>3 DEF Load, Entries, CanaryLoad, CanaryEntries, AskedExposure,
                      AskedPositions, AskedOpen, AskedRows, AskedCanary,
                      OpenPositions, PendingUser, PendingRuntime, CanaryOpen,
                      Canary, Ungated
  <1>5. Load \in Nat /\ Entries \in Nat
    BY LoadTypes DEF LoadTyped
  <1>6. /\ LaneInv' /\ LanesAt(lane', Executing) = LanesAt(lane, Executing)
        /\ Fresh'
    BY <1>2 DEF SafetyInv, LaneInv, Apart, IdleLanes, OneAtWork, Fresh, UnderWay
  <1>7. LoadWithin'
    <2>. SUFFICES ASSUME ~raced, ~lowered'
                  PROVE  /\ new.exposure > 0 => Load <= new.exposure
                         /\ new.positions > 0 => Entries <= new.positions
      BY <1>2, <1>3, <1>4 DEF LoadWithin
    <2>1. /\ config.exposure > 0 => Load <= config.exposure
          /\ config.positions > 0 => Entries <= config.positions
      BY <1>2 DEF SafetyInv, LoadWithin
    <2>. QED  BY <1>2, <1>3, <1>5, <2>1 DEF Below
  <1>8. CanaryWithin'
    BY <1>2, <1>3, <1>4 DEF SafetyInv, CanaryWithin, Canary
  <1>9. LoadBounded'
    <2>. DEFINE X == (Cardinality(Lanes) - 1) * MaxSize
    <2>1. X \in Int
      <3>1. Cardinality(Lanes) \in Nat /\ MaxSize \in Nat
        BY SafetyConstants, FS_CardinalityType
      <3>. QED  BY <3>1
    <2>2. ~lowered => (config.exposure > 0 => Load <= config.exposure + X)
      BY DEF SafetyInv, LoadBounded
    <2>. HIDE DEF X
    <2>3. ~lowered' => (new.exposure > 0 => Load <= new.exposure + X)
      BY <1>2, <1>3, <1>5, <2>1, <2>2 DEF Below
    <2>. QED  BY <1>3, <1>4, <2>3 DEF LoadBounded, X
  <1>10. Drains'
    <2>1. /\ Cardinality(LanesAt(lane, Executing)) \in Nat
          /\ Cardinality(Lanes) \in Nat
          /\ Cardinality(LanesAt(lane, Executing)) <= Cardinality(Lanes)
      BY SafetyConstants, FS_Subset, FS_CardinalityType DEF LanesAt
    <2>2. CASE enabled
      BY <1>2, <1>3, <2>2 DEF Drains
    <2>3. CASE ~enabled /\ config.trading_enabled
      BY <1>2, <1>3, <1>6, <2>1, <2>3 DEF Drains
    <2>4. CASE ~enabled /\ ~config.trading_enabled
      <3>1. leaked' = leaked
        BY <1>2, <2>4
      <3>. QED  BY <1>3, <1>6, <2>4, <3>1 DEF SafetyInv, Drains
    <2>. QED  BY <2>2, <2>3, <2>4
  <1>. QED  BY <1>6, <1>7, <1>8, <1>9, <1>10 DEF SafetyInv
----------------------------------------------------------------------------
(* The theorems.                                                           *)

LEMMA SafetyNext == SafetyInv /\ [Next]_vars => SafetyInv'
  <1>. SUFFICES ASSUME SafetyInv, [Next]_vars PROVE SafetyInv'
    OBVIOUS
  <1>1. TypeOK'
    BY TypeNext DEF SafetyInv
  <1>2. CASE UNCHANGED vars
    <2>1. UNCHANGED <<config, runtime, user, position, lane, leaked, raced,
                      lowered, requeued>>
      BY <1>2 DEF vars
    <2>2. /\ AskedOpen' = AskedOpen /\ AskedRows' = AskedRows
          /\ AskedCanary' = AskedCanary
      BY <2>1, TablesStay
    <2>. QED  BY <1>1, <2>1, <2>2, TableStep
  <1>3. CASE Next
    BY <1>1, <1>3, RuntimeKeeps, UserKeeps, FailingKeeps, CancelKeeps,
       ClosingKeeps, UngatedKeeps, EmergencyKeeps, SwitchKeeps DEF Next
  <1>. QED  BY <1>2, <1>3

LEMMA SafetyInvariance == Spec => []SafetyInv
  BY SafetyInit, SafetyNext, PTL DEF Spec

\* What the tables count is what was asked about and what was not.
LEMMA ExposureSplits ==
    /\ Exposure <= AskedExposure + Unasked /\ Exposure \in Nat
    /\ ActivePositions <= AskedPositions + UnaskedEntries
    /\ ActivePositions \in Nat /\ Unasked \in Nat /\ UnaskedEntries \in Nat
  <1>. DEFINE OU == OpenPositions \cap Ungated
              PU == PendingUser \ AskedRows
  <1>1. Measured /\ LoadTyped
    BY MeasuredMore, LoadTypes
  <1>2. /\ OU \in SUBSET OpenPositions /\ PU \in SUBSET PendingUser
        /\ AskedOpen \in SUBSET OpenPositions
        /\ AskedRows \in SUBSET PendingUser
        /\ OpenPositions \in SUBSET (AskedOpen \cup OU)
        /\ PendingUser \in SUBSET (AskedRows \cup PU)
    BY DEF AskedOpen, AskedRows
  <1>3. /\ Sized(Worth, OpenPositions) /\ Sized(Booked, PendingUser)
        /\ Sized(Booked, PendingRuntime)
    BY PositionsTyped
  <1>4. ASSUME NEW f, NEW T, Sized(f, T), NEW S \in SUBSET T
        PROVE  Sized(f, S)
    BY <1>4, FS_Subset DEF Sized
  <1>5. /\ Sized(Worth, AskedOpen) /\ Sized(Worth, OU)
        /\ Sized(Booked, AskedRows) /\ Sized(Booked, PU)
    BY <1>2, <1>3, <1>4
  <1>6. /\ Sized(Kept, AskedOpen) /\ Sized(Claim, AskedOpen)
        /\ Sized(Claim, AskedRows) /\ Sized(Asked, AskedRows)
        /\ Sized(Claim, PendingRuntime) /\ Sized(Asked, PendingRuntime)
    BY CountedTypes, ClaimTypes, SizedIntents, SafetyConstants DEF Amounts
  <1>7. /\ \A u \in AskedOpen : Kept[u] = Lesser(Claim[u], Worth[u])
        /\ \A i \in AskedRows \cup PendingRuntime :
             Claim[i] = Lesser(Asked[i], Booked[i])
    BY CountedTypes, ClaimTypes DEF Claim
  <1>8. /\ Amount(Worth, OpenPositions)
             <= Amount(Worth, AskedOpen) + Amount(Worth, OU)
        /\ Amount(Booked, PendingUser)
             <= Amount(Booked, AskedRows) + Amount(Booked, PU)
    BY <1>2, <1>5, AmountSplits
  <1>9. /\ Amount(Worth, AskedOpen)
             <= Amount(Kept, AskedOpen) + Excess(Worth, Claim, AskedOpen)
        /\ Excess(Worth, Claim, AskedOpen) \in Nat
    BY <1>5, <1>6, <1>7, AmountExceeds
  <1>10. /\ Amount(Booked, AskedRows)
              <= Amount(Claim, AskedRows) + Excess(Booked, Asked, AskedRows)
         /\ Excess(Booked, Asked, AskedRows) \in Nat
    <2>1. \A i \in AskedRows : Claim[i] = Lesser(Asked[i], Booked[i])
      BY <1>7
    <2>. QED  BY <1>5, <1>6, <2>1, AmountExceeds
  <1>11. /\ Amount(Booked, PendingRuntime)
              <= Amount(Claim, PendingRuntime)
                   + Excess(Booked, Asked, PendingRuntime)
         /\ Excess(Booked, Asked, PendingRuntime) \in Nat
    <2>1. \A i \in PendingRuntime : Claim[i] = Lesser(Asked[i], Booked[i])
      BY <1>7
    <2>. QED  BY <1>3, <1>6, <2>1, AmountExceeds
  <1>12. /\ Amount(Worth, OpenPositions) \in Nat /\ Amount(Worth, AskedOpen) \in Nat
         /\ Amount(Worth, OU) \in Nat /\ Amount(Kept, AskedOpen) \in Nat
         /\ Amount(Booked, PendingUser) \in Nat
         /\ Amount(Booked, AskedRows) \in Nat /\ Amount(Booked, PU) \in Nat
         /\ Amount(Claim, AskedRows) \in Nat
         /\ Amount(Booked, PendingRuntime) \in Nat
         /\ Amount(Claim, PendingRuntime) \in Nat
    BY <1>3, <1>5, <1>6, FiniteUnits
  <1>13. /\ Cardinality(OpenPositions) <= Cardinality(AskedOpen) + Cardinality(OU)
         /\ Cardinality(PendingUser) <= Cardinality(AskedRows) + Cardinality(PU)
    BY <1>2, <1>5, Covered DEF Sized
  <1>14. /\ Cardinality(OpenPositions) \in Nat /\ Cardinality(AskedOpen) \in Nat
         /\ Cardinality(OU) \in Nat /\ Cardinality(PendingUser) \in Nat
         /\ Cardinality(AskedRows) \in Nat /\ Cardinality(PU) \in Nat
         /\ Cardinality(PendingRuntime) \in Nat
    BY <1>3, <1>5, FS_CardinalityType DEF Sized
  <1>15. /\ Unasked = Amount(Worth, OU) + Amount(Booked, PU)
                        + Excess(Worth, Claim, AskedOpen)
                        + Excess(Booked, Asked, AskedRows)
                        + Excess(Booked, Asked, PendingRuntime)
         /\ UnaskedEntries = Cardinality(OU) + Cardinality(PU)
    BY DEF Unasked, UnaskedEntries, AskedOpen
  <1>. HIDE DEF OU, PU
  <1>16. Exposure <= AskedExposure + Unasked /\ Unasked \in Nat
    BY <1>8, <1>9, <1>10, <1>11, <1>12, <1>15 DEF Exposure, AskedExposure
  <1>17. /\ ActivePositions <= AskedPositions + UnaskedEntries
         /\ UnaskedEntries \in Nat
    BY <1>13, <1>14, <1>15 DEF ActivePositions, AskedPositions
  <1>. QED  BY <1>1, <1>16, <1>17 DEF Measured

LEMMA CanarySplits ==
    /\ Amount(Worth, CanaryOpen) - UnaskedCanary <= Amount(Kept, AskedCanary)
    /\ Amount(Worth, CanaryOpen) - UnaskedCanary \in Int
  <1>. DEFINE CU == CanaryOpen \cap Ungated
  <1>1. /\ CU \in SUBSET CanaryOpen /\ AskedCanary \in SUBSET CanaryOpen
        /\ CanaryOpen \in SUBSET (AskedCanary \cup CU)
    BY DEF AskedCanary
  <1>2. Sized(Worth, CanaryOpen)
    BY PositionsTyped
  <1>3. Sized(Worth, AskedCanary) /\ Sized(Worth, CU)
    BY <1>1, <1>2, FS_Subset DEF Sized
  <1>4. Sized(Kept, AskedCanary) /\ Sized(Claim, AskedCanary)
    BY CountedTypes, ClaimTypes, SizedIntents
  <1>5. \A u \in AskedCanary : Kept[u] = Lesser(Claim[u], Worth[u])
    BY CountedTypes, ClaimTypes
  <1>6. Amount(Worth, CanaryOpen)
          <= Amount(Worth, AskedCanary) + Amount(Worth, CU)
    BY <1>1, <1>3, AmountSplits
  <1>7. /\ Amount(Worth, AskedCanary)
             <= Amount(Kept, AskedCanary) + Excess(Worth, Claim, AskedCanary)
        /\ Excess(Worth, Claim, AskedCanary) \in Nat
    BY <1>3, <1>4, <1>5, AmountExceeds
  <1>8. /\ Amount(Worth, CanaryOpen) \in Nat /\ Amount(Worth, AskedCanary) \in Nat
        /\ Amount(Worth, CU) \in Nat /\ Amount(Kept, AskedCanary) \in Nat
    BY <1>2, <1>3, <1>4, FiniteUnits
  <1>9. UnaskedCanary = Amount(Worth, CU) + Excess(Worth, Claim, AskedCanary)
    BY DEF UnaskedCanary, AskedCanary
  <1>. HIDE DEF CU
  <1>. QED  BY <1>6, <1>7, <1>8, <1>9

\* The gate is sound when it is asked by one lane at a time: until a lane is
\* let through while another is at work, what the tables count passes the
\* limits of the configuration row (which may only have been raised) by no
\* more than was opened, queued or booked without asking, and so do open
\* canary positions, for every number of intents, every amount and every limit
\* (assert_execution_open_allowed).
THEOREM GateCorrect == Spec => []GateHolds
  <1>1. SafetyInv => GateHolds
    <2>. SUFFICES ASSUME SafetyInv, ~raced
                  PROVE  CanaryHolds /\ (lowered \/ WithinLimits)
      BY DEF GateHolds
    <2>1. LoadTyped
      BY LoadTypes
    <2>2. /\ config.exposure \in Nat /\ config.positions \in Nat
          /\ Canary \in Canaries
      BY DEF SafetyInv, TypeOK, Canary
    <2>3. /\ Canary.positions \in Nat /\ Canary.capital \in Nat
          /\ CapitalPct \in Nat
      BY <2>2, SafetyConstants
    <2>4. lowered \/ WithinLimits
      BY <2>1, <2>2, ExposureSplits
         DEF SafetyInv, LoadWithin, WithinLimits, LoadTyped
    <2>5. PICK spent \in Int : spent = Amount(Worth, CanaryOpen) - UnaskedCanary
      BY CanarySplits
    <2>6. spent <= CanaryLoad
      BY <2>1, <2>5, CanarySplits DEF LoadTyped
    <2>7. spent * CapitalPct <= CanaryLoad * CapitalPct
      <3>1. CASE spent < 0
        <4>1. PICK d \in Nat : spent = -d
          <5>1. -spent \in Nat /\ spent = -(-spent)
            BY <2>5, <3>1
          <5>. QED  BY <5>1
        <4>2. d * CapitalPct \in Nat /\ CanaryLoad * CapitalPct \in Nat
          BY <2>1, <2>3 DEF LoadTyped
        <4>3. spent * CapitalPct = -(d * CapitalPct)
          BY <2>3, <4>1
        <4>. QED  BY <4>2, <4>3
      <3>2. CASE spent >= 0
        <4>1. spent \in Nat
          BY <2>5, <3>2
        <4>. QED  BY <2>1, <2>3, <2>6, <4>1, ProductGrows DEF LoadTyped
      <3>. QED  BY <2>5, <3>1, <3>2
    <2>8. spent * CapitalPct \in Int /\ CanaryLoad * CapitalPct \in Int
      BY <2>1, <2>3, <2>5 DEF LoadTyped
    <2>9. Canary.enabled =>
            /\ CanaryEntries <= Canary.positions
            /\ Canary.capital > 0 =>
                 CanaryLoad * CapitalPct <= Canary.capital * 100
      BY DEF SafetyInv, CanaryWithin
    <2>10. Canary.enabled => Cardinality(CanaryOpen \ Ungated) <= Canary.positions
      BY <2>1, <2>3, <2>9 DEF LoadTyped, AskedCanary
    <2>11. Canary.enabled /\ Canary.capital > 0 =>
             spent * CapitalPct <= Canary.capital * 100
      BY <2>3, <2>7, <2>8, <2>9
    <2>12. CanaryHolds
      BY <2>5, <2>10, <2>11 DEF CanaryHolds
    <2>. QED  BY <2>4, <2>12
  <1>. QED  BY <1>1, SafetyInvariance, PTL

\* However many lanes race past the gate, the exposure they build up passes
\* the limit by at most one proposal of the largest size for every lane but
\* one, beside what was opened, queued or booked without asking (the check of
\* assert_execution_open_allowed and the write are two transactions).
THEOREM OvershootCorrect == Spec => []OvershootBounded
  <1>1. SafetyInv => OvershootBounded
    <2>. SUFFICES ASSUME SafetyInv, ~lowered, config.exposure > 0
                  PROVE  Exposure <= config.exposure + Unasked
                                       + (Cardinality(Lanes) - 1) * MaxSize
      BY DEF OvershootBounded
    <2>. DEFINE X == (Cardinality(Lanes) - 1) * MaxSize
    <2>1. X \in Int
      <3>1. Cardinality(Lanes) \in Nat /\ MaxSize \in Nat
        BY SafetyConstants, FS_CardinalityType
      <3>. QED  BY <3>1
    <2>2. Load <= config.exposure + X
      BY DEF SafetyInv, LoadBounded
    <2>3. config.exposure \in Nat
      BY DEF SafetyInv, TypeOK
    <2>. HIDE DEF X
    <2>4. Exposure <= config.exposure + Unasked + X
      BY <2>1, <2>2, <2>3, LoadTypes, ExposureSplits DEF LoadTyped
    <2>. QED  BY <2>4 DEF X
  <1>. QED  BY <1>1, SafetyInvariance, PTL

\* Of what the gate lets through, each lane executes after trading was switched
\* off at most the intent it was already let through with, and nothing more
\* (the worker asks again before it places an order).
THEOREM KillSwitchCorrect == Spec => []KillSwitchDrains
  <1>1. SafetyInv => KillSwitchDrains
    <2>. SUFFICES ASSUME SafetyInv PROVE KillSwitchDrains
      OBVIOUS
    <2>1. /\ Cardinality(LanesAt(lane, Executing)) \in Nat
          /\ Cardinality(Lanes) \in Nat
      BY SafetyConstants, FS_Subset, FS_CardinalityType DEF LanesAt
    <2>2. leaked \in Nat
      BY DEF SafetyInv, TypeOK
    <2>3. CASE config.trading_enabled
      BY <2>1, <2>3 DEF SafetyInv, Drains, KillSwitchDrains
    <2>4. CASE ~config.trading_enabled
      BY <2>1, <2>2, <2>4 DEF SafetyInv, Drains, KillSwitchDrains
    <2>. QED  BY <2>3, <2>4
  <1>. QED  BY <1>1, SafetyInvariance, PTL
=============================================================================
