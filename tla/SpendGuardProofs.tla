-------------------------- MODULE SpendGuardProofs --------------------------
(***************************************************************************)
(* What holds of SpendGuard for every set of reservations, every cap, every *)
(* TTL and every clock: types, the daily cap and the confirmed spends      *)
(* across restarts, the breaker.                                           *)
(***************************************************************************)
EXTENDS SpendGuard, FiniteSetTheorems, TLAPS

\* The assumptions on the constants, under one name.
Assumptions ==
  /\ IsFiniteSet(Res)
  /\ MaxAmount \in Nat /\ \A r \in Res : Amount[r] \in 0..MaxAmount
  /\ MaxSingleTx \in Nat /\ Cap \in Nat
  /\ {TTL, Window, Cooldown, FailWindow, MaxTime} \subseteq Nat
  /\ MaxFailures \in Nat \ {0}
  /\ PinWithin \in Nat

\* The assumptions on the constants, as one fact to cite.
LEMMA ConstantsOK == Assumptions
BY ResAssumption, AmountAssumption, LimitAssumption, TimeAssumption,
   PinAssumption DEF Assumptions

-----------------------------------------------------------------------------
(***************************************************************************)
(* Total, the sum over a set of reservations.                              *)
(***************************************************************************)

\* Every set of reservations has finitely many units.
LEMMA UnitsFinite ==
  ASSUME NEW S \in SUBSET Res
  PROVE  IsFiniteSet(Units(S)) /\ Total(S) \in Nat
<1>1. IsFiniteSet(S)
  BY FS_Subset, ConstantsOK DEF Assumptions
<1>2. IsFiniteSet(1..MaxAmount)
  BY FS_Interval, ConstantsOK DEF Assumptions
<1>3. IsFiniteSet(S \X (1..MaxAmount))
  BY <1>1, <1>2, FS_Product
<1>4. Units(S) \in SUBSET (S \X (1..MaxAmount))
  BY DEF Units
<1>5. IsFiniteSet(Units(S))
  BY <1>3, <1>4, FS_Subset
<1> QED
  BY <1>5, FS_CardinalityType DEF Total

\* The sum over a subset is no larger.
LEMMA TotalMonotone ==
  ASSUME NEW T \in SUBSET Res, NEW S \in SUBSET T
  PROVE  Total(S) <= Total(T)
<1>1. Units(S) \in SUBSET Units(T)
  BY DEF Units
<1> QED
  BY <1>1, UnitsFinite, FS_Subset DEF Total

\* The sum over a union is at most the sum of the sums.
LEMMA TotalUnion ==
  ASSUME NEW S \in SUBSET Res, NEW T \in SUBSET Res
  PROVE  Total(S \cup T) <= Total(S) + Total(T)
<1>1. Units(S \cup T) = Units(S) \cup Units(T)
  BY DEF Units
<1>2. IsFiniteSet(Units(S)) /\ IsFiniteSet(Units(T))
  BY UnitsFinite
<1>3. Cardinality(Units(S) \cap Units(T)) \in Nat
  BY <1>2, FS_Intersection, FS_CardinalityType
<1>4. Cardinality(Units(S)) \in Nat /\ Cardinality(Units(T)) \in Nat
  BY <1>2, FS_CardinalityType
<1>5. Cardinality(Units(S) \cup Units(T)) =
        Cardinality(Units(S)) + Cardinality(Units(T))
          - Cardinality(Units(S) \cap Units(T))
  BY <1>2, FS_Union
<1>6. Cardinality(Units(S) \cup Units(T)) <= Cardinality(Units(S)) + Cardinality(Units(T))
  BY <1>3, <1>4, <1>5
<1>7. Total(S \cup T) = Cardinality(Units(S) \cup Units(T))
  BY <1>1 DEF Total
<1> QED
  BY <1>6, <1>7 DEF Total

\* An interval from 1 has as many members as its end says.
LEMMA IntervalSize ==
  ASSUME NEW n \in Nat
  PROVE  IsFiniteSet(1..n) /\ Cardinality(1..n) = n
<1>1. IsFiniteSet(1..n)
  BY FS_Interval
<1>2. Cardinality(1..n) = n
  BY FS_Interval
<1> QED
  BY <1>1, <1>2

\* The product with a singleton has as many members as the other factor.
LEMMA RowSize ==
  ASSUME NEW r, NEW n \in Nat
  PROVE  Cardinality({r} \X (1..n)) = n
<1>1. IsFiniteSet({r}) /\ Cardinality({r}) = 1
  BY FS_Singleton
<1>2. Cardinality({r} \X (1..n)) = Cardinality({r}) * Cardinality(1..n)
  BY <1>1, IntervalSize, FS_Product
<1> QED
  BY <1>1, <1>2, IntervalSize

\* The sum over one reservation is its amount.
LEMMA TotalSingleton ==
  ASSUME NEW r \in Res
  PROVE  Total({r}) = Amount[r]
<1>1. Amount[r] \in 0..MaxAmount /\ MaxAmount \in Nat
  BY ConstantsOK DEF Assumptions
<1>2. Units({r}) = {r} \X (1..Amount[r])
  <2>1. ASSUME NEW u \in Units({r})
        PROVE  u \in {r} \X (1..Amount[r])
    BY <1>1, <2>1 DEF Units
  <2>2. ASSUME NEW u \in {r} \X (1..Amount[r])
        PROVE  u \in Units({r})
    BY <1>1, <2>2 DEF Units
  <2> QED
    BY <2>1, <2>2
<1>3. Amount[r] \in Nat
  BY <1>1
<1> QED
  BY <1>2, <1>3, RowSize DEF Total

-----------------------------------------------------------------------------
(***************************************************************************)
(* Types.                                                                  *)
(***************************************************************************)

\* What a replay makes of well-typed memory is well typed.
LEMMA SeedTypes ==
  ASSUME TypeOK, NEW c \in Copy
  PROVE  /\ SeedSpent(c) \in SUBSET Res
         /\ InWindow(SeedSpent(c)) \in SUBSET Res
         /\ SeedHeld(c) \in [Res -> {"none", "held", "pinned"}]
         /\ Pruned(SeedHeld(c)) \in [Res -> {"none", "held", "pinned"}]
         /\ SeedTrip(c) \in Nat
<1>1. SeedSpent(c) \in SUBSET Res
  BY DEF TypeOK, SeedSpent, Copy
<1>2. InWindow(SeedSpent(c)) \in SUBSET Res
  BY <1>1 DEF InWindow
<1>3. SeedHeld(c) \in [Res -> {"none", "held", "pinned"}]
  BY DEF TypeOK, SeedHeld, Copy
<1>4. Pruned(SeedHeld(c)) \in [Res -> {"none", "held", "pinned"}]
  BY <1>3 DEF Pruned
<1>5. SeedTrip(c) \in Nat
  BY DEF TypeOK, SeedTrip, Copy
<1> QED
  BY <1>1, <1>2, <1>3, <1>4, <1>5

\* What is read of a well-typed ledger is well typed.
LEMMA CopyTypes ==
  ASSUME TypeOK
  PROVE  LedgerCopy \in Copy /\ Reads \in SUBSET Copy
<1>1. LedgerSpends \in SUBSET Res
  BY DEF LedgerSpends
<1>2. [r \in Res |-> IF ~Unresolved(r) THEN "none"
                     ELSE IF "PIN" \in ledger[r] THEN "pinned" ELSE "held"]
        \in [Res -> {"none", "held", "pinned"}]
  OBVIOUS
<1>3. (IF lastTrip > lastReset THEN lastTrip ELSE Never) \in Nat
  BY DEF TypeOK, Never
<1>4. LedgerCopy \in Copy
  BY <1>1, <1>2, <1>3 DEF LedgerCopy, Copy
<1>5. EmptyCopy \in Copy
  BY DEF EmptyCopy, Copy, Never
<1> QED
  BY <1>4, <1>5 DEF Reads

\* The totals the guard compares with its limits are numbers, whatever is in
\* its memory (get_daily_spent, get_pending_reservations_total).
LEMMA EffectiveNat ==
  ASSUME NEW s \in SUBSET Res, NEW h
  PROVE  /\ Total(InWindow(s)) \in Nat
         /\ Total(Active(h)) \in Nat
         /\ EffectiveOf(s, h) \in Nat
<1>1. InWindow(s) \in SUBSET Res /\ Active(h) \in SUBSET Res
  BY DEF InWindow, Active
<1>2. Total(InWindow(s)) \in Nat /\ Total(Active(h)) \in Nat
  BY <1>1, UnitsFinite
<1> QED
  BY <1>2 DEF EffectiveOf

\* A new process, with an empty ledger, is well typed.
LEMMA InitTypeOK == Init => TypeOK
<1> SUFFICES ASSUME Init
             PROVE  TypeOK
  OBVIOUS
<1>1. now \in Nat /\ trippedAt \in Nat /\ lastTrip \in Nat /\ lastReset \in Nat
  BY DEF Init, Never
<1>2. /\ seeded \in BOOLEAN /\ spent \in SUBSET Res /\ failures \in SUBSET Nat
      /\ reading \in SUBSET Copy /\ overtaken \in SUBSET Res
  BY DEF Init, ProtocolInit, Outcomes
<1>3. held \in [Res -> {"none", "held", "pinned"}]
  BY DEF Init, ProtocolInit, Outcomes
<1>4. ledger \in [Res -> SUBSET {"RESERVE", "PIN", "SPEND", "RELEASE"}]
  BY DEF Init, ProtocolInit, Outcomes
<1>5. reservedAt \in [Res -> Nat] /\ spentAt \in [Res -> Nat]
  BY DEF Init, ProtocolInit, Outcomes
<1>6. outcome \in [Res -> Outcomes]
  BY DEF Init, ProtocolInit, Outcomes
<1> QED
  BY <1>1, <1>2, <1>3, <1>4, <1>5, <1>6 DEF TypeOK, Outcomes

\* Every operation of the guard, and a restart, keeps its memory and ledger well
\* typed.
LEMMA NextTypeOK == TypeOK /\ [Next]_vars => TypeOK'
<1> SUFFICES ASSUME TypeOK, [Next]_vars
             PROVE  TypeOK'
  OBVIOUS
<1>1. ASSUME NEW r \in Res, Reserve(r)
      PROVE  TypeOK'
  <2>1. PICK c \in Copy :
          /\ spent' = InWindow(SeedSpent(c))
          /\ held' = [Pruned(SeedHeld(c)) EXCEPT ![r] = "held"]
          /\ CooledDown(SeedTrip(c))
    BY <1>1, CopyTypes DEF Reserve
  <2>2. trippedAt' \in Nat /\ failures' \in SUBSET Nat
    BY <2>1, SeedTypes DEF CooledDown, TypeOK, Outcomes, Never
  <2>3. ledger' \in [Res -> SUBSET {"RESERVE", "PIN", "SPEND", "RELEASE"}]
    BY <1>1 DEF Reserve, Persist, TypeOK, Outcomes
  <2> QED
    BY <1>1, <2>1, <2>2, <2>3, SeedTypes DEF Reserve, Reloaded, Made, Moves, TypeOK, Outcomes
<1>2. ASSUME NEW r \in Res, RefuseReserve(r)
      PROVE  TypeOK'
  <2>1. PICK c \in Copy :
          /\ spent' \in {SeedSpent(c), InWindow(SeedSpent(c))}
          /\ held' \in {SeedHeld(c), Pruned(SeedHeld(c))}
          /\ CooledDown(SeedTrip(c))
    BY <1>2, CopyTypes DEF RefuseReserve
  <2>2. trippedAt' \in Nat /\ failures' \in SUBSET Nat
    BY <2>1, SeedTypes DEF CooledDown, TypeOK, Outcomes, Never
  <2> QED
    BY <1>2, <2>1, <2>2, SeedTypes DEF RefuseReserve, Reloaded, TypeOK, Outcomes, durable
<1>3. ASSUME NEW r \in Res, Pin(r)
      PROVE  TypeOK'
  BY <1>3 DEF Pin, Pinned, Moves, PinReservation, Persist, TypeOK, Outcomes, reads
<1>4. ASSUME NEW r \in Res, Commit(r)
      PROVE  TypeOK'
  <2>1. outcome' = [outcome EXCEPT ![r] = "committed"]
    BY <1>4 DEF Commit, Committed, Moves, CommitSpend
  <2>2. outcome' \in [Res -> Outcomes]
    BY <2>1 DEF TypeOK, Outcomes
  <2>3. CASE held[r] = "none"
    BY <1>4, <2>2, <2>3 DEF Commit, Committed, Moves, CommitSpend, TypeOK, Outcomes, memory
  <2>4. CASE held[r] # "none"
    <3>1. /\ held' = [held EXCEPT ![r] = "none"]
          /\ spentAt' = [spentAt EXCEPT ![r] = now]
          /\ Persist(r, "SPEND")
      BY <1>4, <2>4 DEF Commit, Committed, Moves, CommitSpend
    <3>2. ledger' \in [Res -> SUBSET {"RESERVE", "PIN", "SPEND", "RELEASE"}]
      BY <3>1 DEF Persist, TypeOK, Outcomes
    <3>3. held' \in [Res -> {"none", "held", "pinned"}] /\ spentAt' \in [Res -> Nat]
      BY <3>1 DEF TypeOK, Outcomes
    <3>4. /\ spent' \in SUBSET Res /\ failures' \in SUBSET Nat
          /\ overtaken' \in SUBSET Res /\ reading' = reading
          /\ UNCHANGED <<now, seeded, trippedAt, reservedAt, lastTrip, lastReset>>
      BY <1>4, <2>4 DEF Commit, Committed, Moves, CommitSpend, TypeOK, Outcomes
    <3> QED
      BY <2>2, <3>2, <3>3, <3>4 DEF TypeOK, Outcomes
  <2> QED
    BY <2>3, <2>4
<1>5. ASSUME NEW r \in Res, Release(r)
      PROVE  TypeOK'
  <2>1. outcome' = [outcome EXCEPT ![r] = "released"]
    BY <1>5 DEF Release, Released, Moves, ReleaseSpend
  <2>2. outcome' \in [Res -> Outcomes]
    BY <2>1 DEF TypeOK, Outcomes
  <2>3. CASE held[r] = "none"
    BY <1>5, <2>2, <2>3 DEF Release, Released, Moves, ReleaseSpend, TypeOK, Outcomes, memory, reads
  <2>4. CASE held[r] # "none"
    <3>1. held' = [held EXCEPT ![r] = "none"] /\ Persist(r, "RELEASE")
      BY <1>5, <2>4 DEF Release, Released, Moves, ReleaseSpend
    <3>2. ledger' \in [Res -> SUBSET {"RESERVE", "PIN", "SPEND", "RELEASE"}]
      BY <3>1 DEF Persist, TypeOK, Outcomes
    <3> QED
      BY <1>5, <2>2, <2>4, <3>1, <3>2
      DEF Release, Released, Moves, ReleaseSpend, TypeOK, Outcomes, reads
  <2> QED
    BY <2>3, <2>4
<1>6. CASE Prune
  BY <1>6 DEF Prune, Pruned, TypeOK, Outcomes, durable, reads
<1>7. CASE BreakerEvent
  <2>1. CASE RecordFailure
    BY <2>1 DEF RecordFailure, RecentFailures, PersistTrip, TypeOK, Outcomes, reads
  <2>2. CASE TripCircuitBreaker
    BY <2>2 DEF TripCircuitBreaker, PersistTrip, TypeOK, Outcomes, reads
  <2>3. CASE ResetCircuitBreaker
    BY <2>3 DEF ResetCircuitBreaker, TypeOK, Outcomes, Never, reads
  <2> QED
    BY <1>7, <2>1, <2>2, <2>3 DEF BreakerEvent
<1>8. CASE StartSeeding \/ FinishSeeding \/ CanSpend
  <2>1. CASE StartSeeding
    BY <2>1, CopyTypes DEF StartSeeding, TypeOK, Outcomes, durable
  <2>2. CASE FinishSeeding \/ CanSpend
    <3>1. PICK s \in SUBSET Res, h \in [Res -> {"none", "held", "pinned"}], t \in Nat :
            Counted(s, h, t)
      <4>1. CASE FinishSeeding
        <5>1. PICK c \in reading : Counted(SeedSpent(c), SeedHeld(c), SeedTrip(c))
          BY <4>1 DEF FinishSeeding
        <5>2. c \in Copy
          BY DEF TypeOK
        <5> QED
          BY <5>1, <5>2, SeedTypes
      <4>2. CASE CanSpend
        BY <4>2 DEF CanSpend, TypeOK
      <4> QED
        BY <2>2, <4>1, <4>2
    <3>2. InWindow(s) \in SUBSET Res /\ Pruned(h) \in [Res -> {"none", "held", "pinned"}]
      BY DEF InWindow, Pruned
    <3>3. spent' \in SUBSET Res /\ held' \in [Res -> {"none", "held", "pinned"}]
      BY <3>1, <3>2 DEF Counted
    <3>4. trippedAt' \in Nat /\ failures' \in SUBSET Nat
      BY <3>1 DEF Counted, CooledDown, TypeOK, Never
    <3>5. /\ seeded' \in BOOLEAN /\ reading' \in SUBSET reading
          /\ UNCHANGED <<now, overtaken, ledger, reservedAt, spentAt, lastTrip, lastReset, outcome>>
      BY <2>2 DEF FinishSeeding, CanSpend, TypeOK, reads, durable
    <3> QED
      BY <3>3, <3>4, <3>5 DEF TypeOK
  <2> QED
    BY <1>8, <2>1, <2>2
<1>9. CASE Restart
  BY <1>9 DEF Restart, Forgotten, TypeOK, Outcomes, Never, durable
<1>10. CASE Tick
  BY <1>10 DEF Tick, TypeOK, Outcomes, memory, durable, reads
<1>11. CASE UNCHANGED vars
  BY <1>11 DEF vars, memory, durable, reads, TypeOK, Outcomes
<1> QED
  BY <1>1, <1>2, <1>3, <1>4, <1>5, <1>6, <1>7, <1>8, <1>9, <1>10, <1>11
  DEF Next

\* Every reachable state is well typed.
THEOREM TypeCorrect == Spec => []TypeOK
BY InitTypeOK, NextTypeOK, PTL DEF Spec

-----------------------------------------------------------------------------
(***************************************************************************)
(* The daily cap, across restarts, lost SPEND and RELEASE writes and       *)
(* commits that find nothing to commit.  The inductive invariant says that *)
(* the ledger still tells what a replay needs; the cap then follows, for   *)
(* reserve_spend compares against a replay of it.                          *)
(***************************************************************************)

\* The ledger against what the callers have been told: a reservation that was
\* made is in it, one that may have been broadcast is pinned in it, and none is
\* resolved in it before its caller resolved it.
LedgerTells ==
  \A r \in Res :
    /\ outcome[r] = "unused" => ledger[r] = {}
    /\ outcome[r] # "unused" => "RESERVE" \in ledger[r]
    /\ outcome[r] \in {"pinned", "committed"} => "PIN" \in ledger[r]
    /\ "RELEASE" \in ledger[r] => outcome[r] = "released"
    /\ "SPEND" \in ledger[r] => spentAt[r] >= reservedAt[r]
    /\ reservedAt[r] <= now

\* The reservations at risk.
Risks == {r \in Res : AtRisk(r)}

\* The conditions under which the cap is kept: callers pin while the
\* reservation counts, and neither the events that say a reservation exists nor
\* the reading of the ledger fail.
Reliable ==
  /\ PinWithin <= TTL
  /\ {"RESERVE", "PIN", "READ"} \cap Losable = {}

\* LedgerTells holds at first: no reservation has been made.
LEMMA InitLedgerTells == Init => LedgerTells
BY DEF Init, ProtocolInit, LedgerTells

\* No operation makes the ledger forget what has become of a reservation, as
\* long as the writes of reservations and pins succeed.
LEMMA NextLedgerTells ==
  ASSUME Reliable, TypeOK, LedgerTells, [Next]_vars
  PROVE  LedgerTells'
<1>1. ASSUME NEW r \in Res, Reserve(r)
      PROVE  LedgerTells'
  <2>1. ledger' = [ledger EXCEPT ![r] = @ \cup {"RESERVE"}]
    BY <1>1 DEF Reserve, Persist, Reliable
  <2>2. /\ reservedAt' = [reservedAt EXCEPT ![r] = now]
        /\ outcome' = [outcome EXCEPT ![r] = "open"]
        /\ now' = now /\ spentAt' = spentAt /\ outcome[r] = "unused"
    BY <1>1 DEF Reserve, Made, Moves
  <2>3. ledger[r] = {}
    BY <2>2 DEF LedgerTells
  <2> QED
    BY <2>1, <2>2, <2>3 DEF LedgerTells, TypeOK, Outcomes
<1>2. ASSUME NEW r \in Res, RefuseReserve(r)
      PROVE  LedgerTells'
  BY <1>2 DEF RefuseReserve, durable, LedgerTells
<1>3. ASSUME NEW r \in Res, Pin(r)
      PROVE  LedgerTells'
  <2>1. ledger' = [ledger EXCEPT ![r] = @ \cup {"PIN"}]
    BY <1>3 DEF Pin, Pinned, Moves, PinReservation, Persist, Reliable
  <2>2. /\ outcome' = [outcome EXCEPT ![r] = "pinned"] /\ outcome[r] = "open"
        /\ UNCHANGED <<now, reservedAt, spentAt>>
    BY <1>3 DEF Pin, Pinned, Moves, PinReservation
  <2> QED
    BY <2>1, <2>2 DEF LedgerTells, TypeOK, Outcomes
<1>4. ASSUME NEW r \in Res, Commit(r)
      PROVE  LedgerTells'
  <2>1. /\ outcome' = [outcome EXCEPT ![r] = "committed"]
        /\ outcome[r] \in {"pinned", "committed"}
        /\ UNCHANGED <<now, reservedAt>>
    BY <1>4 DEF Commit, Committed, Moves, CommitSpend
  <2>2. \/ ledger' = [ledger EXCEPT ![r] = @ \cup {"SPEND"}]
        \/ ledger' = ledger
    BY <1>4 DEF Commit, Committed, Moves, CommitSpend, Persist
  <2>3. \/ spentAt' = [spentAt EXCEPT ![r] = now]
        \/ spentAt' = spentAt /\ ledger' = ledger
    BY <1>4 DEF Commit, Committed, Moves, CommitSpend
  <2>4. "RESERVE" \in ledger[r] /\ "PIN" \in ledger[r] /\ "RELEASE" \notin ledger[r]
    BY <2>1 DEF LedgerTells
  <2>5. now \in Nat /\ reservedAt[r] <= now /\ spentAt'[r] \in {now, spentAt[r]}
    BY <2>3 DEF LedgerTells, TypeOK, Outcomes
  <2>6. ASSUME NEW q \in Res, q # r
        PROVE  /\ outcome'[q] = outcome[q] /\ ledger'[q] = ledger[q]
               /\ spentAt'[q] = spentAt[q]
    BY <2>1, <2>2, <2>3, <2>6 DEF TypeOK, Outcomes
  <2>7. outcome'[r] = "committed" /\ ledger'[r] \in {ledger[r], ledger[r] \cup {"SPEND"}}
    BY <2>1, <2>2 DEF TypeOK, Outcomes
  <2>8. "SPEND" \in ledger'[r] => spentAt'[r] >= reservedAt[r]
    BY <2>2, <2>3, <2>5 DEF LedgerTells, TypeOK, Outcomes
  <2>9. ASSUME NEW q \in Res
        PROVE  /\ outcome'[q] = "unused" => ledger'[q] = {}
               /\ outcome'[q] # "unused" => "RESERVE" \in ledger'[q]
               /\ outcome'[q] \in {"pinned", "committed"} => "PIN" \in ledger'[q]
               /\ "RELEASE" \in ledger'[q] => outcome'[q] = "released"
               /\ "SPEND" \in ledger'[q] => spentAt'[q] >= reservedAt[q]
               /\ reservedAt[q] <= now
    <3>1. CASE q = r
      BY <2>4, <2>5, <2>7, <2>8, <3>1
    <3>2. CASE q # r
      BY <2>6, <3>2 DEF LedgerTells
    <3> QED
      BY <3>1, <3>2
  <2> QED
    BY <2>1, <2>9 DEF LedgerTells
<1>5. ASSUME NEW r \in Res, Release(r)
      PROVE  LedgerTells'
  <2>1. /\ outcome' = [outcome EXCEPT ![r] = "released"]
        /\ outcome[r] # "unused"
        /\ UNCHANGED <<now, reservedAt, spentAt>>
    BY <1>5 DEF Release, Released, Moves, ReleaseSpend
  <2>2. \/ ledger' = [ledger EXCEPT ![r] = @ \cup {"RELEASE"}]
        \/ ledger' = ledger
    BY <1>5 DEF Release, Released, Moves, ReleaseSpend, Persist
  <2> QED
    BY <2>1, <2>2 DEF LedgerTells, TypeOK, Outcomes
<1>6. CASE Prune \/ StartSeeding \/ FinishSeeding \/ CanSpend
  BY <1>6 DEF Prune, StartSeeding, FinishSeeding, CanSpend, durable, LedgerTells
<1>7. CASE BreakerEvent
  <2>1. UNCHANGED <<now, ledger, reservedAt, spentAt, outcome>>
    BY <1>7 DEF BreakerEvent, RecordFailure, TripCircuitBreaker, ResetCircuitBreaker
  <2> QED
    BY <2>1 DEF LedgerTells
<1>8. CASE Restart
  BY <1>8 DEF Restart, Forgotten, durable, LedgerTells, TypeOK, Outcomes
<1>9. CASE Tick
  BY <1>9 DEF Tick, durable, LedgerTells, TypeOK, Outcomes
<1>10. CASE UNCHANGED vars
  BY <1>10 DEF vars, durable, LedgerTells
<1> QED
  BY <1>1, <1>2, <1>3, <1>4, <1>5, <1>6, <1>7, <1>8, <1>9, <1>10 DEF Next

\* What reserve_spend counts includes every reservation at risk.
LEMMA ReplayCovers ==
  ASSUME TypeOK, LedgerTells, NEW q \in Res, AtRisk(q)
  PROVE  q \in InWindow(SeedSpent(LedgerCopy)) \cup Active(SeedHeld(LedgerCopy))
<1>1. /\ "RESERVE" \in ledger[q] /\ "RELEASE" \notin ledger[q]
      /\ reservedAt[q] + Window >= now
  BY DEF LedgerTells, AtRisk
<1>2. CASE "SPEND" \in ledger[q]
  <2>1. spentAt[q] >= reservedAt[q]
    BY <1>2 DEF LedgerTells
  <2>2. q \in LedgerSpends
    BY <1>1, <1>2, <2>1, ConstantsOK DEF LedgerSpends, Assumptions, TypeOK, Outcomes
  <2>3. q \in SeedSpent(LedgerCopy)
    BY <2>2 DEF SeedSpent, LedgerCopy
  <2> QED
    BY <2>2, <2>3 DEF InWindow, LedgerSpends
<1>3. CASE "SPEND" \notin ledger[q]
  <2>1. Unresolved(q)
    <3>1. ledger[q] \cap {"SPEND", "RELEASE"} = {}
      BY <1>1, <1>3
    <3> QED
      BY <1>1, <3>1 DEF Unresolved
  <2>2. LedgerCopy.open[q] = IF "PIN" \in ledger[q] THEN "pinned" ELSE "held"
    BY <2>1 DEF LedgerCopy
  <2>3. q \in Active(LedgerCopy.open)
    <3>1. "PIN" \in ledger[q] \/ Unexpired(q)
      BY DEF AtRisk, LedgerTells
    <3> QED
      BY <2>2, <3>1 DEF Active
  <2>4. SeedHeld(LedgerCopy)[q] = LedgerCopy.open[q]
    BY <2>3 DEF SeedHeld
  <2> QED
    BY <2>3, <2>4 DEF Active
<1> QED
  BY <1>2, <1>3

\* Only reserve_spend puts a reservation at risk.
LEMMA OthersOnlyLower ==
  ASSUME Reliable, TypeOK, [Next]_vars, ~(\E r \in Res : Reserve(r))
  PROVE  Risks' \in SUBSET Risks
<1> SUFFICES ASSUME NEW q \in Res, AtRisk(q)'
             PROVE  AtRisk(q)
  BY DEF Risks
<1>1. ASSUME NEW r \in Res, RefuseReserve(r)
      PROVE  AtRisk(q)
  BY <1>1 DEF RefuseReserve, durable, AtRisk, Unexpired
<1>2. ASSUME NEW r \in Res, Pin(r)
      PROVE  AtRisk(q)
  <2>1. /\ outcome' = [outcome EXCEPT ![r] = "pinned"] /\ outcome[r] = "open"
        /\ now < reservedAt[r] + PinWithin
        /\ UNCHANGED <<now, reservedAt>>
    BY <1>2 DEF Pin, Pinned, Moves, PinReservation
  <2>2. Unexpired(r)
    BY <2>1, ConstantsOK DEF Unexpired, Reliable, Assumptions, TypeOK, Outcomes
  <2> QED
    BY <2>1, <2>2 DEF AtRisk, Unexpired, TypeOK, Outcomes
<1>3. ASSUME NEW r \in Res, Commit(r)
      PROVE  AtRisk(q)
  <2>1. /\ outcome' = [outcome EXCEPT ![r] = "committed"]
        /\ outcome[r] \in {"pinned", "committed"}
        /\ UNCHANGED <<now, reservedAt>>
    BY <1>3 DEF Commit, Committed, Moves, CommitSpend
  <2> QED
    BY <2>1 DEF AtRisk, Unexpired, TypeOK, Outcomes
<1>4. ASSUME NEW r \in Res, Release(r)
      PROVE  AtRisk(q)
  <2>1. /\ outcome' = [outcome EXCEPT ![r] = "released"]
        /\ UNCHANGED <<now, reservedAt>>
    BY <1>4 DEF Release, Released, Moves, ReleaseSpend
  <2> QED
    BY <2>1 DEF AtRisk, Unexpired, TypeOK, Outcomes
<1>5. CASE Prune \/ StartSeeding \/ FinishSeeding \/ CanSpend
  BY <1>5 DEF Prune, StartSeeding, FinishSeeding, CanSpend, durable, AtRisk, Unexpired
<1>6. CASE BreakerEvent
  <2>1. UNCHANGED <<now, reservedAt, outcome>>
    BY <1>6 DEF BreakerEvent, RecordFailure, TripCircuitBreaker, ResetCircuitBreaker
  <2> QED
    BY <2>1 DEF AtRisk, Unexpired
<1>7. CASE Restart
  BY <1>7 DEF Restart, Forgotten, durable, AtRisk, Unexpired, TypeOK, Outcomes
<1>8. CASE Tick
  <2>1. now' = now + 1 /\ UNCHANGED <<reservedAt, outcome>>
    BY <1>8 DEF Tick, durable
  <2> QED
    BY <2>1, ConstantsOK DEF AtRisk, Unexpired, TypeOK, Outcomes, Assumptions
<1>9. CASE UNCHANGED vars
  BY <1>9 DEF vars, durable, AtRisk, Unexpired
<1> QED
  BY <1>1, <1>2, <1>3, <1>4, <1>5, <1>6, <1>7, <1>8, <1>9 DEF Next

\* A reservation that is let through leaves the reservations at risk within
\* the cap.
LEMMA ReserveKeepsCap ==
  ASSUME Reliable, TypeOK, LedgerTells, NEW r \in Res, Reserve(r)
  PROVE  Total(Risks') <= Cap
<1> DEFINE S == InWindow(SeedSpent(LedgerCopy))
<1> DEFINE H == Active(SeedHeld(LedgerCopy))
<1>1. Reads = {LedgerCopy}
  BY DEF Reads, Reliable
<1>2. EffectiveOf(SeedSpent(LedgerCopy), SeedHeld(LedgerCopy)) + Amount[r] <= Cap
  BY <1>1 DEF Reserve, Allowed
<1>3. S \in SUBSET Res /\ H \in SUBSET Res
  BY SeedTypes, CopyTypes DEF Active
<1>4. Risks' \in SUBSET (S \cup H \cup {r})
  <2>1. ASSUME NEW q \in Res, AtRisk(q)', q # r
        PROVE  AtRisk(q)
    BY <2>1 DEF Reserve, Made, Moves, AtRisk, Unexpired, TypeOK, Outcomes
  <2> QED
    BY <2>1, ReplayCovers DEF Risks
<1>5. Total(Risks') <= Total(S \cup H \cup {r})
  BY <1>3, <1>4, TotalMonotone
<1>6. Total(S \cup H \cup {r}) <= Total(S \cup H) + Total({r})
  BY <1>3, TotalUnion
<1>7. Total(S \cup H) <= Total(S) + Total(H)
  BY <1>3, TotalUnion
<1>8. Total({r}) = Amount[r]
  BY TotalSingleton
<1>9. Total(S) + Total(H) + Amount[r] <= Cap
  BY <1>2 DEF EffectiveOf
<1>10. /\ Total(S) \in Nat /\ Total(H) \in Nat /\ Total(S \cup H) \in Nat
       /\ Total(S \cup H \cup {r}) \in Nat /\ Total(Risks') \in Nat
       /\ Amount[r] \in Nat /\ Cap \in Nat
  <2>1. Risks' \in SUBSET Res
    BY <1>3, <1>4
  <2>2. \A T \in SUBSET Res : Total(T) \in Nat
    BY UnitsFinite
  <2>3. Amount[r] \in Nat /\ Cap \in Nat
    BY ConstantsOK DEF Assumptions
  <2>4. S \cup H \in SUBSET Res /\ S \cup H \cup {r} \in SUBSET Res
    BY <1>3
  <2> HIDE DEF S, H
  <2> QED
    BY <1>3, <2>1, <2>2, <2>3, <2>4
<1> HIDE DEF S, H
<1> QED
  BY <1>5, <1>6, <1>7, <1>8, <1>9, <1>10

\* No step takes what is at risk above the cap: a reservation is checked
\* against it, and every other step only lowers what is at risk.
LEMMA NextCap ==
  ASSUME Reliable, TypeOK, LedgerTells, Total(Risks) <= Cap, [Next]_vars
  PROVE  Total(Risks') <= Cap
<1>1. CASE \E r \in Res : Reserve(r)
  BY <1>1, ReserveKeepsCap
<1>2. CASE ~(\E r \in Res : Reserve(r))
  <2>1. Risks' \in SUBSET Risks /\ Risks \in SUBSET Res
    BY <1>2, OthersOnlyLower DEF Risks
  <2>2. Total(Risks') <= Total(Risks)
    BY <2>1, TotalMonotone
  <2>3. Total(Risks') \in Nat /\ Total(Risks) \in Nat /\ Cap \in Nat
    BY <2>1, UnitsFinite, ConstantsOK DEF Assumptions
  <2> QED
    BY <2>2, <2>3
<1> QED
  BY <1>1, <1>2

\* Nothing is at risk at first.
LEMMA InitCap == Init => Total(Risks) <= Cap
<1> SUFFICES ASSUME Init
             PROVE  Total(Risks) <= Cap
  OBVIOUS
<1>1. Risks = {}
  BY DEF Init, ProtocolInit, Risks, AtRisk
<1>2. Units({}) = {}
  BY DEF Units
<1>3. Total(Risks) = 0
  BY <1>1, <1>2, FS_EmptySet DEF Total
<1> QED
  BY <1>3, ConstantsOK DEF Assumptions

\* What may be spent of the reservations of the last 24 h never exceeds the
\* daily cap, whatever crashes, whenever.
THEOREM DailyCap == Reliable => (Spec => []DailyCapHolds)
<1> SUFFICES ASSUME Reliable
             PROVE  Spec => []DailyCapHolds
  OBVIOUS
<1> DEFINE Inv == TypeOK /\ LedgerTells /\ Total(Risks) <= Cap
<1>1. Init => Inv
  BY InitTypeOK, InitLedgerTells, InitCap
<1>2. Inv /\ [Next]_vars => Inv'
  BY NextTypeOK, NextLedgerTells, NextCap
<1>3. Inv => DailyCapHolds
  BY DEF DailyCapHolds, Risks
<1> QED
  BY <1>1, <1>2, <1>3, PTL DEF Spec

\* A process that has just reserved holds every reservation at risk in memory.
THEOREM ReplayComplete == Reliable => (Spec => ReplayIsComplete)
<1> SUFFICES ASSUME Reliable
             PROVE  Spec => ReplayIsComplete
  OBVIOUS
<1> DEFINE Inv == TypeOK /\ LedgerTells
<1>1. Init => Inv
  BY InitTypeOK, InitLedgerTells
<1>2. Inv /\ [Next]_vars => Inv'
  BY NextTypeOK, NextLedgerTells
<1>3. Inv /\ [Next]_vars =>
        [(\E r \in Res : Reserve(r))
           => \A q \in Res : AtRisk(q)' => q \in spent' \/ held'[q] # "none"]_vars
  <2> SUFFICES ASSUME TypeOK, LedgerTells, NEW r \in Res, Reserve(r),
                      NEW q \in Res, AtRisk(q)'
               PROVE  q \in spent' \/ held'[q] # "none"
    OBVIOUS
  <2>1. /\ spent' = InWindow(SeedSpent(LedgerCopy))
        /\ held' = [Pruned(SeedHeld(LedgerCopy)) EXCEPT ![r] = "held"]
    BY DEF Reserve, Reads, Reliable
  <2>2. Pruned(SeedHeld(LedgerCopy)) \in [Res -> {"none", "held", "pinned"}]
    BY SeedTypes, CopyTypes
  <2>3. CASE q = r
    BY <2>1, <2>2, <2>3
  <2>4. CASE q # r
    <3>1. AtRisk(q)
      BY <2>4 DEF Reserve, Made, Moves, AtRisk, Unexpired, TypeOK, Outcomes
    <3>2. q \in InWindow(SeedSpent(LedgerCopy)) \/ q \in Active(SeedHeld(LedgerCopy))
      BY <3>1, ReplayCovers
    <3>3. q \in Active(SeedHeld(LedgerCopy)) => Pruned(SeedHeld(LedgerCopy))[q] # "none"
      BY DEF Pruned, Active
    <3> QED
      BY <2>1, <2>2, <2>4, <3>2, <3>3
  <2> QED
    BY <2>3, <2>4
<1> QED
  BY <1>1, <1>2, <1>3, PTL DEF Spec, ReplayIsComplete

\* A breaker that the ledger knows to be tripped admits no reservation, whether
\* or not the process that tripped it is still alive.
THEOREM BreakerRespected == "READ" \notin Losable => (Spec => BreakerHolds)
<1> SUFFICES ASSUME "READ" \notin Losable
             PROVE  Spec => BreakerHolds
  OBVIOUS
<1>1. TypeOK /\ [Next]_vars =>
        [(\E r \in Res : Reserve(r))
           => ~(lastTrip > lastReset /\ now - lastTrip < Cooldown)]_vars
  <2> SUFFICES ASSUME TypeOK, NEW r \in Res, Reserve(r),
                      lastTrip > lastReset, now - lastTrip < Cooldown
               PROVE  FALSE
    OBVIOUS
  <2>1. ~Tripped(SeedTrip(LedgerCopy))
    BY DEF Reserve, Reads, Allowed
  <2>2. LedgerCopy.trip = lastTrip
    BY DEF LedgerCopy
  <2>3. Tripped(lastTrip)
    BY DEF Tripped, TypeOK, Never
  <2> QED
    BY <2>1, <2>2, <2>3 DEF SeedTrip
<1> QED
  BY <1>1, InitTypeOK, NextTypeOK, PTL DEF Spec, BreakerHolds

-----------------------------------------------------------------------------
(***************************************************************************)
(* A confirmed spend counts for a day.                                     *)
(***************************************************************************)

\* A process that has not seen the ledger has done nothing with its memory: it
\* holds no reservation, so it can commit none, it has spent nothing, and no
\* read of it is out.
Unseeded ==
  ~seeded => spent = {} /\ overtaken = {} /\ reading = {} /\ \A r \in Res : held[r] = "none"

\* A copy of the ledger that is still out has every recorded spend that was not
\* recorded after it was read.
CopiesCount ==
  \A c \in reading : \A r \in Res :
    "SPEND" \in ledger[r] /\ spentAt[r] + Window >= now => r \in c.spends \cup overtaken

\* A process seeds its memory once, so one copy is out at most.
OneCopy == \A c, d \in reading : c = d

SpendInv == TypeOK /\ Unseeded /\ CopiesCount /\ OneCopy /\ SpendCountsForADay

\* Applying a copy that has the spends of the day, but for some, leaves the
\* memory with them, but for those.
LEMMA CopyIsApplied ==
  ASSUME NEW c, NEW S, NEW r \in Res, r \in c.spends \cup S, c.spends \in SUBSET Res,
         spentAt[r] + Window >= now
  PROVE  r \in InWindow(SeedSpent(c)) \cup S
BY DEF SeedSpent, InWindow

\* Every step keeps it.
LEMMA NextCounts == "READ" \notin Losable /\ SpendInv /\ [Next]_vars => SpendInv'
<1>. SUFFICES ASSUME "READ" \notin Losable, SpendInv, [Next]_vars
              PROVE  SpendInv'
  OBVIOUS
<1>1. TypeOK' /\ TypeOK
  BY NextTypeOK DEF SpendInv
<1>2. Reads = {LedgerCopy} /\ LedgerCopy.spends = LedgerSpends /\ LedgerSpends \in SUBSET Res
  BY DEF Reads, LedgerCopy, LedgerSpends
<1>3. ASSUME NEW q \in Res, Reserve(q) \/ RefuseReserve(q)
      PROVE  SpendInv'
  <2>1. /\ seeded' = TRUE /\ UNCHANGED <<now, spentAt, reading>>
        /\ overtaken' = IF reading = {} THEN {} ELSE overtaken
        /\ spent' \in {SeedSpent(LedgerCopy), InWindow(SeedSpent(LedgerCopy))}
        /\ \A r \in Res : "SPEND" \in ledger'[r] => "SPEND" \in ledger[r]
    <3>1. CASE Reserve(q)
      BY <1>1, <1>2, <3>1 DEF Reserve, Reloaded, Persist, TypeOK
    <3>2. CASE RefuseReserve(q)
      <4>1. PICK c \in Reads : spent' \in {SeedSpent(c), InWindow(SeedSpent(c))}
        BY <3>2 DEF RefuseReserve
      <4>. QED
        BY <1>2, <3>2, <4>1 DEF RefuseReserve, Reloaded, durable
    <3>. QED
      BY <1>3, <3>1, <3>2
  <2>2. \A r \in Res : "SPEND" \in ledger[r] /\ spentAt[r] + Window >= now
                         => r \in InWindow(SeedSpent(LedgerCopy))
    BY <1>2 DEF SeedSpent, InWindow, LedgerSpends
  <2>3. InWindow(SeedSpent(LedgerCopy)) \subseteq SeedSpent(LedgerCopy)
    BY DEF InWindow
  <2>4. SpendCountsForADay' /\ Unseeded'
    BY <2>1, <2>2, <2>3 DEF Unseeded, SpendCountsForADay
  <2>5. CopiesCount' /\ OneCopy'
    BY <2>1 DEF SpendInv, CopiesCount, OneCopy
  <2>. QED
    BY <1>1, <2>4, <2>5 DEF SpendInv
<1>4. CASE StartSeeding
  <2>1. /\ ~seeded /\ reading = {} /\ seeded' = TRUE
        /\ reading' = {LedgerCopy}
        /\ UNCHANGED <<now, spentAt, ledger, overtaken, spent, held>>
    BY <1>2, <1>4 DEF StartSeeding, SeedsOnce, SpendInv, Unseeded, durable
  <2>2. CopiesCount'
    BY <1>2, <2>1 DEF CopiesCount, LedgerSpends
  <2>3. OneCopy' /\ Unseeded' /\ SpendCountsForADay'
    BY <2>1 DEF OneCopy, Unseeded, SpendCountsForADay
  <2>. QED
    BY <1>1, <2>2, <2>3 DEF SpendInv
<1>5. CASE FinishSeeding
  <2>1. PICK c \in reading : /\ Counted(SeedSpent(c), SeedHeld(c), SeedTrip(c))
                             /\ reading' = reading \ {c}
    BY <1>5 DEF FinishSeeding
  <2>2. /\ seeded /\ seeded' /\ UNCHANGED <<now, spentAt, ledger, overtaken>>
        /\ reading' = {} /\ c.spends \in SUBSET Res
    BY <1>1, <1>5, <2>1 DEF FinishSeeding, SpendInv, Unseeded, OneCopy, durable, TypeOK, Copy
  <2>3. InWindow(SeedSpent(c)) \in SUBSET spent'
    BY <2>1 DEF Counted, InWindow
  <2>4. ASSUME NEW r \in Res, "SPEND" \in ledger[r], spentAt[r] + Window >= now
        PROVE  r \in InWindow(SeedSpent(c)) \cup overtaken
    <3>1. r \in c.spends \cup overtaken
      BY <2>4 DEF SpendInv, CopiesCount
    <3>. QED
      BY <2>2, <2>4, <3>1, CopyIsApplied
  <2>5. SpendCountsForADay'
    BY <2>2, <2>3, <2>4 DEF SpendCountsForADay
  <2>6. CopiesCount' /\ OneCopy' /\ Unseeded'
    BY <2>2 DEF CopiesCount, OneCopy, Unseeded
  <2>. QED
    BY <1>1, <2>5, <2>6 DEF SpendInv
<1>6. CASE CanSpend
  <2>1. seeded /\ seeded' = TRUE /\ UNCHANGED <<now, spentAt, ledger, overtaken, reading>>
    BY <1>6 DEF CanSpend, SeedsOnce, SpendInv, Unseeded, durable, reads
  <2>2. InWindow(spent) \in SUBSET spent'
    BY <1>6 DEF CanSpend, Counted, InWindow
  <2>3. SpendCountsForADay'
    BY <2>1, <2>2 DEF SpendInv, SpendCountsForADay, InWindow
  <2>4. CopiesCount' /\ OneCopy' /\ Unseeded'
    BY <2>1 DEF SpendInv, CopiesCount, OneCopy, Unseeded
  <2>. QED
    BY <1>1, <2>3, <2>4 DEF SpendInv
<1>7. ASSUME NEW q \in Res, Commit(q)
      PROVE  SpendInv'
  <2>1. CASE held[q] = "none"
    BY <1>1, <1>7, <2>1
    DEF Commit, CommitSpend, memory, SpendInv, Unseeded, CopiesCount, OneCopy, SpendCountsForADay
  <2>2. CASE held[q] # "none"
    <3>1. /\ seeded /\ seeded' = seeded /\ UNCHANGED <<now, reading>>
          /\ spent' = spent \cup {q}
          /\ overtaken' = IF reading = {} THEN overtaken ELSE overtaken \cup {q}
          /\ \A r \in Res : r # q => ledger'[r] = ledger[r] /\ spentAt'[r] = spentAt[r]
      BY <1>1, <1>7, <2>2 DEF Commit, CommitSpend, Persist, TypeOK, SpendInv, Unseeded
    <3>2. SpendCountsForADay' /\ Unseeded' /\ OneCopy'
      BY <3>1 DEF SpendInv, Unseeded, OneCopy, SpendCountsForADay
    <3>3. CopiesCount'
      <4>. SUFFICES ASSUME NEW c \in reading, NEW r \in Res,
                           "SPEND" \in ledger'[r], spentAt'[r] + Window >= now
                    PROVE  r \in c.spends \cup overtaken'
        BY <3>1 DEF CopiesCount
      <4>1. CASE r = q
        BY <3>1, <4>1
      <4>2. CASE r # q
        BY <3>1, <4>2 DEF SpendInv, CopiesCount
      <4>. QED
        BY <4>1, <4>2
    <3>. QED
      BY <1>1, <3>2, <3>3 DEF SpendInv
  <2>. QED
    BY <2>1, <2>2
<1>8. ASSUME NEW q \in Res, Release(q) \/ Pin(q)
      PROVE  SpendInv'
  <2>1. /\ UNCHANGED <<now, seeded, spent, spentAt, reading, overtaken>>
        /\ \A r \in Res : "SPEND" \in ledger'[r] => "SPEND" \in ledger[r]
        /\ \A r \in Res : held[r] = "none" => held'[r] = "none"
    BY <1>1, <1>8
    DEF Release, ReleaseSpend, Pin, PinReservation, Persist, memory, reads, TypeOK
  <2>. QED
    BY <1>1, <2>1 DEF SpendInv, Unseeded, CopiesCount, OneCopy, SpendCountsForADay
<1>9. ASSUME Prune \/ BreakerEvent \/ UNCHANGED vars
      PROVE  SpendInv'
  <2>1. UNCHANGED <<now, seeded, spent, spentAt, ledger, reading, overtaken>>
    BY <1>9 DEF Prune, BreakerEvent, RecordFailure, TripCircuitBreaker,
                ResetCircuitBreaker, vars, memory, reads, durable
  <2>2. \A r \in Res : held[r] = "none" => held'[r] = "none"
    BY <1>9 DEF Prune, Pruned, BreakerEvent, RecordFailure, TripCircuitBreaker,
                ResetCircuitBreaker, vars, memory
  <2>. QED
    BY <1>1, <2>1, <2>2 DEF SpendInv, Unseeded, CopiesCount, OneCopy, SpendCountsForADay
<1>10. CASE Restart
  BY <1>1, <1>10 DEF Restart, SpendInv, Unseeded, CopiesCount, OneCopy, SpendCountsForADay
<1>11. CASE Tick
  <2>1. \A r \in Res : spentAt[r] + Window >= now + 1 => spentAt[r] + Window >= now
    BY <1>1, ConstantsOK DEF Assumptions, TypeOK
  <2>. QED
    BY <1>1, <1>11, <2>1 DEF Tick, memory, reads, durable, SpendInv, Unseeded, CopiesCount,
                             OneCopy, SpendCountsForADay
<1>. QED
  BY <1>3, <1>4, <1>5, <1>6, <1>7, <1>8, <1>9, <1>10, <1>11 DEF Next

\* While the ledger can be read, a recorded spend keeps counting for 24 h in
\* every life of the process that has seeded its memory (_ensure_seeded,
\* get_daily_spent), whatever other events are lost; only what was recorded
\* while an unlocked read was out may be missing until the next forced reload.
THEOREM SpendCounts == "READ" \notin Losable => (Spec => []SpendCountsForADay)
<1>. SUFFICES ASSUME "READ" \notin Losable
              PROVE  Spec => []SpendCountsForADay
  OBVIOUS
<1>1. Init => SpendInv
  BY InitTypeOK DEF Init, SpendInv, Unseeded, CopiesCount, OneCopy, SpendCountsForADay
<1>2. SpendInv => SpendCountsForADay
  BY DEF SpendInv
<1>. QED
  BY <1>1, <1>2, NextCounts, PTL DEF Spec
=============================================================================
