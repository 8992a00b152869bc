---------------------- MODULE InvoiceSettlementProofs ----------------------
(***************************************************************************)
(* Theorems about the settlement of an invoice: what its copies and its    *)
(* row say of the transfer, for any number of request threads, sweeps and  *)
(* copies, and through timeouts, lost answers, failed saves and restarts.  *)
(***************************************************************************)
EXTENDS InvoiceSettlement, FiniteSetTheorems, WellFoundedInduction, TLAPS

-----------------------------------------------------------------------------
(***************************************************************************)
(* The invariant.                                                          *)
(***************************************************************************)
RunState ==
  [pc : {"off", "fetch", "source", "mint", "minted", "poll", "answer", "failed", "error"},
   plan : {"none", "creator_payout", "buyer_refund"},
   key : Keys \cup {0}, tx : Keys \cup {0},
   found : {"none", "open"} \cup FinalPhases]

(* Circle has completed the transaction of a key.                            *)
Paid(c, k) == k # 0 /\ c[k] = "complete"

(* What every copy of the invoice says, the row's included: who is paid has  *)
(* a payout planned, what is confirmed was completed, what was planned has a *)
(* key, and there is no transaction without a plan.                          *)
Sound(c, free, i) ==
  /\ i \in Invoices
  /\ i.status = "paid" => i.plan = "creator_payout" /\ i.verdict = "VALID"
  /\ i.phase = "confirmed" => free \/ Paid(c, i.tx)
  /\ i.status = "refunded" => i.phase = "confirmed" /\ Paid(c, i.tx)
  /\ i.plan = "none" => i.key = 0 /\ i.tx = 0
  /\ i.plan # "none" => i.key # 0

CopiesAreSound ==
  /\ Sound(circle, given.free, saved)
  /\ \A o \in Objects : Sound(circle, given.free, heap[o])

(* A thread that does something has a copy, and one that waits for the       *)
(* sidecar has a plan in it.                                                 *)
ThreadsHold ==
  \A t \in Threads :
    /\ pc[t] # "idle" => ref[t] # 0
    /\ pc[t] = "wait" => heap[ref[t]].plan # "none"

(* What the sidecar's requests know: the key of a plan once it was fetched, a *)
(* transaction once it was sent, and an answer that Circle bears out.         *)
RunIsTrue(c, r) ==
  /\ r.pc \in {"source", "mint", "minted", "poll"} => r.key # 0
  /\ r.pc \in {"minted", "poll"} => r.tx # 0
  /\ r.found # "none" <=> r.pc = "answer"
  /\ r.found = "confirmed" => Paid(c, r.tx)

RunsAreTrue == \A t \in Threads : RunIsTrue(circle, run[t])

InvoiceInv == TypeOK /\ CopiesAreSound /\ ThreadsHold /\ RunsAreTrue

(* Where no save is lost there is one copy, it agrees with the row on the    *)
(* plan and its key, every request of the sidecar works with that key, and   *)
(* no transaction has another one.                                           *)
OneCopy ==
  given.fault # "save" =>
    /\ cur # 0
    /\ \A t \in Threads : ref[t] \in {0, cur}
    /\ heap[cur].plan = saved.plan /\ heap[cur].key = saved.key
    /\ heap[cur].tx \in {0, saved.key} /\ saved.tx \in {0, saved.key}
    /\ \A t \in Threads :
         /\ run[t].pc \in {"source", "mint", "minted", "poll"} => run[t].key = saved.key
         /\ run[t].tx \in {0, saved.key}
    /\ \A k \in Keys : circle[k] # "none" => k = saved.key

InvoiceIInv == InvoiceInv /\ OneCopy

-----------------------------------------------------------------------------
(***************************************************************************)
(* Lemmas about the operators.                                             *)
(***************************************************************************)
(* The first copy is one: of the sets of copies up to each, one is minimal.   *)
LEMMA FirstObjectIsOne == FirstObject \in Objects
<1>. DEFINE UpTo(o) == {p \in Objects : p <= o}
            All == {UpTo(o) : o \in Objects}
<1>1. Objects \subseteq Nat /\ Objects # {} /\ IsFiniteSet(Objects)
  BY BoundAssumption
<1>2. All \subseteq FiniteSubsetsOf(Objects) /\ All # {}
  <2>1. All \subseteq SUBSET Objects /\ All # {}
    <3>1. \A o \in Objects : UpTo(o) \in SUBSET Objects
      OBVIOUS
    <3>2. PICK o \in Objects : TRUE
      BY <1>1
    <3>. HIDE DEF UpTo
    <3>. QED
      BY <3>1, <3>2
  <2>2. FiniteSubsetsOf(Objects) = SUBSET Objects
    BY <1>1, FS_FiniteSubsetsOfFinite
  <2>. QED
    BY <2>1, <2>2
<1>3. PICK S \in All : \A T \in All : ~(<<T, S>> \in StrictSubsetOrdering(Objects))
  <2>. HIDE DEF All
  <2>. QED
    BY <1>2, FS_StrictSubsetOrderingWellFounded, WFMin
<1>4. PICK o \in Objects : S = UpTo(o)
  OBVIOUS
<1>5. ASSUME NEW p \in Objects, p < o PROVE FALSE
  <2>1. UpTo(p) \subseteq UpTo(o) /\ o \in UpTo(o) /\ o \notin UpTo(p)
    <3>1. ~(o <= p) /\ o <= o /\ \A x \in Objects : x <= p => x <= o
      BY <1>1, <1>5
    <3>. QED
      BY <3>1, Zenon
  <2>2. <<UpTo(p), S>> \in StrictSubsetOrdering(Objects)
    BY <1>4, <2>1 DEF StrictSubsetOrdering
  <2>. QED
    BY <1>3, <2>2
<1>6. \A p \in Objects : o <= p
  BY <1>1, <1>5
<1>. QED
  BY <1>6 DEF FirstObject

LEMMA BlankIsSound ==
  ASSUME NEW c, NEW f \in BOOLEAN
  PROVE  Sound(c, f, Blank)
  BY BoundAssumption DEF Sound, Blank, Invoices, FinalPhases, Verdicts, Hashes, Keys

(* A copy that says the same of the transfer is as sound, if it does not     *)
(* begin to say that it is paid or refunded.                                 *)
LEMMA SameIsSound ==
  ASSUME NEW c, NEW f \in BOOLEAN, NEW i, Sound(c, f, i), NEW j \in Invoices,
         j.plan = i.plan, j.phase = i.phase, j.key = i.key, j.tx = i.tx,
         \/ j.status \notin {"paid", "refunded"}
         \/ j.status = i.status /\ j.verdict \in {i.verdict, "VALID"}
  PROVE  Sound(c, f, j)
  BY DEF Sound

(* What a thread writes to its copy when it binds a settlement, records a    *)
(* report, a ruling or the lack of one keeps the copy sound.                 *)
LEMMA WrittenIsSound ==
  ASSUME NEW c, NEW f \in BOOLEAN, NEW i, Sound(c, f, i),
         NEW g \in {"accepted", "final", "failed"}
  PROVE  /\ Sound(c, f, [i EXCEPT !.gateway = g])
         /\ Sound(c, f, [i EXCEPT !.status = "verification_pending", !.gateway = g])
         /\ Sound(c, f, [i EXCEPT !.gateway = g, !.status = "verification_rejected"])
         /\ Sound(c, f, [i EXCEPT !.gateway = g, !.status = "disputed"])
<1>1. Sound(c, f, [i EXCEPT !.gateway = g])
  <2>. DEFINE j == [i EXCEPT !.gateway = g]
  <2>1. j \in Invoices
    BY DEF Sound, Invoices
  <2>2. j.plan = i.plan /\ j.phase = i.phase /\ j.key = i.key /\ j.tx = i.tx
    BY DEF Sound, Invoices
  <2>3. j.status = i.status /\ j.verdict = i.verdict
    BY DEF Sound, Invoices
  <2>. HIDE DEF j
  <2>4. Sound(c, f, j)
    BY <2>1, <2>2, <2>3, SameIsSound
  <2>. QED
    BY <2>4 DEF j
<1>2. Sound(c, f, [i EXCEPT !.status = "verification_pending", !.gateway = g])
  <2>. DEFINE j == [i EXCEPT !.status = "verification_pending", !.gateway = g]
  <2>1. j \in Invoices
    BY DEF Sound, Invoices
  <2>2. j.plan = i.plan /\ j.phase = i.phase /\ j.key = i.key /\ j.tx = i.tx
    BY DEF Sound, Invoices
  <2>3. j.status = "verification_pending"
    BY DEF Sound, Invoices
  <2>. HIDE DEF j
  <2>4. Sound(c, f, j)
    BY <2>1, <2>2, <2>3, SameIsSound
  <2>. QED
    BY <2>4 DEF j
<1>3. Sound(c, f, [i EXCEPT !.gateway = g, !.status = "verification_rejected"])
  <2>. DEFINE j == [i EXCEPT !.gateway = g, !.status = "verification_rejected"]
  <2>1. j \in Invoices
    BY DEF Sound, Invoices
  <2>2. j.plan = i.plan /\ j.phase = i.phase /\ j.key = i.key /\ j.tx = i.tx
    BY DEF Sound, Invoices
  <2>3. j.status = "verification_rejected"
    BY DEF Sound, Invoices
  <2>. HIDE DEF j
  <2>4. Sound(c, f, j)
    BY <2>1, <2>2, <2>3, SameIsSound
  <2>. QED
    BY <2>4 DEF j
<1>4. Sound(c, f, [i EXCEPT !.gateway = g, !.status = "disputed"])
  <2>. DEFINE j == [i EXCEPT !.gateway = g, !.status = "disputed"]
  <2>1. j \in Invoices
    BY DEF Sound, Invoices
  <2>2. j.plan = i.plan /\ j.phase = i.phase /\ j.key = i.key /\ j.tx = i.tx
    BY DEF Sound, Invoices
  <2>3. j.status = "disputed"
    BY DEF Sound, Invoices
  <2>. HIDE DEF j
  <2>4. Sound(c, f, j)
    BY <2>1, <2>2, <2>3, SameIsSound
  <2>. QED
    BY <2>4 DEF j
<1>. QED
  BY <1>1, <1>2, <1>3, <1>4

LEMMA RecordedIsSound ==
  ASSUME NEW c, NEW f \in BOOLEAN, NEW i, Sound(c, f, i),
         NEW g \in {"accepted", "final", "failed"}, NEW h \in Hashes \cup {0}
  PROVE  Sound(c, f, [i EXCEPT !.gateway = g, !.status = "verification_pending", !.hash = h])
<1>1. Sound(c, f, [i EXCEPT !.gateway = g, !.status = "verification_pending", !.hash = h])
  <2>. DEFINE j == [i EXCEPT !.gateway = g, !.status = "verification_pending", !.hash = h]
  <2>1. j \in Invoices
    BY DEF Sound, Invoices
  <2>2. j.plan = i.plan /\ j.phase = i.phase /\ j.key = i.key /\ j.tx = i.tx
    BY DEF Sound, Invoices
  <2>3. j.status = "verification_pending"
    BY DEF Sound, Invoices
  <2>. HIDE DEF j
  <2>4. Sound(c, f, j)
    BY <2>1, <2>2, <2>3, SameIsSound
  <2>. QED
    BY <2>4 DEF j
<1>. QED
  BY <1>1

LEMMA RuledIsSound ==
  ASSUME NEW c, NEW f \in BOOLEAN, NEW i, Sound(c, f, i)
  PROVE  /\ Sound(c, f, [i EXCEPT !.verdict = "VALID"])
         /\ Sound(c, f, [[i EXCEPT !.verdict = "INVALID"] EXCEPT !.status = "verification_rejected"])
         /\ Sound(c, f, [i EXCEPT !.status = "verification_pending", !.verdict = "none"])
<1>1. Sound(c, f, [i EXCEPT !.verdict = "VALID"])
  <2>. DEFINE j == [i EXCEPT !.verdict = "VALID"]
  <2>1. j \in Invoices
    BY DEF Sound, Invoices, Verdicts
  <2>2. j.plan = i.plan /\ j.phase = i.phase /\ j.key = i.key /\ j.tx = i.tx
    BY DEF Sound, Invoices
  <2>3. j.status = i.status /\ j.verdict = "VALID"
    BY DEF Sound, Invoices
  <2>. HIDE DEF j
  <2>4. Sound(c, f, j)
    BY <2>1, <2>2, <2>3, SameIsSound
  <2>. QED
    BY <2>4 DEF j
<1>2. Sound(c, f, [[i EXCEPT !.verdict = "INVALID"] EXCEPT !.status = "verification_rejected"])
  <2>. DEFINE j == [[i EXCEPT !.verdict = "INVALID"] EXCEPT !.status = "verification_rejected"]
  <2>1. j \in Invoices
    BY DEF Sound, Invoices, Verdicts
  <2>2. j.plan = i.plan /\ j.phase = i.phase /\ j.key = i.key /\ j.tx = i.tx
    BY DEF Sound, Invoices
  <2>3. j.status = "verification_rejected"
    BY DEF Sound, Invoices
  <2>. HIDE DEF j
  <2>4. Sound(c, f, j)
    BY <2>1, <2>2, <2>3, SameIsSound
  <2>. QED
    BY <2>4 DEF j
<1>3. Sound(c, f, [i EXCEPT !.status = "verification_pending", !.verdict = "none"])
  <2>. DEFINE j == [i EXCEPT !.status = "verification_pending", !.verdict = "none"]
  <2>1. j \in Invoices
    BY DEF Sound, Invoices, Verdicts
  <2>2. j.plan = i.plan /\ j.phase = i.phase /\ j.key = i.key /\ j.tx = i.tx
    BY DEF Sound, Invoices
  <2>3. j.status = "verification_pending"
    BY DEF Sound, Invoices
  <2>. HIDE DEF j
  <2>4. Sound(c, f, j)
    BY <2>1, <2>2, <2>3, SameIsSound
  <2>. QED
    BY <2>4 DEF j
<1>. QED
  BY <1>1, <1>2, <1>3

(* A plan is made once: what is planned keeps its plan and its key, what is  *)
(* not gets a fresh one.                                                     *)
LEMMA PlanningIsSound ==
  ASSUME TypeOK, NEW c, NEW i, Sound(c, given.free, i), ~Refuses(i), DrawsKey(i)
  PROVE  /\ Sound(c, given.free, Planned(i))
         /\ Planned(i).plan = ActionOf(VerdictOf(i))
         /\ Planned(i).plan # "none" /\ Planned(i).tx = i.tx
         /\ Planned(i).verdict = i.verdict /\ Planned(i).status = i.status
         /\ i.plan # "none" => Planned(i) = i
         /\ keys' \in Keys \cup {0}
<1>. USE DEF Sound, Invoices, FinalPhases, Keys
<1>1. keys \in Nat /\ given.free \in BOOLEAN
  BY BoundAssumption DEF TypeOK
<1>2. CASE i.plan # "none"
  <2>1. Planned(i) = i /\ keys' = keys
    BY <1>2 DEF Planned, DrawsKey
  <2>. QED
    BY <1>2, <2>1 DEF Refuses, TypeOK
<1>3. CASE i.plan = "none"
  <2>1. keys + 1 \in 1..MaxKeys /\ keys' = keys + 1
    BY <1>1, <1>3, BoundAssumption DEF DrawsKey
  <2>2. Planned(i) = [i EXCEPT !.plan = ActionOf(VerdictOf(i)), !.key = keys + 1,
                               !.phase = IF given.free THEN "confirmed" ELSE "open"]
    BY <1>3 DEF Planned
  <2>3. ActionOf(VerdictOf(i)) \in {"creator_payout", "buyer_refund"}
    BY DEF ActionOf
  <2>4. i.status # "paid" /\ i.status # "refunded"
    BY <1>3 DEF Paid
  <2>5. Planned(i) \in Invoices
    BY <1>1, <2>1, <2>2, <2>3
  <2>6. /\ Planned(i).plan = ActionOf(VerdictOf(i)) /\ Planned(i).tx = i.tx /\ Planned(i).key = keys + 1
        /\ Planned(i).verdict = i.verdict /\ Planned(i).status = i.status
        /\ Planned(i).phase = IF given.free THEN "confirmed" ELSE "open"
    BY <2>2
  <2>. QED
    BY <1>1, <1>3, <2>1, <2>3, <2>4, <2>5, <2>6
<1>. QED
  BY <1>2, <1>3

(* The answer to a ruling of VALID: the plan is a payout, and the copy paid. *)
LEMMA PaidIsSound ==
  ASSUME TypeOK, NEW c, NEW i, Sound(c, given.free, i), i.verdict = "VALID", ~Refuses(i), DrawsKey(i)
  PROVE  Sound(c, given.free, [Planned(i) EXCEPT !.status = "paid"])
<1>1. Sound(c, given.free, Planned(i)) /\ Planned(i).plan = "creator_payout" /\ Planned(i).verdict = "VALID"
  BY PlanningIsSound DEF ActionOf, VerdictOf, Verdicts
<1>. QED
  BY <1>1 DEF Sound, Invoices

(* A report that Circle bears out keeps a planned copy sound, and its plan.  *)
LEMMA ReportIsSound ==
  ASSUME NEW c, NEW f \in BOOLEAN, NEW i, Sound(c, f, i), i.plan # "none",
         NEW r, r.plan = i.plan, r.phase \in {"open"} \cup FinalPhases, r.tx \in Keys \cup {0},
         r.phase = "confirmed" => Paid(c, r.tx)
  PROVE  /\ Sound(c, f, Applied(i, r))
         /\ Applied(i, r).plan = i.plan /\ Applied(i, r).key = i.key
         /\ Applied(i, r).tx \in {i.tx, r.tx}
<1>1. CASE i.phase \in FinalPhases /\ r.phase # i.phase
  BY <1>1 DEF Applied
<1>2. CASE ~(i.phase \in FinalPhases /\ r.phase # i.phase)
  <2>1. Applied(i, r) = [i EXCEPT !.phase = r.phase, !.status = StatusAfter(i, r),
                                  !.tx = IF r.tx # 0 THEN r.tx ELSE @]
    BY <1>2 DEF Applied
  <2>2. i \in Invoices
    BY DEF Sound
  <2>3. StatusAfter(i, r) \in {i.status, "refunded", "verification_rejected"}
    BY DEF StatusAfter
  <2>4. /\ Applied(i, r) \in Invoices
        /\ Applied(i, r).phase = r.phase /\ Applied(i, r).status = StatusAfter(i, r)
        /\ Applied(i, r).tx = (IF r.tx # 0 THEN r.tx ELSE i.tx)
        /\ Applied(i, r).plan = i.plan /\ Applied(i, r).key = i.key
        /\ Applied(i, r).verdict = i.verdict
    <3>. DEFINE tx == IF r.tx # 0 THEN r.tx ELSE i.tx
                st == StatusAfter(i, r)
    <3>1. tx \in Keys \cup {0} /\ st \in {i.status, "refunded", "verification_rejected"}
      BY <2>2, <2>3 DEF Invoices
    <3>2. Applied(i, r) = [i EXCEPT !.phase = r.phase, !.status = st, !.tx = tx]
      BY <2>1, <2>2 DEF Invoices
    <3>. HIDE DEF tx, st
    <3>3. Applied(i, r) \in Invoices
      BY <2>2, <3>1, <3>2 DEF Invoices
    <3>4. /\ Applied(i, r).phase = r.phase /\ Applied(i, r).status = st /\ Applied(i, r).tx = tx
          /\ Applied(i, r).plan = i.plan /\ Applied(i, r).key = i.key
          /\ Applied(i, r).verdict = i.verdict
      BY <2>2, <3>2 DEF Invoices
    <3>. QED
      BY <3>3, <3>4 DEF tx, st
  <2>5. r.phase = "confirmed" => Paid(c, Applied(i, r).tx)
    BY <2>4 DEF Paid
  <2>6. StatusAfter(i, r) = "paid" => i.status = "paid"
    BY DEF StatusAfter
  <2>7. StatusAfter(i, r) = "refunded" => r.phase = "confirmed" 
    BY <1>2 DEF StatusAfter, Sound, FinalPhases
  <2>. QED
    BY <2>4, <2>5, <2>6, <2>7 DEF Sound
<1>. QED
  BY <1>1, <1>2

-----------------------------------------------------------------------------
(***************************************************************************)
(* Memory, the row and the threads, for the writes of which the actions    *)
(* are made.                                                               *)
(***************************************************************************)
MemoryIsSound ==
  /\ heap \in [Objects -> Invoices] /\ saved \in Invoices
  /\ cur \in Objects \cup {0} /\ faults \in 0..MaxFaults
  /\ CopiesAreSound

ThreadsAreTyped ==
  /\ pc \in [Threads -> {"idle", "claim", "bind", "refresh", "verify", "ask", "settle", "wait"}]
  /\ ref \in [Threads -> Objects \cup {0}] /\ lock \in Threads \cup {Nobody}

(* What a thread holds stays planned when it was.                            *)
PlansStay ==
  \A t \in Threads :
    ref[t] # 0 /\ heap[ref[t]].plan # "none" => heap'[ref[t]].plan # "none"

(* A write of a sound copy that keeps the plan, saved or not or lost.        *)
LEMMA WriteKeeps ==
  ASSUME InvoiceInv, UNCHANGED <<given, circle>>, NEW o \in Objects, NEW i,
         Sound(circle, given.free, i), heap[o].plan # "none" => i.plan # "none",
         \/ Save(o, i) \/ SaveFails(o, i)
         \/ Set(o, i) /\ UNCHANGED <<cur, saved, faults>>
  PROVE  MemoryIsSound' /\ PlansStay
<1>0. /\ heap \in [Objects -> Invoices] /\ ref \in [Threads -> Objects \cup {0}]
      /\ saved \in Invoices /\ cur \in Objects \cup {0} /\ faults \in 0..MaxFaults
      /\ MaxFaults \in Nat /\ given.free \in BOOLEAN /\ CopiesAreSound
  BY BoundAssumption DEF InvoiceInv, TypeOK
<1>1. Set(o, i)
  BY DEF Save, SaveFails
<1>2. Sound(circle, given.free, Blank)
  BY <1>0, BlankIsSound
<1>3. \A p \in Objects : heap'[p] = IF p = o THEN i ELSE IF p \in Unused THEN Blank ELSE heap[p]
  BY <1>1 DEF Set
<1>4. \A p \in Objects : Sound(circle, given.free, heap'[p])
  BY <1>0, <1>2, <1>3 DEF CopiesAreSound
<1>5. heap' \in [Objects -> Invoices]
  <2>1. \A p \in Objects : heap'[p] \in Invoices
    BY <1>4 DEF Sound
  <2>. QED
    BY <1>1, <2>1 DEF Set
<1>6. Sound(circle, given.free, saved') /\ saved' \in Invoices
  BY <1>0 DEF Save, SaveFails, CopiesAreSound, Sound
<1>7. cur' \in Objects \cup {0} /\ faults' \in 0..MaxFaults
  BY <1>0 DEF Save, SaveFails
<1>8. PlansStay
  <2>1. \A t \in Threads : ref[t] \notin Unused
    BY DEF Unused
  <2>. QED
    BY <1>0, <1>3, <2>1 DEF PlansStay
<1>. QED
  BY <1>4, <1>5, <1>6, <1>7, <1>8 DEF MemoryIsSound, CopiesAreSound

(* Memory that does not change keeps what it says.                           *)
LEMMA MemoryStays ==
  ASSUME InvoiceInv, UNCHANGED <<memory, given, circle>>
  PROVE  MemoryIsSound' /\ PlansStay
  BY DEF InvoiceInv, TypeOK, memory, MemoryIsSound, CopiesAreSound, PlansStay

(* A request takes the copy in the table, or a new one of the row.           *)
LEMMA LoadKeeps ==
  ASSUME InvoiceInv, UNCHANGED <<given, circle>>, NEW o \in Objects, Loads(o)
  PROVE  /\ MemoryIsSound' /\ PlansStay
         /\ Copy(o) = heap'[o]
<1>1. CASE o = cur /\ UNCHANGED memory
  BY <1>1, MemoryStays DEF Copy, memory
<1>2. CASE ~(o = cur /\ UNCHANGED memory)
  <2>1. /\ cur = 0 /\ o \in Unused
        /\ Set(o, saved) /\ cur' = o /\ UNCHANGED <<saved, faults>>
    BY <1>2 DEF Loads
  <2>2. /\ heap \in [Objects -> Invoices] /\ saved \in Invoices
        /\ Objects \subseteq Nat \ {0} /\ Sound(circle, given.free, saved)
        /\ given.free \in BOOLEAN /\ faults \in 0..MaxFaults /\ CopiesAreSound
    BY BoundAssumption DEF InvoiceInv, TypeOK, CopiesAreSound
  <2>3. \A p \in Objects : heap'[p] = IF p = o THEN saved ELSE IF p \in Unused THEN Blank ELSE heap[p]
    BY <2>1 DEF Set
  <2>4. Sound(circle, given.free, Blank)
    BY <2>2, BlankIsSound
  <2>5. \A p \in Objects : Sound(circle, given.free, heap'[p])
    BY <2>2, <2>3, <2>4 DEF CopiesAreSound
  <2>6. heap' \in [Objects -> Invoices]
    <3>1. \A p \in Objects : heap'[p] \in Invoices
      BY <2>5 DEF Sound
    <3>. QED
      BY <2>1, <3>1 DEF Set
  <2>7. PlansStay
    <3>1. ref \in [Threads -> Objects \cup {0}]
      BY DEF InvoiceInv, TypeOK
    <3>2. \A t \in Threads : ref[t] \notin Unused
      BY DEF Unused
    <3>. QED
      BY <2>1, <2>3, <3>1, <3>2 DEF PlansStay
  <2>8. Copy(o) = saved
    BY <2>1, <2>2 DEF Copy
  <2>. QED
    BY <2>1, <2>2, <2>3, <2>5, <2>6, <2>7, <2>8 DEF MemoryIsSound, CopiesAreSound
<1>. QED
  BY <1>1, <1>2

(* A thread that is at work goes on, ends or settles again.                  *)
LEMMA ThreadGoesOn ==
  ASSUME InvoiceInv, PlansStay, NEW t \in Threads, ref[t] # 0,
         NEW l \in {"verify", "ask", "settle", "wait"},
         l = "wait" => heap'[ref[t]].plan # "none",
         \/ pc' = [pc EXCEPT ![t] = l] /\ ref' = ref /\ lock' \in {lock, t}
         \/ Done(t) \/ Again(t) \/ End(t)
  PROVE  ThreadsAreTyped' /\ ThreadsHold'
<1>0. /\ pc \in [Threads -> {"idle", "claim", "bind", "refresh", "verify", "ask", "settle", "wait"}]
      /\ ref \in [Threads -> Objects \cup {0}] /\ lock \in Threads \cup {Nobody} /\ ThreadsHold
  BY DEF InvoiceInv, TypeOK
<1>1. lock' \in Threads \cup {Nobody}
  BY <1>0 DEF Done, Again, End, Unlocked
<1>2. CASE pc' = [pc EXCEPT ![t] = l] /\ ref' = ref
  BY <1>0, <1>1, <1>2 DEF ThreadsAreTyped, ThreadsHold, PlansStay
<1>3. CASE Done(t)
  BY <1>0, <1>1, <1>3 DEF ThreadsAreTyped, ThreadsHold, PlansStay, Done
<1>4. CASE Again(t)
  BY <1>0, <1>1, <1>4 DEF ThreadsAreTyped, ThreadsHold, PlansStay, Again
<1>. QED
  BY <1>2, <1>3, <1>4 DEF End

(* A thread takes a copy.                                                    *)
LEMMA ThreadBegins ==
  ASSUME InvoiceInv, PlansStay, NEW t \in Threads, NEW o \in Objects,
         NEW l \in {"claim", "bind", "refresh", "verify"}, Begin(t, o, l)
  PROVE  ThreadsAreTyped' /\ ThreadsHold'
<1>0. /\ pc \in [Threads -> {"idle", "claim", "bind", "refresh", "verify", "ask", "settle", "wait"}]
      /\ ref \in [Threads -> Objects \cup {0}] /\ lock \in Threads \cup {Nobody} /\ ThreadsHold
      /\ o # 0
  BY BoundAssumption DEF InvoiceInv, TypeOK
<1>. QED
  BY <1>0 DEF ThreadsAreTyped, ThreadsHold, PlansStay, Begin

LEMMA ThreadsStay ==
  ASSUME InvoiceInv, PlansStay, UNCHANGED threads
  PROVE  ThreadsAreTyped' /\ ThreadsHold'
  BY DEF InvoiceInv, TypeOK, ThreadsAreTyped, ThreadsHold, PlansStay, threads

(* A thread writes its copy and goes on, or ends.                            *)
LEMMA SaveGoKeeps ==
  ASSUME InvoiceInv, UNCHANGED <<given, circle>>, NEW t \in Threads, ref[t] # 0, NEW i,
         Sound(circle, given.free, i), heap[ref[t]].plan # "none" => i.plan # "none",
         NEW l \in {"verify", "ask", "settle", "wait"}, l = "wait" => i.plan # "none",
         \/ SaveAndGo(t, i, l) \/ SaveAndEnd(t, i)
         \/ Save(ref[t], i) /\ pc' = [pc EXCEPT ![t] = l] /\ ref' = ref /\ lock' = t
         \/ SaveFails(ref[t], i) /\ (Done(t) \/ Again(t))
         \/ Set(ref[t], i) /\ UNCHANGED <<cur, saved, faults>> /\ (Goto(t, l) \/ End(t))
  PROVE  MemoryIsSound' /\ ThreadsAreTyped' /\ ThreadsHold'
<1>1. ref[t] \in Objects
  BY DEF InvoiceInv, TypeOK
<1>2. /\ \/ Save(ref[t], i) \/ SaveFails(ref[t], i)
         \/ Set(ref[t], i) /\ UNCHANGED <<cur, saved, faults>>
      /\ \/ pc' = [pc EXCEPT ![t] = l] /\ ref' = ref /\ lock' \in {lock, t}
         \/ Done(t) \/ Again(t) \/ End(t)
  BY DEF SaveAndGo, SaveAndEnd, Goto
<1>3. MemoryIsSound' /\ PlansStay
  BY <1>1, <1>2, WriteKeeps
<1>4. heap'[ref[t]] = i
  BY <1>1, <1>2 DEF Save, SaveFails, Set
<1>. QED
  BY <1>2, <1>3, <1>4, ThreadGoesOn

(* A request starts on a copy.                                               *)
LEMMA LoadBeginKeeps ==
  ASSUME InvoiceInv, UNCHANGED <<given, circle>>, NEW t \in Threads, NEW o \in Objects, Loads(o),
         NEW l \in {"claim", "bind", "refresh", "verify"}, Begin(t, o, l)
  PROVE  MemoryIsSound' /\ ThreadsAreTyped' /\ ThreadsHold'
  BY LoadKeeps, ThreadBegins

-----------------------------------------------------------------------------
(***************************************************************************)
(* Every step keeps the invariant.                                         *)
(***************************************************************************)
RunsAreRight == run \in [Threads -> RunState] /\ RunsAreTrue

WorldIsTyped ==
  /\ given \in [ruling : [Hashes -> Verdicts], sent : BOOLEAN, free : BOOLEAN,
                fault : {"restart", "save"}, ends : BOOLEAN]
  /\ source \in {"accepted", "final", "failed"} /\ epoch \in Hashes \cup {0}
  /\ keys \in Keys \cup {0} /\ circle \in [Keys -> {"none", "sent", "complete", "failed"}]

LEMMA Parts ==
  InvoiceInv <=>
    MemoryIsSound /\ ThreadsAreTyped /\ ThreadsHold /\ RunsAreRight /\ WorldIsTyped
  BY DEF InvoiceInv, TypeOK, MemoryIsSound, ThreadsAreTyped, RunsAreRight, RunState, WorldIsTyped

LEMMA Together ==
  ASSUME MemoryIsSound', ThreadsAreTyped', ThreadsHold', RunsAreRight', WorldIsTyped'
  PROVE  InvoiceInv'
  BY DEF InvoiceInv, TypeOK, MemoryIsSound, ThreadsAreTyped, RunsAreRight, RunState, WorldIsTyped

LEMMA WorldStays ==
  ASSUME WorldIsTyped, UNCHANGED <<world, circle>>, keys' \in Keys \cup {0}
  PROVE  WorldIsTyped'
  BY DEF WorldIsTyped, world

LEMMA RunsStay ==
  ASSUME RunsAreRight, UNCHANGED <<run, circle>>
  PROVE  RunsAreRight'
  BY DEF RunsAreRight, RunsAreTrue

(* One request of the sidecar changes.                                       *)
LEMMA RunGoesOn ==
  ASSUME RunsAreRight, NEW t \in Threads, NEW r \in RunState, RunIsTrue(circle, r),
         Run(t, r), UNCHANGED circle
  PROVE  RunsAreRight'
  BY DEF RunsAreRight, RunsAreTrue, Run

LEMMA OffIsTrue ==
  ASSUME NEW c, NEW p \in {"none", "creator_payout", "buyer_refund"}
  PROVE  /\ Off \in RunState /\ RunIsTrue(c, Off)
         /\ Error \in RunState /\ RunIsTrue(c, Error)
         /\ [Off EXCEPT !.pc = "fetch", !.plan = p] \in RunState
         /\ RunIsTrue(c, [Off EXCEPT !.pc = "fetch", !.plan = p])
         /\ [Off EXCEPT !.pc = "failed", !.plan = p] \in RunState
         /\ RunIsTrue(c, [Off EXCEPT !.pc = "failed", !.plan = p])
  BY DEF Off, Error, RunState, RunIsTrue, FinalPhases

(* What a thread that is at work finds.                                      *)
LEMMA Finds ==
  ASSUME InvoiceInv, NEW t \in Threads, pc[t] # "idle"
  PROVE  /\ ref[t] # 0 /\ ref[t] \in Objects
         /\ Sound(circle, given.free, heap[ref[t]]) /\ heap[ref[t]] \in Invoices
         /\ given.free \in BOOLEAN /\ source \in {"accepted", "final", "failed"}
  BY DEF InvoiceInv, ThreadsHold, CopiesAreSound, TypeOK

(* The handlers of the requests and of the sweep.                            *)
LEMMA ThreadStep ==
  ASSUME InvoiceInv, NEW t \in Threads, Thread(t)
  PROVE  InvoiceInv'
<1>0. MemoryIsSound /\ ThreadsAreTyped /\ ThreadsHold /\ RunsAreRight /\ WorldIsTyped /\ TypeOK
  BY Parts DEF InvoiceInv
<1>1. ASSUME VerifyPayment(t) \/ StatusPoll(t) \/ SweepPending(t) \/ SweepSettlement(t)
      PROVE  InvoiceInv'
  <2>1. PICK o \in Objects, l \in {"claim", "bind", "refresh", "verify"} : Loads(o) /\ Begin(t, o, l)
    BY <1>1 DEF VerifyPayment, StatusPoll, SweepPending, SweepSettlement
  <2>2. UNCHANGED <<world, sidecar, keys>>
    BY <1>1 DEF VerifyPayment, StatusPoll, SweepPending, SweepSettlement
  <2>3. MemoryIsSound' /\ ThreadsAreTyped' /\ ThreadsHold'
    BY <2>1, <2>2, LoadBeginKeeps DEF world, sidecar
  <2>. QED
    BY <1>0, <2>2, <2>3, RunsStay, WorldStays, Together DEF world, sidecar, WorldIsTyped
<1>2. ASSUME Claim(t) PROVE InvoiceInv'
  <2>1. PICK o \in Objects : Loads(o) /\ (Done(t) \/ Begin(t, o, "bind"))
    BY <1>2 DEF Claim
  <2>2. UNCHANGED <<world, sidecar, keys>> /\ pc[t] # "idle"
    BY <1>2 DEF Claim
  <2>3. MemoryIsSound' /\ PlansStay
    BY <2>1, <2>2, LoadKeeps DEF world, sidecar
  <2>4. ThreadsAreTyped' /\ ThreadsHold'
    BY <2>1, <2>2, <2>3, ThreadBegins, ThreadGoesOn, Finds
  <2>. QED
    BY <1>0, <2>2, <2>3, <2>4, RunsStay, WorldStays, Together DEF world, sidecar, WorldIsTyped
<1>3. ASSUME Bind(t) PROVE InvoiceInv'
  <2>. DEFINE i == [heap[ref[t]] EXCEPT !.status = "verification_pending", !.gateway = source]
  <2>1. UNCHANGED <<world, sidecar, keys>> /\ pc[t] # "idle" /\ SaveAndGo(t, i, "verify")
    BY <1>3 DEF Bind
  <2>2. Sound(circle, given.free, i) /\ i.plan = heap[ref[t]].plan
    <3>1. /\ Sound(circle, given.free, heap[ref[t]]) /\ heap[ref[t]] \in Invoices
          /\ given.free \in BOOLEAN /\ source \in {"accepted", "final", "failed"}
      BY <2>1, Finds DEF InvoiceInv, TypeOK
    <3>2. i.plan = heap[ref[t]].plan
      BY <3>1 DEF Invoices
    <3>3. Sound(circle, given.free, i)
      BY <3>1, WrittenIsSound
    <3>. QED
      BY <3>2, <3>3
  <2>3. MemoryIsSound' /\ ThreadsAreTyped' /\ ThreadsHold'
    BY <2>1, <2>2, Finds, SaveGoKeeps DEF world, sidecar
  <2>. QED
    BY <1>0, <2>1, <2>3, RunsStay, WorldStays, Together DEF world, sidecar, WorldIsTyped
<1>4. ASSUME BindFails(t) \/ RefreshFails(t) PROVE InvoiceInv'
  <2>1. /\ UNCHANGED <<world, memory, sidecar, keys>> /\ pc[t] # "idle"
        /\ Done(t) \/ Goto(t, "settle")
    BY <1>4 DEF BindFails, RefreshFails
  <2>2. MemoryIsSound' /\ PlansStay
    BY <2>1, MemoryStays DEF world, sidecar
  <2>3. ThreadsAreTyped' /\ ThreadsHold'
    BY <2>1, <2>2, ThreadGoesOn, Finds DEF Goto
  <2>. QED
    BY <1>0, <2>1, <2>2, <2>3, RunsStay, WorldStays, Together DEF world, sidecar, WorldIsTyped
<1>5. ASSUME Refresh(t) PROVE InvoiceInv'
  <2>. DEFINE i == [heap[ref[t]] EXCEPT !.gateway = source]
  <2>1. /\ UNCHANGED <<world, cur, saved, faults, sidecar, keys>> /\ pc[t] # "idle"
        /\ Set(ref[t], i) /\ Goto(t, "settle")
    BY <1>5 DEF Refresh
  <2>2. Sound(circle, given.free, i) /\ i.plan = heap[ref[t]].plan
    BY <2>1, Finds, WrittenIsSound DEF Invoices
  <2>3. MemoryIsSound' /\ ThreadsAreTyped' /\ ThreadsHold'
    BY <2>1, <2>2, Finds, SaveGoKeeps DEF world, sidecar
  <2>. QED
    BY <1>0, <2>1, <2>3, RunsStay, WorldStays, Together DEF world, sidecar, WorldIsTyped
<1>6. ASSUME Verify(t) PROVE InvoiceInv'
  <2>1. UNCHANGED <<world, sidecar, keys>> /\ pc[t] # "idle"
    BY <1>6 DEF Verify
  <2>2. CASE Done(t) /\ UNCHANGED memory
    BY <1>0, <2>1, <2>2, MemoryStays, ThreadGoesOn, Finds, RunsStay, WorldStays, Together
       DEF world, sidecar, WorldIsTyped
  <2>3. CASE ~(Done(t) /\ UNCHANGED memory)
    <3>. DEFINE i == heap[ref[t]]
                h == ReportOf(i)
                R(g) == [i EXCEPT !.gateway = g, !.status = "verification_rejected"]
                P(g) == [i EXCEPT !.gateway = g, !.status = "verification_pending", !.hash = h]
    <3>0. PICK g \in Sources(t, i) : \E j \in {R(g), P(g)}, l \in {"ask", "settle"} :
            \/ Save(ref[t], j) /\ lock' = t /\ pc' = [pc EXCEPT ![t] = l] /\ ref' = ref
            \/ SaveFails(ref[t], j) /\ (Done(t) \/ Again(t))
      BY <1>6, <2>3 DEF Verify
    <3>1. PICK j \in {R(g), P(g)}, l \in {"ask", "settle"} :
            \/ Save(ref[t], j) /\ lock' = t /\ pc' = [pc EXCEPT ![t] = l] /\ ref' = ref
            \/ SaveFails(ref[t], j) /\ (Done(t) \/ Again(t))
      BY <3>0
    <3>2. g \in {"accepted", "final", "failed"} /\ h \in Hashes \cup {0}
      BY <1>0, <2>1, Finds DEF Sources, ReportOf, Invoices, WorldIsTyped, Hashes
    <3>3. Sound(circle, given.free, j) /\ j.plan = i.plan
      <4>1. Sound(circle, given.free, i) /\ i \in Invoices /\ given.free \in BOOLEAN
        BY <2>1, Finds
      <4>2. j.plan = i.plan
        BY <4>1 DEF Invoices
      <4>. HIDE DEF i, h
      <4>3. Sound(circle, given.free, R(g))
        <5>1. g \in {"accepted", "final", "failed"}
          BY <3>2
        <5>. QED
          BY <4>1, <5>1, WrittenIsSound, ZenonT(90)
      <4>4. Sound(circle, given.free, P(g))
        <5>1. h \in Hashes \cup {0} /\ g \in {"accepted", "final", "failed"}
          BY <3>2
        <5>. HIDE DEF Hashes
        <5>. QED
          BY <4>1, <5>1, RecordedIsSound, ZenonT(90)
      <4>. QED
        BY <4>2, <4>3, <4>4
    <3>. HIDE DEF R, P, h
    <3>4. MemoryIsSound' /\ ThreadsAreTyped' /\ ThreadsHold'
      BY <2>1, <3>1, <3>3, Finds, SaveGoKeeps DEF world, sidecar
    <3>. QED
      BY <1>0, <2>1, <3>4, RunsStay, WorldStays, Together DEF world, sidecar, WorldIsTyped
  <2>. QED
    BY <2>2, <2>3
<1>7. ASSUME Unanswered(t) PROVE InvoiceInv'
  <2>. DEFINE i == [heap[ref[t]] EXCEPT !.status = "verification_pending", !.verdict = "none"]
  <2>1. /\ UNCHANGED <<given, source, sidecar, keys>> /\ pc[t] # "idle"
        /\ \/ End(t) /\ UNCHANGED <<memory, epoch>>
           \/ SaveAndEnd(t, i) /\ epoch' \in {epoch, Dropped}
    BY <1>7 DEF Unanswered
  <2>2. WorldIsTyped'
    BY <1>0, <2>1 DEF WorldIsTyped, sidecar, Dropped
  <2>3. Sound(circle, given.free, i) /\ i.plan = heap[ref[t]].plan
    BY <2>1, Finds, RuledIsSound DEF Invoices
  <2>4. MemoryIsSound' /\ ThreadsAreTyped' /\ ThreadsHold'
    <3>1. CASE SaveAndEnd(t, i)
      BY <2>1, <2>3, <3>1, Finds, SaveGoKeeps DEF sidecar
    <3>2. CASE End(t) /\ UNCHANGED memory
      BY <2>1, <3>2, Finds, MemoryStays, ThreadGoesOn DEF sidecar
    <3>. QED
      BY <2>1, <3>1, <3>2
  <2>. QED
    BY <1>0, <2>1, <2>2, <2>4, RunsStay, Together DEF sidecar
<1>8. ASSUME Answered(t) PROVE InvoiceInv'
  <2>. DEFINE i == [heap[ref[t]] EXCEPT !.verdict = given.ruling[heap[ref[t]].hash]]
  <2>1. UNCHANGED <<given, source, sidecar>> /\ pc[t] # "idle"
    BY <1>8 DEF Answered
  <2>2. /\ i.verdict \in Verdicts /\ i.verdict = given.ruling[heap[ref[t]].hash]
        /\ i.plan = heap[ref[t]].plan
    BY <1>8, <2>1, Finds DEF Answered, Invoices, Verdicts
  <2>3. CASE /\ i.verdict = "INVALID"
             /\ SaveAndGo(t, [i EXCEPT !.status = "verification_rejected"], "settle")
             /\ epoch' = Dropped /\ UNCHANGED keys
    <3>1. Sound(circle, given.free, [i EXCEPT !.status = "verification_rejected"])
      <4>1. /\ i = [heap[ref[t]] EXCEPT !.verdict = "INVALID"] /\ given.free \in BOOLEAN
            /\ Sound(circle, given.free, heap[ref[t]])
        BY <2>1, <2>2, <2>3, Finds
      <4>. HIDE DEF i
      <4>. QED
        BY <4>1, RuledIsSound
    <3>2. [i EXCEPT !.status = "verification_rejected"].plan = heap[ref[t]].plan
      BY <2>1, Finds DEF Invoices
    <3>3. MemoryIsSound' /\ ThreadsAreTyped' /\ ThreadsHold'
      BY <2>1, <2>3, <3>1, <3>2, Finds, SaveGoKeeps DEF sidecar
    <3>4. WorldIsTyped'
      BY <1>0, <2>1, <2>3 DEF WorldIsTyped, sidecar, Dropped
    <3>. QED
      BY <1>0, <2>1, <3>3, <3>4, RunsStay, Together DEF sidecar
  <2>4. CASE /\ i.verdict = "VALID" /\ Set(ref[t], i) /\ End(t)
             /\ UNCHANGED <<epoch, cur, saved, faults, keys>>
    <3>1. Sound(circle, given.free, i)
      <4>1. /\ i = [heap[ref[t]] EXCEPT !.verdict = "VALID"] /\ given.free \in BOOLEAN
            /\ Sound(circle, given.free, heap[ref[t]])
        BY <2>1, <2>2, <2>4, Finds
      <4>. HIDE DEF i
      <4>. QED
        BY <4>1, RuledIsSound
    <3>2. MemoryIsSound' /\ ThreadsAreTyped' /\ ThreadsHold'
      BY <2>1, <2>2, <2>4, <3>1, Finds, SaveGoKeeps DEF sidecar
    <3>. QED
      BY <1>0, <2>1, <2>4, <3>2, RunsStay, Together DEF sidecar, WorldIsTyped
  <2>5. CASE /\ i.verdict = "VALID" /\ ~Refuses(i) /\ DrawsKey(i)
             /\ SaveAndGo(t, [Planned(i) EXCEPT !.status = "paid"], "settle")
             /\ UNCHANGED epoch
    <3>. DEFINE j == [Planned(i) EXCEPT !.status = "paid"]
    <3>1. Sound(circle, given.free, i)
      <4>1. /\ i = [heap[ref[t]] EXCEPT !.verdict = "VALID"] /\ given.free \in BOOLEAN
            /\ Sound(circle, given.free, heap[ref[t]])
        BY <2>1, <2>2, <2>5, Finds
      <4>. HIDE DEF i
      <4>. QED
        BY <4>1, RuledIsSound
    <3>2. Sound(circle, given.free, j) /\ Planned(i).plan # "none" /\ keys' \in Keys \cup {0}
      BY <1>0, <2>5, <3>1, PaidIsSound, PlanningIsSound
    <3>3. j.plan # "none"
      BY <1>0, <2>5, <3>1, <3>2, PlanningIsSound DEF Sound, Invoices
    <3>. HIDE DEF i, j
    <3>4. MemoryIsSound' /\ ThreadsAreTyped' /\ ThreadsHold'
      BY <2>1, <2>5, <3>2, <3>3, Finds, SaveGoKeeps DEF sidecar, j
    <3>. QED
      BY <1>0, <2>1, <2>5, <3>2, <3>4, RunsStay, Together DEF sidecar, WorldIsTyped
  <2>. QED
    BY <1>8, <2>3, <2>4, <2>5 DEF Answered
<1>9. ASSUME Settle(t) PROVE InvoiceInv'
  <2>. DEFINE i == heap[ref[t]]
              j == Planned(i)
              r == [Off EXCEPT !.pc = "fetch", !.plan = j.plan]
  <2>1. UNCHANGED <<world, circle>> /\ pc[t] # "idle"
    BY <1>9 DEF Settle
  <2>2. CASE UNCHANGED <<run, keys>> /\ (SaveAndEnd(t, i) \/ (End(t) /\ UNCHANGED memory))
    <3>1. MemoryIsSound' /\ ThreadsAreTyped' /\ ThreadsHold'
      <4>1. CASE SaveAndEnd(t, i)
        BY <2>1, <4>1, Finds, SaveGoKeeps DEF world
      <4>2. CASE End(t) /\ UNCHANGED memory
        BY <2>1, <4>2, Finds, MemoryStays, ThreadGoesOn DEF world
      <4>. QED
        BY <2>2, <4>1, <4>2
    <3>. QED
      BY <1>0, <2>1, <2>2, <3>1, RunsStay, WorldStays, Together DEF world, WorldIsTyped
  <2>3. CASE /\ ~Refuses(i) /\ DrawsKey(i)
             /\ \/ SaveAndEnd(t, j) /\ UNCHANGED run
                \/ Save(ref[t], j) /\ Goto(t, "wait") /\ Run(t, r)
                \/ SaveFails(ref[t], j) /\ (Done(t) \/ Again(t)) /\ UNCHANGED run
    <3>1. /\ Sound(circle, given.free, j) /\ j.plan # "none" /\ j.plan \in {"creator_payout", "buyer_refund"}
          /\ keys' \in Keys \cup {0}
      BY <1>0, <2>1, <2>3, Finds, PlanningIsSound DEF ActionOf
    <3>2. r \in RunState /\ RunIsTrue(circle, r)
      BY <3>1, OffIsTrue
    <3>. HIDE DEF j, r
    <3>3. MemoryIsSound' /\ ThreadsAreTyped' /\ ThreadsHold'
      BY <2>1, <2>3, <3>1, Finds, SaveGoKeeps DEF world, SaveAndGo
    <3>4. RunsAreRight'
      BY <1>0, <2>1, <2>3, <3>2, RunsStay, RunGoesOn
    <3>. QED
      BY <1>0, <2>1, <3>1, <3>3, <3>4, WorldStays, Together DEF world, WorldIsTyped
  <2>. QED
    BY <1>9, <2>2, <2>3 DEF Settle, Run
<1>10. ASSUME Answer(t) PROVE InvoiceInv'
  <2>. DEFINE i == heap[ref[t]]
              c == [plan |-> run[t].plan, phase |-> run[t].found, tx |-> run[t].tx]
              j == IF run[t].pc = "error" \/ Rejects(i, c) THEN i ELSE Applied(i, c)
  <2>1. /\ UNCHANGED <<world, circle, keys>> /\ pc[t] # "idle" /\ SaveAndEnd(t, j)
        /\ pc[t] = "wait" /\ run[t].pc \in {"answer", "error"} /\ Run(t, Off)
    BY <1>10 DEF Answer, Run
  <2>2. i.plan # "none" /\ Sound(circle, given.free, i)
    BY <1>0, <2>1, Finds DEF ThreadsHold
  <2>3. Sound(circle, given.free, j) /\ j.plan # "none"
    <3>1. CASE run[t].pc = "error" \/ Rejects(i, c)
      BY <2>2, <3>1
    <3>2. CASE ~(run[t].pc = "error" \/ Rejects(i, c))
      <4>1. run[t] \in RunState /\ RunIsTrue(circle, run[t]) /\ run[t].pc = "answer"
        BY <1>0, <2>1, <3>2 DEF RunsAreRight, RunsAreTrue
      <4>2. /\ c.phase \in {"open"} \cup FinalPhases /\ c.tx \in Keys \cup {0}
            /\ c.phase = "confirmed" => Paid(circle, c.tx)
        BY <4>1 DEF RunState, RunIsTrue
      <4>3. c.plan = i.plan
        BY <2>2, <3>2 DEF Rejects, Planned
      <4>4. given.free \in BOOLEAN
        BY <1>0 DEF WorldIsTyped
      <4>. HIDE DEF c, i
      <4>5. Sound(circle, given.free, Applied(i, c)) /\ Applied(i, c).plan = i.plan
        BY <2>2, <4>2, <4>3, <4>4, ReportIsSound
      <4>. QED
        BY <2>2, <3>2, <4>5
    <3>. QED
      BY <3>1, <3>2
  <2>. HIDE DEF j
  <2>4. MemoryIsSound' /\ ThreadsAreTyped' /\ ThreadsHold'
    BY <2>1, <2>3, Finds, SaveGoKeeps DEF world
  <2>5. RunsAreRight'
    BY <1>0, <2>1, OffIsTrue, RunGoesOn
  <2>. QED
    BY <1>0, <2>1, <2>4, <2>5, WorldStays, Together DEF world, WorldIsTyped
<1>11. ASSUME Timeout(t) PROVE InvoiceInv'
  <2>1. /\ UNCHANGED <<world, circle, keys>> /\ pc[t] # "idle" /\ SaveAndEnd(t, heap[ref[t]])
        /\ run' = [run EXCEPT ![t] = Unheard(@)]
    BY <1>11 DEF Timeout
  <2>2. MemoryIsSound' /\ ThreadsAreTyped' /\ ThreadsHold'
    BY <2>1, Finds, SaveGoKeeps DEF world
  <2>3. Unheard(run[t]) \in RunState /\ RunIsTrue(circle, Unheard(run[t])) /\ Run(t, Unheard(run[t]))
    BY <1>0, <2>1, OffIsTrue DEF RunsAreRight, RunsAreTrue, Unheard, Run
  <2>4. RunsAreRight'
    BY <1>0, <2>1, <2>3, RunGoesOn
  <2>. QED
    BY <1>0, <2>1, <2>2, <2>4, WorldStays, Together DEF world, WorldIsTyped
<1>. QED
  BY <1>1, <1>2, <1>3, <1>4, <1>5, <1>6, <1>7, <1>8, <1>9, <1>10, <1>11 DEF Thread

(* The checkpoint endpoint, saved or lost, when Circle bears the report out. *)
LEMMA CheckpointKeeps ==
  ASSUME InvoiceInv, UNCHANGED <<given, circle, threads>>, NEW r,
         r.phase \in {"open"} \cup FinalPhases, r.tx \in Keys \cup {0},
         r.phase = "confirmed" => Paid(circle, r.tx), Checkpoint(r) \/ CheckpointLost(r)
  PROVE  MemoryIsSound' /\ ThreadsAreTyped' /\ ThreadsHold' /\ keys' \in Keys \cup {0}
<1>. DEFINE i == heap[cur]
            j == Applied(Planned(i), r)
<1>1. /\ cur # 0 /\ ~Rejects(i, r) /\ DrawsKey(i)
      /\ Save(cur, j) \/ SaveFails(cur, j)
  BY DEF Checkpoint, CheckpointLost
<1>2. cur \in Objects /\ Sound(circle, given.free, i) /\ TypeOK /\ given.free \in BOOLEAN
  BY <1>1 DEF InvoiceInv, TypeOK, CopiesAreSound
<1>3. ~Refuses(i) /\ Planned(i).plan = r.plan
  BY <1>1 DEF Rejects
<1>. HIDE DEF i
<1>4. /\ Sound(circle, given.free, Planned(i)) /\ Planned(i).plan # "none"
      /\ keys' \in Keys \cup {0}
  BY <1>1, <1>2, <1>3, PlanningIsSound
<1>5. Sound(circle, given.free, j) /\ j.plan # "none"
  <2>. DEFINE k == Planned(i)
  <2>1. Sound(circle, given.free, k) /\ k.plan # "none" /\ r.plan = k.plan
    BY <1>3, <1>4
  <2>. HIDE DEF k
  <2>2. Sound(circle, given.free, Applied(k, r)) /\ Applied(k, r).plan = k.plan
    BY <1>2, <2>1, ReportIsSound
  <2>. QED
    BY <2>1, <2>2 DEF k
<1>. HIDE DEF j
<1>6. MemoryIsSound' /\ PlansStay
  BY <1>1, <1>2, <1>5, WriteKeeps
<1>. QED
  BY <1>4, <1>6, ThreadsStay DEF threads

LEMMA PollIsTrue ==
  ASSUME WorldIsTyped, NEW k \in Keys
  PROVE  /\ PhaseOf(k) \in {"open"} \cup FinalPhases
         /\ PhaseOf(k) = "confirmed" => Paid(circle, k)
  BY BoundAssumption DEF PhaseOf, FinalPhases, Paid, Keys

(* The steps of the sidecar.                                                 *)
LEMMA SidecarStep ==
  ASSUME InvoiceInv, NEW t \in Threads, Sidecar(t)
  PROVE  InvoiceInv'
<1>0. /\ MemoryIsSound /\ ThreadsAreTyped /\ ThreadsHold /\ RunsAreRight /\ WorldIsTyped /\ TypeOK
      /\ run[t] \in RunState /\ RunIsTrue(circle, run[t])
  BY Parts DEF InvoiceInv, RunsAreRight, RunsAreTrue
<1>1. ASSUME Fetch(t) PROVE InvoiceInv'
  <2>. DEFINE i == heap[cur]
              j == Planned(i)
              r == [run[t] EXCEPT !.key = j.key, !.tx = j.tx,
                      !.pc = IF j.plan = "buyer_refund" /\ ~given.sent THEN "failed" ELSE "source"]
  <2>1. /\ run[t].pc = "fetch" /\ cur # 0 /\ ~Refuses(i) /\ DrawsKey(i) /\ Save(cur, j)
        /\ Run(t, r) /\ UNCHANGED <<world, threads, circle>>
    BY <1>1 DEF Fetch, Rejects
  <2>2. cur \in Objects /\ Sound(circle, given.free, i)
    BY <1>0, <2>1 DEF TypeOK, MemoryIsSound, CopiesAreSound
  <2>3. Sound(circle, given.free, j) /\ j.plan # "none" /\ keys' \in Keys \cup {0}
    BY <1>0, <2>1, <2>2, PlanningIsSound
  <2>. HIDE DEF j
  <2>4. MemoryIsSound' /\ PlansStay
    BY <2>1, <2>2, <2>3, WriteKeeps DEF world
  <2>5. r \in RunState /\ RunIsTrue(circle, r)
    <3>1. j.key \in Keys /\ j.tx \in Keys \cup {0} /\ j.key # 0
      BY <2>3 DEF Sound, Invoices
    <3>2. /\ r \in RunState /\ r.pc \in {"source", "failed"} /\ r.key = j.key
          /\ r.found = run[t].found
      BY <1>0, <3>1 DEF RunState
    <3>3. run[t].found = "none"
      BY <1>0, <2>1 DEF RunIsTrue
    <3>. HIDE DEF r
    <3>. QED
      BY <3>1, <3>2, <3>3 DEF RunIsTrue
  <2>. QED
    BY <1>0, <2>1, <2>3, <2>4, <2>5, RunGoesOn, ThreadsStay, WorldStays, Together
<1>2. ASSUME Confirm(t) PROVE InvoiceInv'
  <2>. DEFINE c == Report(t, "open", 0)
              r == [run[t] EXCEPT !.pc = IF run[t].tx = 0 THEN "mint" ELSE "poll"]
  <2>1. /\ run[t].pc = "source" /\ Checkpoint(c) /\ Run(t, r) /\ UNCHANGED <<world, threads, circle>>
    BY <1>2 DEF Confirm
  <2>2. c.phase = "open" /\ c.tx = 0
    BY DEF Report
  <2>. HIDE DEF c
  <2>3. MemoryIsSound' /\ ThreadsAreTyped' /\ ThreadsHold' /\ keys' \in Keys \cup {0}
    BY <2>1, <2>2, CheckpointKeeps DEF world
  <2>4. r \in RunState /\ RunIsTrue(circle, r)
    BY <1>0, <2>1 DEF RunState, RunIsTrue
  <2>. QED
    BY <1>0, <2>1, <2>3, <2>4, RunGoesOn, WorldStays, Together
<1>3. ASSUME Mint(t) PROVE InvoiceInv'
  <2>1. /\ run[t].pc = "mint" /\ UNCHANGED <<world, memory, threads, keys>>
        /\ circle' = [circle EXCEPT ![run[t].key] = IF @ = "none" THEN "sent" ELSE @]
        /\ run' = [run EXCEPT ![t] = [run[t] EXCEPT !.tx = run[t].key, !.pc = "minted"]]
    BY <1>3 DEF Mint, Run
  <2>2. \A k \in Keys \cup {0} : Paid(circle, k) => Paid(circle', k)
    BY <1>0, <2>1 DEF Paid, WorldIsTyped
  <2>3. \A i : Sound(circle, given.free, i) => Sound(circle', given'.free, i)
    BY <2>1, <2>2 DEF Sound, Invoices, world
  <2>4. MemoryIsSound'
    BY <1>0, <2>1, <2>3 DEF MemoryIsSound, CopiesAreSound, memory
  <2>5. ThreadsAreTyped' /\ ThreadsHold'
    BY <1>0, <2>1 DEF ThreadsAreTyped, ThreadsHold, threads, memory
  <2>6. WorldIsTyped'
    BY <1>0, <2>1 DEF WorldIsTyped, world
  <2>7. RunsAreRight'
    <3>. DEFINE r == [run[t] EXCEPT !.tx = run[t].key, !.pc = "minted"]
    <3>1. r \in RunState /\ RunIsTrue(circle', r)
      <4>1. /\ r \in RunState /\ r.pc = "minted" /\ r.key = run[t].key /\ r.tx = run[t].key
            /\ r.found = run[t].found /\ run[t].key # 0
        BY <1>0, <2>1 DEF RunState, RunIsTrue
      <4>. HIDE DEF r
      <4>2. r.found = "none"
        BY <1>0, <2>1, <4>1 DEF RunIsTrue
      <4>. QED
        BY <4>1, <4>2 DEF RunIsTrue
    <3>2. \A u \in Threads : run[u] \in RunState /\ RunIsTrue(circle', run[u])
      BY <1>0, <2>2 DEF RunsAreRight, RunsAreTrue, RunIsTrue, RunState
    <3>3. run' = [run EXCEPT ![t] = r]
      BY <2>1
    <3>. HIDE DEF r
    <3>. QED
      BY <1>0, <3>1, <3>2, <3>3 DEF RunsAreRight, RunsAreTrue
  <2>. QED
    BY <2>4, <2>5, <2>6, <2>7, Together
<1>4. ASSUME Minted(t) PROVE InvoiceInv'
  <2>. DEFINE c == Report(t, "open", run[t].tx)
              r == [run[t] EXCEPT !.pc = "poll"]
  <2>1. /\ run[t].pc = "minted" /\ Checkpoint(c) /\ Run(t, r) /\ UNCHANGED <<world, threads, circle>>
    BY <1>4 DEF Minted
  <2>2. c.phase = "open" /\ c.tx \in Keys \cup {0}
    BY <1>0 DEF Report, RunState
  <2>. HIDE DEF c
  <2>3. MemoryIsSound' /\ ThreadsAreTyped' /\ ThreadsHold' /\ keys' \in Keys \cup {0}
    BY <2>1, <2>2, CheckpointKeeps DEF world
  <2>4. r \in RunState /\ RunIsTrue(circle, r)
    BY <1>0, <2>1 DEF RunState, RunIsTrue
  <2>. QED
    BY <1>0, <2>1, <2>3, <2>4, RunGoesOn, WorldStays, Together
<1>5. ASSUME Poll(t) PROVE InvoiceInv'
  <2>. DEFINE c == Report(t, PhaseOf(run[t].tx), run[t].tx)
              r == [run[t] EXCEPT !.pc = "answer", !.found = PhaseOf(run[t].tx)]
  <2>1. /\ run[t].pc = "poll" /\ Checkpoint(c) /\ (Run(t, r) \/ Run(t, Off))
        /\ UNCHANGED <<world, threads, circle>>
    BY <1>5 DEF Poll, Reply
  <2>2. run[t].tx \in Keys
    BY <1>0, <2>1 DEF RunState, RunIsTrue
  <2>3. /\ PhaseOf(run[t].tx) \in {"open"} \cup FinalPhases
        /\ PhaseOf(run[t].tx) = "confirmed" => Paid(circle, run[t].tx)
    BY <1>0, <2>2, PollIsTrue
  <2>4. c.phase = PhaseOf(run[t].tx) /\ c.tx = run[t].tx
    BY DEF Report
  <2>. HIDE DEF c
  <2>5. MemoryIsSound' /\ ThreadsAreTyped' /\ ThreadsHold' /\ keys' \in Keys \cup {0}
    BY <2>1, <2>2, <2>3, <2>4, CheckpointKeeps DEF world
  <2>6. r \in RunState /\ RunIsTrue(circle, r)
    <3>1. /\ r \in RunState /\ r.pc = "answer" /\ r.found = PhaseOf(run[t].tx)
          /\ r.tx = run[t].tx
      BY <1>0, <2>3 DEF RunState
    <3>. HIDE DEF r
    <3>. QED
      BY <2>3, <3>1 DEF RunIsTrue, FinalPhases
  <2>. HIDE DEF r
  <2>. QED
    BY <1>0, <2>1, <2>5, <2>6, OffIsTrue, RunGoesOn, WorldStays, Together
<1>6. ASSUME RunFails(t) \/ Retryable(t) \/ Vanish(t) PROVE InvoiceInv'
  <2>. DEFINE f == [Off EXCEPT !.pc = "failed", !.plan = run[t].plan]
              C(c) == c.phase \in {"open"} \cup FinalPhases /\ c.tx \in Keys \cup {0}
                      /\ (c.phase = "confirmed" => Paid(circle, c.tx))
  <2>1. /\ UNCHANGED <<world, threads, circle>>
        /\ Run(t, Off) \/ Run(t, Error) \/ Run(t, f)
    BY <1>6 DEF RunFails, Retryable, Vanish, Reply
  <2>2. \/ UNCHANGED <<memory, keys>>
        \/ \E c : C(c) /\ (Checkpoint(c) \/ CheckpointLost(c))
    <3>1. CASE RunFails(t)
      <4>1. run[t].tx \in Keys \cup {0} /\ (run[t].pc = "poll" => run[t].tx \in Keys)
        BY <1>0 DEF RunState, RunIsTrue
      <4>2. C(Report(t, IF run[t].pc = "poll" THEN PhaseOf(run[t].tx) ELSE "open", run[t].tx))
        BY <1>0, <4>1, PollIsTrue DEF Report
      <4>. QED
        BY <3>1, <4>2 DEF RunFails
    <3>2. CASE Retryable(t)
      <4>1. C(Report(t, "open", 0))
        BY DEF Report
      <4>. QED
        BY <3>2, <4>1 DEF Retryable
    <3>. QED
      BY <1>6, <3>1, <3>2 DEF Vanish
  <2>3. MemoryIsSound' /\ ThreadsAreTyped' /\ ThreadsHold' /\ keys' \in Keys \cup {0}
    <3>1. CASE UNCHANGED <<memory, keys>>
      BY <1>0, <2>1, <3>1, MemoryStays, ThreadsStay DEF world, WorldIsTyped
    <3>2. CASE \E c : C(c) /\ (Checkpoint(c) \/ CheckpointLost(c))
      BY <2>1, <3>2, CheckpointKeeps DEF world
    <3>. QED
      BY <2>2, <3>1, <3>2
  <2>4. f \in RunState /\ RunIsTrue(circle, f)
    <3>1. run[t].plan \in {"none", "creator_payout", "buyer_refund"}
      BY <1>0 DEF RunState
    <3>. QED
      BY <3>1, OffIsTrue
  <2>. HIDE DEF f
  <2>. QED
    BY <1>0, <2>1, <2>3, <2>4, OffIsTrue, RunGoesOn, WorldStays, Together
<1>. QED
  BY <1>1, <1>2, <1>3, <1>4, <1>5, <1>6 DEF Sidecar

(* The dispute of a paid invoice, Circle, the epochs and a restart.          *)
LEMMA WorldStep ==
  ASSUME InvoiceInv,
         \/ Dispute \/ SourceSettles \/ EpochExpires \/ EpochRebuilt \/ Restart
         \/ \E k \in Keys : TransactionEnds(k)
  PROVE  InvoiceInv'
<1>0. MemoryIsSound /\ ThreadsAreTyped /\ ThreadsHold /\ RunsAreRight /\ WorldIsTyped /\ TypeOK
  BY Parts DEF InvoiceInv
<1>1. ASSUME Dispute PROVE InvoiceInv'
  <2>. DEFINE i == [heap[cur] EXCEPT !.gateway = source,
                      !.status = IF source = "failed" THEN "disputed" ELSE @]
  <2>1. /\ cur # 0 /\ (Save(cur, i) \/ SaveFails(cur, i)) /\ UNCHANGED <<world, threads, sidecar, keys>>
    BY <1>1 DEF Dispute
  <2>2. /\ cur \in Objects /\ Sound(circle, given.free, heap[cur]) /\ heap[cur] \in Invoices
        /\ given.free \in BOOLEAN /\ source \in {"accepted", "final", "failed"}
    BY <1>0, <2>1 DEF MemoryIsSound, CopiesAreSound, WorldIsTyped
  <2>3. Sound(circle, given.free, i) /\ i.plan = heap[cur].plan
    <3>1. i = IF source = "failed" THEN [heap[cur] EXCEPT !.gateway = source, !.status = "disputed"]
              ELSE [heap[cur] EXCEPT !.gateway = source]
      BY <2>2 DEF Invoices
    <3>2. i.plan = heap[cur].plan
      BY <2>2 DEF Invoices
    <3>. HIDE DEF i
    <3>. QED
      BY <2>2, <3>1, <3>2, WrittenIsSound
  <2>. HIDE DEF i
  <2>4. MemoryIsSound' /\ PlansStay
    BY <2>1, <2>2, <2>3, WriteKeeps DEF world, sidecar
  <2>. QED
    BY <1>0, <2>1, <2>4, ThreadsStay, RunsStay, WorldStays, Together DEF sidecar, WorldIsTyped
<1>2. ASSUME SourceSettles \/ EpochExpires \/ EpochRebuilt PROVE InvoiceInv'
  <2>1. UNCHANGED <<given, memory, threads, sidecar, keys>>
    BY <1>2 DEF SourceSettles, EpochExpires, EpochRebuilt
  <2>2. WorldIsTyped'
    BY <1>0, <1>2, <2>1 DEF SourceSettles, EpochExpires, EpochRebuilt, WorldIsTyped, Hashes, sidecar
  <2>3. MemoryIsSound' /\ PlansStay
    BY <2>1, MemoryStays DEF sidecar
  <2>. QED
    BY <1>0, <2>1, <2>2, <2>3, ThreadsStay, RunsStay, Together DEF sidecar
<1>3. ASSUME NEW k \in Keys, TransactionEnds(k) PROVE InvoiceInv'
  <2>1. /\ UNCHANGED <<world, memory, threads, run, keys>> /\ circle[k] = "sent"
        /\ \E s \in {"complete", "failed"} : circle' = [circle EXCEPT ![k] = s]
    BY <1>3 DEF TransactionEnds
  <2>2. \A l \in Keys \cup {0} : Paid(circle, l) => Paid(circle', l)
    BY <1>0, <2>1 DEF Paid, WorldIsTyped
  <2>3. \A i : Sound(circle, given.free, i) => Sound(circle', given'.free, i)
    BY <2>1, <2>2 DEF Sound, Invoices, world
  <2>4. MemoryIsSound'
    BY <1>0, <2>1, <2>3 DEF MemoryIsSound, CopiesAreSound, memory
  <2>5. ThreadsAreTyped' /\ ThreadsHold'
    BY <1>0, <2>1 DEF ThreadsAreTyped, ThreadsHold, threads, memory
  <2>6. WorldIsTyped'
    BY <1>0, <2>1 DEF WorldIsTyped, world
  <2>7. RunsAreRight'
    BY <1>0, <2>1, <2>2 DEF RunsAreRight, RunsAreTrue, RunIsTrue, RunState
  <2>. QED
    BY <2>4, <2>5, <2>6, <2>7, Together
<1>4. ASSUME Restart PROVE InvoiceInv'
  <2>1. /\ UNCHANGED <<given, source, saved, circle, keys>> /\ cur' = FirstObject
        /\ heap' = [o \in Objects |-> IF o = FirstObject THEN saved ELSE Blank]
        /\ epoch' = Dropped /\ faults < MaxFaults /\ faults' = faults + 1
        /\ pc' = [t \in Threads |-> "idle"] /\ ref' = [t \in Threads |-> 0] /\ lock' = Nobody
        /\ run' = [t \in Threads |-> Unheard(run[t])]
    BY <1>4 DEF Restart
  <2>2. Sound(circle, given.free, Blank) /\ Blank \in Invoices
    BY <1>0, BlankIsSound DEF WorldIsTyped, Sound
  <2>3. MemoryIsSound'
    BY <1>0, <2>1, <2>2, FirstObjectIsOne, BoundAssumption DEF MemoryIsSound, CopiesAreSound
  <2>4. ThreadsAreTyped' /\ ThreadsHold'
    BY <2>1 DEF ThreadsAreTyped, ThreadsHold
  <2>5. WorldIsTyped'
    BY <1>0, <2>1 DEF WorldIsTyped, Dropped
  <2>6. RunsAreRight'
    BY <1>0, <2>1, OffIsTrue DEF RunsAreRight, RunsAreTrue, Unheard
  <2>. QED
    BY <2>3, <2>4, <2>5, <2>6, Together
<1>. QED
  BY <1>1, <1>2, <1>3, <1>4

LEMMA InvoiceInit == Init => InvoiceInv
<1>. SUFFICES ASSUME Init PROVE InvoiceInv
  OBVIOUS
<1>1. given \in [ruling : [Hashes -> Verdicts], sent : BOOLEAN, free : BOOLEAN,
                 fault : {"restart", "save"}, ends : BOOLEAN]
  BY SwitchAssumption DEF Init, Verdicts
<1>2. WorldIsTyped
  BY <1>1, BoundAssumption DEF Init, WorldIsTyped, Hashes, Keys
<1>3. Sound(circle, given.free, Blank) /\ Blank \in Invoices
  BY <1>1, BlankIsSound DEF Sound
<1>4. MemoryIsSound
  BY <1>3, FirstObjectIsOne, BoundAssumption DEF Init, MemoryIsSound, CopiesAreSound
<1>5. ThreadsAreTyped /\ ThreadsHold
  BY DEF Init, ThreadsAreTyped, ThreadsHold
<1>6. RunsAreRight
  BY OffIsTrue DEF Init, RunsAreRight, RunsAreTrue
<1>. QED
  BY <1>2, <1>4, <1>5, <1>6, Parts

LEMMA InvoiceStep == InvoiceInv /\ [Next]_vars => InvoiceInv'
<1>. SUFFICES ASSUME InvoiceInv, [Next]_vars PROVE InvoiceInv'
  OBVIOUS
<1>1. CASE UNCHANGED vars
  <2>1. /\ MemoryIsSound /\ ThreadsAreTyped /\ ThreadsHold /\ RunsAreRight /\ WorldIsTyped
        /\ UNCHANGED <<world, memory, threads, run, circle, keys, given>>
    BY <1>1, Parts DEF vars, world, sidecar
  <2>. QED
    BY <2>1, MemoryStays, ThreadsStay, RunsStay, WorldStays, Together DEF WorldIsTyped
<1>2. CASE Next
  BY <1>2, ThreadStep, SidecarStep, WorldStep DEF Next
<1>. QED
  BY <1>1, <1>2

LEMMA InvoiceInvariant == Spec => []InvoiceInv
<1>. QED
  BY InvoiceInit, InvoiceStep, PTL DEF Spec

-----------------------------------------------------------------------------
(***************************************************************************)
(* One copy, where no save is lost.                                        *)
(***************************************************************************)
(* What a request of the sidecar may hold of a plan with this key.           *)
WorksWith(r, k) ==
  /\ r.pc \in {"source", "mint", "minted", "poll"} => r.key = k
  /\ r.tx \in {0, k}

(* A copy is written on: it keeps its plan and key once it has them, and     *)
(* knows no transaction but that of its key.                                 *)
WritesOn(i, j) ==
  /\ i.plan # "none" => j.plan = i.plan /\ j.key = i.key
  /\ j.tx \in {0, j.key}

(* Nothing was sent under another key when a key is drawn.                   *)
LEMMA QuietWrite ==
  ASSUME InvoiceInv, OneCopy, given.fault # "save", given' = given, NEW j,
         \/ Save(cur, j) \/ SaveFails(cur, j)
         \/ /\ Set(cur, j) /\ UNCHANGED <<cur, saved, faults>>
            /\ j.plan = heap[cur].plan /\ j.key = heap[cur].key,
         WritesOn(heap[cur], j),
         \A t \in Threads : ref'[t] \in {0, cur},
         \A t \in Threads : run'[t] = run[t] \/ WorksWith(run'[t], j.key),
         \A k \in Keys : circle'[k] # "none" => circle[k] # "none" \/ k = j.key
  PROVE  OneCopy'
<1>0. /\ cur \in Objects /\ cur # 0 /\ \A t \in Threads : run[t] \in RunState /\ RunIsTrue(circle, run[t])
      /\ heap[cur].plan = saved.plan /\ heap[cur].key = saved.key
      /\ heap[cur].tx \in {0, saved.key} /\ saved.tx \in {0, saved.key}
      /\ \A t \in Threads : WorksWith(run[t], saved.key)
      /\ \A k \in Keys : circle[k] # "none" => k = saved.key
      /\ saved.plan = "none" => saved.key = 0
  BY DEF InvoiceInv, TypeOK, OneCopy, RunsAreTrue, RunState, CopiesAreSound, Sound, WorksWith
<1>1. cur' = cur /\ heap'[cur] = j
  BY <1>0 DEF Save, SaveFails, Set
<1>2. saved' = j \/ (saved' = saved /\ j.plan = saved.plan /\ j.key = saved.key)
  BY <1>0 DEF Save, SaveFails
<1>3. saved.plan = "none" =>
        /\ \A t \in Threads : run[t].pc \notin {"source", "mint", "minted", "poll"} /\ run[t].tx = 0
        /\ \A k \in Keys : circle[k] = "none"
  BY <1>0, BoundAssumption DEF RunIsTrue, WorksWith, Keys
<1>4. saved.plan # "none" => j.key = saved.key
  BY <1>0 DEF WritesOn
<1>5. saved'.key = j.key /\ saved'.plan = j.plan /\ saved'.tx \in {0, j.key} /\ j.tx \in {0, j.key}
  BY <1>0, <1>2 DEF WritesOn
<1>6. \A t \in Threads : WorksWith(run'[t], j.key)
  BY <1>0, <1>3, <1>4 DEF WorksWith
<1>7. \A k \in Keys : circle'[k] # "none" => k = j.key
  BY <1>0, <1>3, <1>4
<1>. QED
  BY <1>0, <1>1, <1>5, <1>6, <1>7 DEF OneCopy, WorksWith

(* The same when the memory stays.                                           *)
LEMMA QuietStay ==
  ASSUME InvoiceInv, OneCopy, given.fault # "save", UNCHANGED <<given, memory>>,
         \A t \in Threads : ref'[t] \in {0, cur},
         \A t \in Threads : run'[t] = run[t] \/ WorksWith(run'[t], saved.key),
         \A k \in Keys : circle'[k] # "none" => circle[k] # "none" \/ k = saved.key
  PROVE  OneCopy'
  BY DEF OneCopy, WorksWith, memory

(* Threads never hold another copy.                                          *)
LEMMA QuietRefs ==
  ASSUME InvoiceInv, OneCopy, given.fault # "save", NEW t \in Threads,
         \/ UNCHANGED ref \/ Done(t) \/ Again(t) \/ End(t)
         \/ \E l \in {"verify", "ask", "settle", "wait"} : Goto(t, l)
         \/ \E o \in Objects, l \in {"claim", "bind", "refresh", "verify"} : Loads(o) /\ Begin(t, o, l)
  PROVE  \A u \in Threads : ref'[u] \in {0, cur}
<1>1. cur # 0 /\ ref \in [Threads -> Objects \cup {0}] /\ \A u \in Threads : ref[u] \in {0, cur}
  BY DEF OneCopy, InvoiceInv, TypeOK
<1>2. \A o \in Objects : Loads(o) => o = cur
  BY <1>1 DEF Loads
<1>. QED
  BY <1>1, <1>2 DEF Done, Again, End, Goto, Begin

LEMMA SavesAreRefs ==
  ASSUME NEW t, NEW i, NEW l, SaveAndGo(t, i, l) \/ SaveAndEnd(t, i)
  PROVE  /\ Save(ref[t], i) \/ SaveFails(ref[t], i)
         /\ Goto(t, l) \/ Done(t) \/ Again(t) \/ End(t)
  BY DEF SaveAndGo, SaveAndEnd

(* A thread writes on its copy, with or without saving it.                   *)
LEMMA QuietThread ==
  ASSUME InvoiceInv, OneCopy, given.fault # "save", UNCHANGED <<given, circle>>,
         NEW t \in Threads, ref[t] # 0, NEW j, WritesOn(heap[cur], j),
         NEW l \in {"verify", "ask", "settle", "wait"},
         \/ SaveAndGo(t, j, l) \/ SaveAndEnd(t, j)
         \/ Save(ref[t], j) /\ (Goto(t, l) \/ UNCHANGED ref)
         \/ SaveFails(ref[t], j) /\ (Done(t) \/ Again(t))
         \/ /\ Set(ref[t], j) /\ UNCHANGED <<cur, saved, faults>> /\ (Goto(t, l) \/ End(t))
            /\ j.plan = heap[cur].plan /\ j.key = heap[cur].key,
         \A u \in Threads : run'[u] = run[u] \/ WorksWith(run'[u], j.key)
  PROVE  OneCopy'
<1>1. ref[t] = cur
  BY DEF OneCopy
<1>2. \/ Save(cur, j) \/ SaveFails(cur, j)
      \/ /\ Set(cur, j) /\ UNCHANGED <<cur, saved, faults>>
         /\ j.plan = heap[cur].plan /\ j.key = heap[cur].key
  BY <1>1, SavesAreRefs
<1>3. \/ UNCHANGED ref \/ Done(t) \/ Again(t) \/ End(t) \/ Goto(t, l)
  BY SavesAreRefs
<1>4. \A u \in Threads : ref'[u] \in {0, cur}
  BY <1>3, QuietRefs
<1>. QED
  BY <1>2, <1>4, QuietWrite

(* What a copy of a thread at work is, where there is one copy.              *)
LEMMA FindsOne ==
  ASSUME InvoiceInv, OneCopy, given.fault # "save"
  PROVE  /\ cur \in Objects /\ cur # 0 /\ heap[cur] \in Invoices
         /\ Sound(circle, given.free, heap[cur])
         /\ heap[cur].tx \in {0, heap[cur].key}
         /\ \A t \in Threads : pc[t] # "idle" => ref[t] = cur /\ ref[t] # 0
         /\ \A t \in Threads : run[t] \in RunState /\ RunIsTrue(circle, run[t])
         /\ \A t \in Threads : WorksWith(run[t], heap[cur].key)
  BY DEF InvoiceInv, OneCopy, TypeOK, ThreadsHold, CopiesAreSound, RunsAreTrue, RunState, WorksWith

LEMMA OffWorks ==
  ASSUME NEW k, NEW p
  PROVE  /\ WorksWith(Off, k) /\ WorksWith(Error, k)
         /\ WorksWith([Off EXCEPT !.pc = "fetch", !.plan = p], k)
         /\ WorksWith([Off EXCEPT !.pc = "failed", !.plan = p], k)
  BY DEF Off, Error, WorksWith

LEMMA QuietPlan ==
  ASSUME InvoiceInv, NEW i, Sound(circle, given.free, i), i.tx \in {0, i.key},
         ~Refuses(i), DrawsKey(i)
  PROVE  WritesOn(i, Planned(i)) /\ Planned(i).plan # "none"
<1>1. TypeOK
  BY DEF InvoiceInv
<1>2. /\ Planned(i).plan # "none" /\ Planned(i).tx = i.tx
      /\ i.plan # "none" => Planned(i) = i
  BY <1>1, PlanningIsSound
<1>3. i.plan = "none" => i.tx = 0
  BY DEF Sound
<1>. QED
  BY <1>2, <1>3 DEF WritesOn

LEMMA QuietThreadStep ==
  ASSUME InvoiceInv, OneCopy, given.fault # "save", NEW t \in Threads, Thread(t)
  PROVE  OneCopy'
<1>0. /\ cur \in Objects /\ cur # 0 /\ heap[cur] \in Invoices
      /\ Sound(circle, given.free, heap[cur]) /\ heap[cur].tx \in {0, heap[cur].key}
      /\ \A u \in Threads : pc[u] # "idle" => ref[u] = cur /\ ref[u] # 0
      /\ \A u \in Threads : run[u] \in RunState /\ RunIsTrue(circle, run[u])
      /\ \A u \in Threads : WorksWith(run[u], heap[cur].key)
  BY FindsOne
<1>1. ASSUME VerifyPayment(t) \/ StatusPoll(t) \/ SweepPending(t) \/ SweepSettlement(t) \/ Claim(t)
      PROVE  OneCopy'
  <2>1. PICK o \in Objects, l \in {"claim", "bind", "refresh", "verify"} :
          Loads(o) /\ (Begin(t, o, l) \/ Done(t))
    BY <1>1 DEF VerifyPayment, StatusPoll, SweepPending, SweepSettlement, Claim
  <2>2. UNCHANGED <<world, sidecar, keys>> /\ UNCHANGED memory
    BY <1>0, <1>1, <2>1 DEF VerifyPayment, StatusPoll, SweepPending, SweepSettlement, Claim, Loads
  <2>3. \A u \in Threads : ref'[u] \in {0, cur}
    BY <2>1, QuietRefs
  <2>. QED
    BY <2>2, <2>3, QuietStay DEF world, sidecar
<1>2. ASSUME NEW j, j.plan = heap[cur].plan, j.key = heap[cur].key, j.tx = heap[cur].tx,
             ref[t] = cur, ref[t] # 0, UNCHANGED <<given, sidecar>>,
             NEW l \in {"verify", "ask", "settle", "wait"},
             \/ SaveAndGo(t, j, l) \/ SaveAndEnd(t, j)
             \/ Save(ref[t], j) /\ UNCHANGED ref
             \/ SaveFails(ref[t], j) /\ (Done(t) \/ Again(t))
             \/ Set(ref[t], j) /\ UNCHANGED <<cur, saved, faults>> /\ (Goto(t, l) \/ End(t))
      PROVE  OneCopy'
  <2>1. WritesOn(heap[cur], j)
    BY <1>0, <1>2 DEF WritesOn
  <2>. QED
    BY <1>2, <2>1, QuietThread DEF sidecar
<1>3. ASSUME Bind(t) PROVE OneCopy'
  <2>. DEFINE j == [heap[ref[t]] EXCEPT !.status = "verification_pending", !.gateway = source]
  <2>1. SaveAndGo(t, j, "verify") /\ UNCHANGED <<given, sidecar>> /\ ref[t] = cur /\ ref[t] # 0
    BY <1>0, <1>3 DEF Bind, world
  <2>2. j.plan = heap[cur].plan /\ j.key = heap[cur].key /\ j.tx = heap[cur].tx
    BY <1>0, <2>1 DEF Invoices
  <2>. HIDE DEF j
  <2>. QED
    BY <1>2, <2>1, <2>2
<1>4. ASSUME Refresh(t) PROVE OneCopy'
  <2>. DEFINE j == [heap[ref[t]] EXCEPT !.gateway = source]
  <2>1. /\ Set(ref[t], j) /\ Goto(t, "settle") /\ UNCHANGED <<cur, saved, faults>>
        /\ UNCHANGED <<given, sidecar>> /\ ref[t] = cur /\ ref[t] # 0
    BY <1>0, <1>4 DEF Refresh, world
  <2>2. j.plan = heap[cur].plan /\ j.key = heap[cur].key /\ j.tx = heap[cur].tx
    BY <1>0, <2>1 DEF Invoices
  <2>. HIDE DEF j
  <2>. QED
    BY <1>2, <2>1, <2>2
<1>5. ASSUME UNCHANGED <<given, sidecar, memory>>, Done(t) \/ End(t) \/ UNCHANGED ref PROVE OneCopy'
  <2>1. \A u \in Threads : ref'[u] \in {0, cur}
    BY <1>5, QuietRefs
  <2>. QED
    BY <1>5, <2>1, QuietStay DEF sidecar
<1>6. ASSUME Unanswered(t) PROVE OneCopy'
  <2>. DEFINE j == [heap[ref[t]] EXCEPT !.status = "verification_pending", !.verdict = "none"]
  <2>1. /\ (UNCHANGED memory /\ End(t)) \/ SaveAndEnd(t, j)
        /\ UNCHANGED <<given, sidecar>> /\ ref[t] = cur /\ ref[t] # 0
    BY <1>0, <1>6 DEF Unanswered
  <2>2. j.plan = heap[cur].plan /\ j.key = heap[cur].key /\ j.tx = heap[cur].tx
    BY <1>0, <2>1 DEF Invoices
  <2>. HIDE DEF j
  <2>. QED
    BY <1>2, <1>5, <2>1, <2>2
<1>7. ASSUME Verify(t) PROVE OneCopy'
  <2>. DEFINE R(g) == [heap[ref[t]] EXCEPT !.gateway = g, !.status = "verification_rejected"]
              P(g) == [heap[ref[t]] EXCEPT !.gateway = g, !.status = "verification_pending",
                                           !.hash = ReportOf(heap[ref[t]])]
  <2>1. UNCHANGED <<given, sidecar>> /\ ref[t] = cur /\ ref[t] # 0
    BY <1>0, <1>7 DEF Verify, world
  <2>2. CASE Done(t) /\ UNCHANGED memory
    BY <1>5, <2>1, <2>2
  <2>3. CASE ~(Done(t) /\ UNCHANGED memory)
    <3>1. PICK g : \E j \in {R(g), P(g)} :
            (Save(ref[t], j) /\ UNCHANGED ref) \/ (SaveFails(ref[t], j) /\ (Done(t) \/ Again(t)))
      BY <1>7, <2>3 DEF Verify
    <3>2. \A j \in {R(g), P(g)} : j.plan = heap[cur].plan /\ j.key = heap[cur].key /\ j.tx = heap[cur].tx
      BY <1>0, <2>1 DEF Invoices
    <3>. HIDE DEF R, P
    <3>3. PICK j \in {R(g), P(g)} :
            (Save(ref[t], j) /\ UNCHANGED ref) \/ (SaveFails(ref[t], j) /\ (Done(t) \/ Again(t)))
      BY <3>1
    <3>. QED
      BY <1>2, <2>1, <3>2, <3>3
  <2>. QED
    BY <2>2, <2>3
<1>8. ASSUME BindFails(t) \/ RefreshFails(t) PROVE OneCopy'
  BY <1>5, <1>8 DEF BindFails, RefreshFails, Goto, world
<1>9. ASSUME Answered(t) PROVE OneCopy'
  <2>1. UNCHANGED <<given, sidecar>> /\ ref[t] = cur /\ ref[t] # 0
    BY <1>0, <1>9 DEF Answered
  <2>. DEFINE i == [heap[ref[t]] EXCEPT !.verdict = given.ruling[heap[ref[t]].hash]]
              x == [i EXCEPT !.status = "verification_rejected"]
              y == [Planned(i) EXCEPT !.status = "paid"]
  <2>2. \/ SaveAndGo(t, x, "settle")
        \/ Set(ref[t], i) /\ End(t) /\ UNCHANGED <<cur, saved, faults>>
        \/ i.verdict = "VALID" /\ ~Refuses(i) /\ DrawsKey(i) /\ SaveAndGo(t, y, "settle")
    BY <1>9 DEF Answered
  <2>3. /\ i.plan = heap[cur].plan /\ i.key = heap[cur].key /\ i.tx = heap[cur].tx
        /\ x.plan = heap[cur].plan /\ x.key = heap[cur].key /\ x.tx = heap[cur].tx
    BY <1>0, <2>1 DEF Invoices
  <2>4. ASSUME i.verdict = "VALID", ~Refuses(i), DrawsKey(i) PROVE WritesOn(heap[cur], y)
    <3>1. i = [heap[cur] EXCEPT !.verdict = "VALID"]
      BY <1>0, <2>1, <2>4 DEF Invoices
    <3>2. Sound(circle, given.free, i)
      <4>1. given.free \in BOOLEAN
        BY DEF InvoiceInv, TypeOK
      <4>2. Sound(circle, given.free, [heap[cur] EXCEPT !.verdict = "VALID"])
        BY <1>0, <4>1, RuledIsSound
      <4>. QED
        BY <3>1, <4>2
    <3>. HIDE DEF i
    <3>3. WritesOn(i, Planned(i))
      BY <1>0, <2>3, <2>4, <3>2, QuietPlan
    <3>4. Planned(i) \in Invoices
      BY <2>4, <3>2, PlanningIsSound DEF Sound, InvoiceInv
    <3>5. y.plan = Planned(i).plan /\ y.key = Planned(i).key /\ y.tx = Planned(i).tx
      BY <3>4 DEF Invoices
    <3>. HIDE DEF y
    <3>. QED
      BY <2>3, <3>3, <3>5 DEF WritesOn
  <2>. HIDE DEF i, x, y
  <2>5. CASE SaveAndGo(t, x, "settle")
    BY <1>2, <2>1, <2>3, <2>5
  <2>6. CASE Set(ref[t], i) /\ End(t) /\ UNCHANGED <<cur, saved, faults>>
    BY <1>2, <2>1, <2>3, <2>6
  <2>7. CASE i.verdict = "VALID" /\ ~Refuses(i) /\ DrawsKey(i) /\ SaveAndGo(t, y, "settle")
    BY <2>1, <2>4, <2>7, QuietThread DEF sidecar
  <2>. QED
    BY <2>2, <2>5, <2>6, <2>7
<1>10. ASSUME Settle(t) PROVE OneCopy'
  <2>1. UNCHANGED <<given, circle>> /\ ref[t] = cur /\ ref[t] # 0 /\ run \in [Threads -> RunState]
    BY <1>0, <1>10 DEF Settle, world, InvoiceInv, TypeOK, RunState
  <2>2. CASE Refuses(heap[ref[t]])
    <3>1. /\ SaveAndEnd(t, heap[cur]) \/ (End(t) /\ UNCHANGED memory)
          /\ UNCHANGED sidecar
      BY <1>10, <2>1, <2>2 DEF Settle, sidecar
    <3>. QED
      BY <1>2, <1>5, <2>1, <3>1
  <2>3. CASE ~Refuses(heap[ref[t]])
    <3>. DEFINE j == Planned(heap[cur])
    <3>1. /\ DrawsKey(heap[cur])
          /\ \/ SaveAndEnd(t, j) /\ run' = run
             \/ Save(ref[t], j) /\ Goto(t, "wait")
             \/ SaveFails(ref[t], j) /\ (Done(t) \/ Again(t))
          /\ \/ run' = run
             \/ run' = [run EXCEPT ![t] = [Off EXCEPT !.pc = "fetch", !.plan = j.plan]]
      BY <1>10, <2>1, <2>3 DEF Settle
    <3>2. WritesOn(heap[cur], j)
      BY <1>0, <2>1, <2>3, <3>1, QuietPlan
    <3>. HIDE DEF j
    <3>3. \A u \in Threads : run'[u] = run[u] \/ WorksWith(run'[u], j.key)
      <4>1. \A u \in Threads : run'[u] = run[u] \/ run'[u] = [Off EXCEPT !.pc = "fetch", !.plan = j.plan]
        BY <2>1, <3>1
      <4>2. WorksWith([Off EXCEPT !.pc = "fetch", !.plan = j.plan], j.key)
        BY DEF Off, WorksWith
      <4>. QED
        BY <4>1, <4>2
    <3>. QED
      BY <2>1, <3>1, <3>2, <3>3, QuietThread
  <2>. QED
    BY <2>2, <2>3
<1>11. ASSUME Answer(t) PROVE OneCopy'
  <2>. DEFINE c == [plan |-> run[t].plan, phase |-> run[t].found, tx |-> run[t].tx]
              j == IF run[t].pc = "error" \/ Rejects(heap[cur], c) THEN heap[cur] ELSE Applied(heap[cur], c)
  <2>1. /\ UNCHANGED <<given, circle>> /\ ref[t] = cur /\ ref[t] # 0 /\ run \in [Threads -> RunState]
        /\ pc[t] = "wait" /\ run[t].pc \in {"answer", "error"}
    BY <1>0, <1>11 DEF Answer, world, InvoiceInv, TypeOK, RunState
  <2>2. SaveAndEnd(t, j) /\ run' = [run EXCEPT ![t] = Off]
    BY <1>11, <2>1 DEF Answer
  <2>3. heap[cur].plan # "none"
    BY <2>1 DEF InvoiceInv, ThreadsHold
  <2>4. WritesOn(heap[cur], j)
    <3>1. CASE run[t].pc = "error" \/ Rejects(heap[cur], c)
      BY <1>0, <3>1 DEF WritesOn
    <3>2. CASE ~(run[t].pc = "error" \/ Rejects(heap[cur], c))
      <4>1. j = Applied(heap[cur], c)
        BY <3>2
      <4>2. Planned(heap[cur]) = heap[cur]
        BY <2>3 DEF Planned
      <4>3. /\ c.plan = heap[cur].plan /\ c.tx \in Keys \cup {0} /\ c.tx \in {0, heap[cur].key}
            /\ c.phase \in {"open"} \cup FinalPhases /\ (c.phase = "confirmed" => Paid(circle, c.tx))
        BY <1>0, <2>1, <3>2, <4>2 DEF Rejects, RunState, RunIsTrue, WorksWith
      <4>4. given.free \in BOOLEAN
        BY DEF InvoiceInv, TypeOK
      <4>. HIDE DEF c, j
      <4>5. j.plan = heap[cur].plan /\ j.key = heap[cur].key /\ j.tx \in {heap[cur].tx, c.tx}
        BY <1>0, <2>3, <4>1, <4>3, <4>4, ReportIsSound
      <4>. QED
        BY <1>0, <4>3, <4>5 DEF WritesOn
    <3>. QED
      BY <3>1, <3>2
  <2>5. \A u \in Threads : run'[u] = run[u] \/ WorksWith(run'[u], j.key)
    <3>1. \A u \in Threads : run'[u] = run[u] \/ run'[u] = Off
      BY <2>1, <2>2
    <3>. HIDE DEF j
    <3>. QED
      BY <3>1, OffWorks
  <2>. HIDE DEF j
  <2>. QED
    BY <2>1, <2>2, <2>4, <2>5, QuietThread
<1>12. ASSUME Timeout(t) PROVE OneCopy'
  <2>1. /\ UNCHANGED <<given, circle>> /\ ref[t] = cur /\ ref[t] # 0
        /\ SaveAndEnd(t, heap[cur]) /\ run' = [run EXCEPT ![t] = Unheard(@)]
        /\ run \in [Threads -> RunState]
    BY <1>0, <1>12 DEF Timeout, world, InvoiceInv, TypeOK, RunState
  <2>2. WritesOn(heap[cur], heap[cur])
    BY <1>0 DEF WritesOn
  <2>3. \A u \in Threads : run'[u] = run[u] \/ run'[u] = Off
    BY <2>1 DEF Unheard
  <2>4. \A u \in Threads : run'[u] = run[u] \/ WorksWith(run'[u], heap[cur].key)
    BY <2>3, OffWorks
  <2>. QED
    BY <2>1, <2>2, <2>4, QuietThread
<1>. QED
  BY <1>1, <1>3, <1>4, <1>6, <1>7, <1>8, <1>9, <1>10, <1>11, <1>12 DEF Thread

(* What a checkpoint writes in the copy of the table.                        *)
LEMMA QuietCheckpoint ==
  ASSUME InvoiceInv, OneCopy, given.fault # "save", UNCHANGED <<given, threads, circle>>,
         NEW r, Checkpoint(r) \/ CheckpointLost(r),
         r.phase \in {"open"} \cup FinalPhases, r.tx \in {0, Planned(heap[cur]).key},
         r.phase = "confirmed" => Paid(circle, r.tx), r.tx \in Keys \cup {0},
         \A t \in Threads : run'[t] = run[t] \/ WorksWith(run'[t], Planned(heap[cur]).key)
  PROVE  OneCopy'
<1>0. /\ cur \in Objects /\ cur # 0 /\ heap[cur] \in Invoices
      /\ Sound(circle, given.free, heap[cur]) /\ heap[cur].tx \in {0, heap[cur].key}
  BY FindsOne
<1>. DEFINE i == Planned(heap[cur])
            j == Applied(i, r)
<1>1. /\ ~Refuses(heap[cur]) /\ i.plan = r.plan /\ DrawsKey(heap[cur])
      /\ Save(cur, j) \/ SaveFails(cur, j)
  BY DEF Checkpoint, CheckpointLost, Rejects
<1>2. WritesOn(heap[cur], i) /\ i.plan # "none"
  BY <1>0, <1>1, QuietPlan
<1>3. Sound(circle, given.free, i) /\ given.free \in BOOLEAN
  BY <1>0, <1>1, PlanningIsSound DEF InvoiceInv, TypeOK
<1>. HIDE DEF i
<1>4. j.plan = i.plan /\ j.key = i.key /\ j.tx \in {i.tx, r.tx}
  BY <1>1, <1>2, <1>3, ReportIsSound
<1>5. \A t \in Threads : run'[t] = run[t] \/ WorksWith(run'[t], j.key)
  BY <1>4 DEF i
<1>6. r.tx \in {0, i.key}
  BY DEF i
<1>. HIDE DEF j
<1>7. WritesOn(heap[cur], j)
  BY <1>2, <1>4, <1>6 DEF WritesOn
<1>8. \A t \in Threads : ref'[t] \in {0, cur}
  BY DEF OneCopy, threads
<1>. QED
  BY <1>1, <1>5, <1>7, <1>8, QuietWrite

LEMMA QuietSidecarStep ==
  ASSUME InvoiceInv, OneCopy, given.fault # "save", NEW t \in Threads, Sidecar(t)
  PROVE  OneCopy'
<1>0. /\ cur \in Objects /\ cur # 0 /\ heap[cur] \in Invoices
      /\ Sound(circle, given.free, heap[cur]) /\ heap[cur].tx \in {0, heap[cur].key}
      /\ run[t] \in RunState /\ RunIsTrue(circle, run[t]) /\ WorksWith(run[t], heap[cur].key)
      /\ heap[cur].key = saved.key /\ run \in [Threads -> RunState]
  BY FindsOne DEF OneCopy, InvoiceInv, TypeOK, RunState
<1>1. \A u \in Threads : ref[u] \in {0, cur}
  BY DEF OneCopy
<1>2. ASSUME run[t].pc \in {"source", "minted", "poll"} \/ run[t].tx # 0
      PROVE  Planned(heap[cur]).key = heap[cur].key
  <2>1. heap[cur].key # 0
    BY <1>0, <1>2 DEF RunIsTrue, WorksWith
  <2>. QED
    BY <1>0, <2>1 DEF Planned, Sound
<1>3. ASSUME UNCHANGED <<given, memory, threads, circle>>,
             \A u \in Threads : run'[u] = run[u] \/ WorksWith(run'[u], heap[cur].key)
      PROVE  OneCopy'
  BY <1>0, <1>1, <1>3, QuietStay DEF threads
<1>4. ASSUME NEW k PROVE WorksWith(Off, k) /\ WorksWith(Error, k)
  BY OffWorks
<1>5. ASSUME Fetch(t) PROVE OneCopy'
  <2>. DEFINE i == Planned(heap[cur])
              s == IF i.plan = "buyer_refund" /\ ~given.sent THEN "failed" ELSE "source"
              r == [run[t] EXCEPT !.key = i.key, !.tx = i.tx, !.pc = s]
  <2>1. /\ ~Refuses(heap[cur]) /\ DrawsKey(heap[cur]) /\ Save(cur, i)
        /\ run' = [run EXCEPT ![t] = r] /\ UNCHANGED <<given, threads, circle>>
    BY <1>5 DEF Fetch, Rejects, Run, world
  <2>2. WritesOn(heap[cur], i)
    BY <1>0, <2>1, QuietPlan
  <2>3. r.key = i.key /\ r.tx = i.tx
    BY <1>0 DEF RunState
  <2>4. \A u \in Threads : run'[u] = run[u] \/ run'[u] = r
    BY <1>0, <2>1
  <2>. HIDE DEF i, r
  <2>5. WorksWith(r, i.key)
    BY <2>2, <2>3 DEF WorksWith, WritesOn
  <2>6. \A u \in Threads : run'[u] = run[u] \/ WorksWith(run'[u], i.key)
    BY <2>4, <2>5
  <2>7. \A u \in Threads : ref'[u] \in {0, cur}
    BY <1>1, <2>1 DEF threads
  <2>. QED
    BY <2>1, <2>2, <2>6, <2>7, QuietWrite
<1>6. ASSUME Mint(t) PROVE OneCopy'
  <2>1. /\ run[t].pc = "mint" /\ UNCHANGED <<given, memory, threads>>
        /\ circle' = [circle EXCEPT ![run[t].key] = IF @ = "none" THEN "sent" ELSE @]
        /\ run' = [run EXCEPT ![t] = [run[t] EXCEPT !.tx = run[t].key, !.pc = "minted"]]
    BY <1>6 DEF Mint, Run, world
  <2>2. run[t].key = saved.key
    BY <1>0, <2>1 DEF WorksWith
  <2>3. \A u \in Threads : run'[u] = run[u] \/ WorksWith(run'[u], saved.key)
    BY <1>0, <2>1, <2>2 DEF RunState, WorksWith
  <2>4. \A k \in Keys : circle'[k] # "none" => circle[k] # "none" \/ k = saved.key
    BY <2>1, <2>2 DEF InvoiceInv, TypeOK
  <2>. QED
    BY <1>1, <2>1, <2>3, <2>4, QuietStay DEF threads
<1>7. ASSUME Confirm(t) \/ Minted(t) \/ Poll(t) PROVE OneCopy'
  <2>. DEFINE r == Report(t, IF run[t].pc = "poll" THEN PhaseOf(run[t].tx) ELSE "open",
                          IF run[t].pc = "source" THEN 0 ELSE run[t].tx)
  <2>1. /\ run[t].pc \in {"source", "minted", "poll"} /\ Checkpoint(r)
        /\ UNCHANGED <<given, threads, circle>>
    BY <1>7 DEF Confirm, Minted, Poll, world
  <2>2. /\ run[t].key # 0 /\ run[t].key = heap[cur].key /\ run[t].tx \in {0, heap[cur].key}
        /\ run[t].tx \in Keys \cup {0}
    BY <1>0, <2>1 DEF RunIsTrue, WorksWith, RunState
  <2>3. /\ r.phase \in {"open"} \cup FinalPhases /\ r.tx \in {0, Planned(heap[cur]).key}
        /\ (r.phase = "confirmed" => Paid(circle, r.tx)) /\ r.tx \in Keys \cup {0}
    BY <1>0, <1>2, <2>1, <2>2 DEF Report, PhaseOf, Paid, FinalPhases, RunIsTrue
  <2>4. \A u \in Threads : run'[u] = run[u] \/ WorksWith(run'[u], heap[cur].key)
    <3>1. CASE Confirm(t) \/ Minted(t)
      BY <1>0, <2>1, <2>2, <3>1 DEF Confirm, Minted, Run, RunState, WorksWith
    <3>2. CASE Poll(t)
      <4>1. \A u \in Threads : \/ run'[u] = run[u] \/ run'[u] = Off
                               \/ run'[u] = [run[t] EXCEPT !.pc = "answer", !.found = PhaseOf(run[t].tx)]
        BY <1>0, <3>2 DEF Poll, Reply, Run
      <4>2. WorksWith([run[t] EXCEPT !.pc = "answer", !.found = PhaseOf(run[t].tx)], heap[cur].key)
        BY <1>0, <2>2 DEF RunState, WorksWith
      <4>. QED
        BY <1>4, <4>1, <4>2
    <3>. QED
      BY <1>7, <3>1, <3>2
  <2>. HIDE DEF r
  <2>. QED
    BY <1>2, <2>1, <2>2, <2>3, <2>4, QuietCheckpoint
<1>8. ASSUME RunFails(t) \/ Retryable(t) \/ Vanish(t) PROVE OneCopy'
  <2>. DEFINE r == Report(t, IF run[t].pc = "poll" THEN PhaseOf(run[t].tx) ELSE "open",
                          IF run[t].pc = "failed" THEN 0 ELSE run[t].tx)
  <2>1. /\ UNCHANGED <<given, threads, circle>>
        /\ \/ UNCHANGED memory
           \/ /\ run[t].pc \in {"source", "minted", "poll", "failed"}
              /\ Checkpoint(r) \/ CheckpointLost(r)
    BY <1>8 DEF RunFails, Retryable, Vanish, world
  <2>2. \A u \in Threads : \/ run'[u] = run[u] \/ run'[u] = Off \/ run'[u] = Error
                           \/ run'[u] = [Off EXCEPT !.pc = "failed", !.plan = run[t].plan]
    BY <1>0, <1>8 DEF RunFails, Retryable, Vanish, Reply, Run
  <2>3. ASSUME NEW k PROVE \A u \in Threads : run'[u] = run[u] \/ WorksWith(run'[u], k)
    <3>1. WorksWith([Off EXCEPT !.pc = "failed", !.plan = run[t].plan], k)
      BY DEF Off, WorksWith
    <3>. QED
      BY <1>4, <2>2, <3>1
  <2>4. CASE UNCHANGED memory
    BY <1>3, <2>1, <2>3, <2>4
  <2>5. CASE run[t].pc \in {"source", "minted", "poll", "failed"} /\ (Checkpoint(r) \/ CheckpointLost(r))
    <3>1. /\ r.phase \in {"open"} \cup FinalPhases /\ r.tx \in {0, Planned(heap[cur]).key}
          /\ (r.phase = "confirmed" => Paid(circle, r.tx)) /\ r.tx \in Keys \cup {0}
      BY <1>0, <1>2, <2>5 DEF Report, PhaseOf, Paid, FinalPhases, RunIsTrue, WorksWith, RunState
    <3>. HIDE DEF r
    <3>. QED
      BY <2>1, <2>3, <2>5, <3>1, QuietCheckpoint
  <2>. QED
    BY <2>1, <2>4, <2>5
<1>. QED
  BY <1>5, <1>6, <1>7, <1>8 DEF Sidecar

LEMMA QuietWorldStep ==
  ASSUME InvoiceInv, OneCopy, given.fault # "save",
         \/ Dispute \/ SourceSettles \/ EpochExpires \/ EpochRebuilt \/ Restart
         \/ \E k \in Keys : TransactionEnds(k)
  PROVE  OneCopy'
<1>0. /\ cur \in Objects /\ cur # 0 /\ heap[cur] \in Invoices /\ heap[cur].tx \in {0, heap[cur].key}
      /\ \A t \in Threads : ref[t] \in {0, cur}
  BY FindsOne DEF OneCopy
<1>1. ASSUME Dispute PROVE OneCopy'
  <2>. DEFINE i == [heap[cur] EXCEPT !.gateway = source,
                      !.status = IF source = "failed" THEN "disputed" ELSE @]
  <2>1. (Save(cur, i) \/ SaveFails(cur, i)) /\ UNCHANGED <<given, threads, sidecar>>
    BY <1>1 DEF Dispute, world
  <2>2. WritesOn(heap[cur], i)
    BY <1>0 DEF WritesOn, Invoices
  <2>. HIDE DEF i
  <2>. QED
    BY <1>0, <2>1, <2>2, QuietWrite DEF sidecar, threads
<1>2. ASSUME SourceSettles \/ EpochExpires \/ EpochRebuilt PROVE OneCopy'
  BY <1>0, <1>2, QuietStay DEF SourceSettles, EpochExpires, EpochRebuilt, threads, sidecar
<1>3. ASSUME NEW k \in Keys, TransactionEnds(k) PROVE OneCopy'
  <2>1. /\ UNCHANGED <<given, memory, threads, run>> /\ circle[k] = "sent"
        /\ \A l \in Keys : circle'[l] # "none" => circle[l] # "none"
    BY <1>3 DEF TransactionEnds, world, InvoiceInv, TypeOK
  <2>. QED
    BY <1>0, <2>1, QuietStay DEF threads
<1>4. ASSUME Restart PROVE OneCopy'
  <2>1. /\ UNCHANGED <<given, saved, circle>> /\ cur' = FirstObject
        /\ heap' = [o \in Objects |-> IF o = FirstObject THEN saved ELSE Blank]
        /\ ref' = [t \in Threads |-> 0]
        /\ run' = [t \in Threads |-> Unheard(run[t])]
    BY <1>4 DEF Restart
  <2>2. FirstObject # 0 /\ heap'[cur'] = saved
    BY <2>1, FirstObjectIsOne, BoundAssumption
  <2>3. \A t \in Threads : WorksWith(run[t], saved.key) /\ saved.tx \in {0, saved.key}
    BY DEF OneCopy, WorksWith
  <2>4. \A t \in Threads : WorksWith(run'[t], saved.key)
    BY <2>1, <2>3, OffWorks DEF Unheard
  <2>. QED
    BY <2>1, <2>2, <2>3, <2>4 DEF OneCopy, WorksWith
<1>. QED
  BY <1>1, <1>2, <1>3, <1>4

LEMMA InvoiceInductive == Spec => []InvoiceIInv
<1>1. Init => InvoiceIInv
  <2>. SUFFICES ASSUME Init PROVE InvoiceIInv
    OBVIOUS
  <2>1. cur \in Objects /\ cur # 0 /\ heap[cur] = Blank /\ saved = Blank
    BY FirstObjectIsOne, BoundAssumption DEF Init
  <2>2. OneCopy
    BY <2>1 DEF Init, OneCopy, Off, Blank
  <2>. QED
    BY <2>2, InvoiceInit DEF InvoiceIInv
<1>2. InvoiceIInv /\ [Next]_vars => InvoiceIInv'
  <2>. SUFFICES ASSUME InvoiceInv, OneCopy, [Next]_vars PROVE InvoiceInv' /\ OneCopy'
    BY DEF InvoiceIInv
  <2>1. InvoiceInv'
    BY InvoiceStep
  <2>2. OneCopy'
    <3>1. CASE UNCHANGED vars
      BY <3>1 DEF vars, world, memory, threads, sidecar, OneCopy
    <3>2. given' = given
      <4>1. \A t \in Threads : Thread(t) => given' = given
        <5>1. ASSUME NEW t \in Threads, Thread(t), ~Verify(t), ~Answered(t), ~Settle(t) PROVE given' = given
          BY <5>1 DEF world, Thread, VerifyPayment, StatusPoll, SweepPending, SweepSettlement,
               Claim, Bind, BindFails, Refresh, RefreshFails, Unanswered, Answer, Timeout
        <5>2. ASSUME NEW t \in Threads, Verify(t) \/ Answered(t) \/ Settle(t) PROVE given' = given
          BY <5>2 DEF world, Verify, Answered, Settle
        <5>. QED
          BY <5>1, <5>2
      <4>2. \A t \in Threads : Sidecar(t) => given' = given
        BY DEF world, Sidecar, Fetch, Confirm, Mint, Minted, Poll, RunFails, Retryable, Vanish
      <4>. QED
        BY <4>1, <4>2 DEF Next, vars, world, Dispute, SourceSettles, EpochExpires, EpochRebuilt,
             TransactionEnds, Restart
    <3>3. CASE given.fault = "save"
      BY <3>2, <3>3 DEF OneCopy
    <3>4. CASE Next /\ given.fault # "save"
      BY <3>4, QuietThreadStep, QuietSidecarStep, QuietWorldStep DEF Next
    <3>. QED
      BY <3>1, <3>3, <3>4
  <2>. QED
    BY <2>1, <2>2
<1>. QED
  BY <1>1, <1>2, PTL DEF Spec

-----------------------------------------------------------------------------
(***************************************************************************)
(* Theorems.                                                               *)
(***************************************************************************)
(* The variables of the settlement have their types, whatever fails.         *)
THEOREM TypeCorrect == Spec => []TypeOK
<1>1. InvoiceInv => TypeOK
  BY DEF InvoiceInv
<1>. QED
  BY <1>1, InvoiceInvariant, PTL

(* The buyer never has both the report and the money: a paid invoice is one  *)
(* that GenLayer ruled VALID and that is planned to pay the creator, in the  *)
(* row and in every copy, also in one that a failed save left behind         *)
(* (genlayer_reconcile_service.py, arc_verdict_settlement.py).               *)
THEOREM ReportOrMoney == Spec => []ReportOrRefund
<1>1. InvoiceInv => ReportOrRefund
  BY DEF InvoiceInv, CopiesAreSound, Sound, ReportOrRefund
<1>. QED
  BY <1>1, InvoiceInvariant, PTL

(* A transfer is recorded as done, and an invoice as refunded, only when     *)
(* Circle has completed the transaction (apply_arc_settlement_checkpoint).   *)
THEOREM ConfirmedByCircle == Spec => []ConfirmedIsComplete
<1>1. InvoiceInv => ConfirmedIsComplete
  BY DEF InvoiceInv, CopiesAreSound, Sound, Paid, ConfirmedIsComplete
<1>. QED
  BY <1>1, InvoiceInvariant, PTL

(* No retry, timeout, lost answer or restart pays a second time: every       *)
(* transaction Circle has for the invoice is under the one key of its saved  *)
(* plan (arc_verdict_settlement.py, "created once and persisted before any   *)
(* Circle mutation"), for any number of requests, sweeps and sidecar runs,   *)
(* unless a save fails.                                                      *)
THEOREM OneKey == Spec => []OnePersistedKey
<1>1. InvoiceIInv => OnePersistedKey
  BY DEF InvoiceIInv, OneCopy, OnePersistedKey
<1>. QED
  BY <1>1, InvoiceInductive, PTL
=============================================================================
