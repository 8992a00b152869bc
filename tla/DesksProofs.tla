---------------------------- MODULE DesksProofs -----------------------------
(***************************************************************************)
(* Theorems about the desks and books of the operator, each on its own     *)
(* variables: the StableFX desk, the USYC vault, the Earn position, the    *)
(* treasury's sweeps, the audit trail, the plans of the swap router, the   *)
(* emergency halt, the epochs of market data, the tables of records and    *)
(* the limits on requests and relays.                                      *)
(***************************************************************************)
EXTENDS StableFxDesk, UsycVault, EarnLedger, TreasuryDesk, EuthynaChain, SwapQuotes,
        EmergencyHalt, MarketEpoch, RecordStores, RequestLimits, FiniteSetTheorems,
        FunctionTheorems, SequenceTheorems, TLAPS

-----------------------------------------------------------------------------
(***************************************************************************)
(* The StableFX desk: a deposit is paid out at most once, whatever requests*)
(* are repeated, payouts fail unheard, the trail is not written, and       *)
(* restarts forget what was tried, unless a failed read dropped its entry. *)
(***************************************************************************)
DeskPlaces == {"idle", "lock", "build", "mark", "send", "record"}

(* What rates, reservations, payouts and requests are.                       *)
DeskTypes ==
  /\ tick \in Nat /\ feed \subseteq Rates
  /\ rateCache \subseteq [rate: Rates, at: Nat]
  /\ reservation \in [Deposits -> {"none", "reserved", "broadcast"}]
  /\ forgotten \subseteq Deposits
  /\ payouts \subseteq [deposit: Deposits, rate: Rates \cup {0}, by: Settlers, at: Nat]
  /\ settler \in [Settlers -> [at: DeskPlaces, deposit: SUBSET Deposits, rate: Rates \cup {0}]]
  /\ \A c \in Settlers : settler[c].at # "idle" => settler[c].deposit # {}

(* The request past its reservation is the one that has the desk.            *)
OneAtTheDesk ==
  \A c \in Settlers : settler[c].at \in {"build", "mark", "send", "record"} => fxDesk = c

(* What the request at the desk knows of its deposit: it is reserved, not    *)
(* paid before the payout is sent unless its entry was dropped before, and   *)
(* flagged as tried from the mark on.                                        *)
DepositInHand ==
  \A c \in Settlers :
    /\ settler[c].at \in {"build", "mark", "send", "record"} =>
         reservation[Deposit(c)] # "none"
    /\ settler[c].at \in {"build", "mark", "send"} =>
         \A p \in payouts : p.deposit # Deposit(c) \/ p.deposit \in forgotten
    /\ settler[c].at \in {"mark", "send", "record"} => Deposit(c) \in attempted

(* A deposit that was paid out stays reserved, or its entry was dropped.     *)
PaidStaysReserved == \A p \in payouts : reservation[p.deposit] # "none" \/ p.deposit \in forgotten

FxInv == DeskTypes /\ OneAtTheDesk /\ DepositInHand /\ PaidStaysReserved /\ OnePayoutPerDeposit

(* The rate of a quote or a payout is one a feed gave or the configured one. *)
LEMMA RateTyped ==
  ASSUME FxInv
  PROVE  UsdPerEur \in Rates /\ (Cached => rateCache' \subseteq [rate: Rates, at: Nat])
<1>1. FeedRate \in Rates
  BY FxAssumption DEF FeedRate, FxInv, DeskTypes
<1>2. ASSUME Fresh PROVE (CHOOSE e \in rateCache : TRUE).rate \in Rates
  <2>1. PICK e \in rateCache : tick - e.at < CacheTicks
    BY <1>2 DEF Fresh
  <2>2. (CHOOSE x \in rateCache : TRUE) \in rateCache
    BY <2>1
  <2>. QED
    BY <2>2 DEF FxInv, DeskTypes
<1>. QED
  BY <1>1, <1>2 DEF UsdPerEur, Cached, FxInv, DeskTypes

(* A request under way has a deposit of the desk.                            *)
LEMMA InHand ==
  ASSUME FxInv, NEW c \in Settlers, settler[c].at # "idle"
  PROVE  Deposit(c) \in Deposits
<1>1. settler[c].deposit # {} /\ settler[c].deposit \subseteq Deposits
  BY DEF FxInv, DeskTypes
<1>. QED
  BY <1>1 DEF Deposit

(* A step of one request keeps the deposits of all that go on.               *)
LEMMA StepKeeps ==
  ASSUME FxInv, NEW c \in Settlers, NEW next \in DeskPlaces, settler[c].at # "idle",
         settler' = [settler EXCEPT ![c].at = next]
  PROVE  /\ settler' \in [Settlers -> [at: DeskPlaces, deposit: SUBSET Deposits, rate: Rates \cup {0}]]
         /\ settler'[c].at = next
         /\ \A b \in Settlers : settler'[b].deposit = settler[b].deposit /\ Deposit(b)' = Deposit(b)
         /\ \A b \in Settlers : b # c => settler'[b] = settler[b]
         /\ \A b \in Settlers : settler'[b].at # "idle" => settler'[b].deposit # {}
  BY DEF FxInv, DeskTypes, Deposit

(* A request that is answered leaves the others as they are.                 *)
LEMMA EndKeeps ==
  ASSUME FxInv, NEW c \in Settlers, settler' = [settler EXCEPT ![c] = NoRequest]
  PROVE  /\ settler' \in [Settlers -> [at: DeskPlaces, deposit: SUBSET Deposits, rate: Rates \cup {0}]]
         /\ settler'[c].at = "idle"
         /\ \A b \in Settlers : b # c => settler'[b] = settler[b] /\ Deposit(b)' = Deposit(b)
         /\ \A b \in Settlers : settler'[b].at # "idle" => settler'[b].deposit # {}
  BY DEF FxInv, DeskTypes, Deposit, NoRequest, DeskPlaces

(* What a read of the reservations finds: what it lacks is counted.          *)
LEMMA FoundRows ==
  ASSUME FxInv, NEW found \in FileReads
  PROVE  /\ found \in [Deposits -> {"none", "reserved", "broadcast"}]
         /\ Dropped(found) \subseteq Deposits
         /\ \A e \in Deposits : reservation[e] # "none" => found[e] # "none" \/ e \in Dropped(found)
  BY DEF FxInv, DeskTypes, FileReads, Dropped

(* A release keeps the reservations of other deposits, or counts them.       *)
LEMMA ReleaseKeeps ==
  ASSUME FxInv, NEW d \in Deposits, Releases(d)
  PROVE  /\ reservation' \in [Deposits -> {"none", "reserved", "broadcast"}]
         /\ forgotten \subseteq forgotten' /\ forgotten' \subseteq Deposits
         /\ \A e \in Deposits : e # d /\ reservation[e] # "none" =>
              reservation'[e] # "none" \/ e \in forgotten'
<1>1. CASE UNCHANGED <<reservation, forgotten>>
  BY <1>1 DEF FxInv, DeskTypes
<1>2. CASE \E found \in FileReads : /\ reservation' = [found EXCEPT ![d] = "none"]
                                   /\ forgotten' = forgotten \cup (Dropped(found) \ {d})
  <2>1. PICK found \in FileReads : /\ reservation' = [found EXCEPT ![d] = "none"]
                                   /\ forgotten' = forgotten \cup (Dropped(found) \ {d})
    BY <1>2
  <2>. QED
    BY <2>1, FoundRows DEF FxInv, DeskTypes
<1>. QED
  BY <1>1, <1>2 DEF Releases

(* The request at the desk ends without a payout of its own: nothing paid is *)
(* released, because only what was never tried is.                           *)
LEMMA FailKeeps ==
  ASSUME FxInv, NEW c \in Settlers, settler[c].at \in {"build", "mark", "send"}, Fails(c),
         UNCHANGED <<fxMarket, attempted, trail, payouts>>
  PROVE  FxInv'
<1>. DEFINE d == Deposit(c)
<1>1. d \in Deposits /\ \A p \in payouts : p.deposit # d \/ p.deposit \in forgotten
  BY InHand DEF FxInv, DepositInHand
<1>2. /\ settler' = [settler EXCEPT ![c] = NoRequest] /\ fxDesk' = "free"
      /\ payouts' = payouts /\ attempted' = attempted
      /\ tick' = tick /\ feed' = feed /\ rateCache' = rateCache
      /\ fxDesk = c
  BY DEF Fails, Ends, fxMarket, FxInv, OneAtTheDesk
<1>3. /\ reservation' \in [Deposits -> {"none", "reserved", "broadcast"}]
      /\ forgotten \subseteq forgotten' /\ forgotten' \subseteq Deposits
      /\ \A e \in Deposits : e # d /\ reservation[e] # "none" =>
           reservation'[e] # "none" \/ e \in forgotten'
  <2>1. CASE Releases(d)
    BY <1>1, <2>1, ReleaseKeeps
  <2>2. CASE UNCHANGED <<reservation, forgotten>>
    BY <2>2 DEF FxInv, DeskTypes
  <2>. QED
    BY <2>1, <2>2 DEF Fails
<1>4. DeskTypes'
  BY <1>2, <1>3, EndKeeps DEF FxInv, DeskTypes
<1>5. \A b \in Settlers : settler'[b].at \notin {"build", "mark", "send", "record"}
  BY <1>2, EndKeeps DEF FxInv, OneAtTheDesk
<1>6. OneAtTheDesk' /\ DepositInHand'
  BY <1>5 DEF OneAtTheDesk, DepositInHand
<1>7. PaidStaysReserved' /\ OnePayoutPerDeposit'
  BY <1>1, <1>2, <1>3 DEF FxInv, DeskTypes, PaidStaysReserved, OnePayoutPerDeposit
<1>. QED
  BY <1>4, <1>6, <1>7 DEF FxInv

(* Every step of quotes, settlements, feeds, time and restarts keeps the     *)
(* invariant.                                                                *)
LEMMA FxStep == FxInv /\ [FxNext]_fxVars => FxInv'
<1>. SUFFICES ASSUME FxInv, [FxNext]_fxVars PROVE FxInv'
  OBVIOUS
<1>1. ASSUME NEW d \in Deposits, Quote(d) PROVE FxInv'
  BY <1>1, RateTyped DEF Quote, fxLedger, FxInv, DeskTypes, OneAtTheDesk, DepositInHand, Deposit,
     PaidStaysReserved, OnePayoutPerDeposit
<1>2. ASSUME NEW c \in Settlers, NEW d \in Deposits, BeginSettle(c, d) PROVE FxInv'
  <2>1. /\ settler' = [settler EXCEPT ![c] = [at |-> "lock", deposit |-> {d}, rate |-> UsdPerEur]]
        /\ UNCHANGED <<tick, feed, reservation, forgotten, attempted, payouts, fxDesk>>
        /\ rateCache' \subseteq [rate: Rates, at: Nat] /\ UsdPerEur \in Rates
    BY <1>2, RateTyped DEF BeginSettle, fxLedger
  <2>2. DeskTypes'
    BY <2>1 DEF FxInv, DeskTypes, DeskPlaces
  <2>3. /\ settler'[c].at = "lock"
        /\ \A b \in Settlers : b # c => settler'[b] = settler[b] /\ Deposit(b)' = Deposit(b)
    BY <2>1 DEF FxInv, DeskTypes, Deposit
  <2>4. OneAtTheDesk' /\ DepositInHand'
    BY <2>1, <2>3 DEF FxInv, OneAtTheDesk, DepositInHand
  <2>. QED
    BY <2>1, <2>2, <2>4 DEF FxInv, PaidStaysReserved, OnePayoutPerDeposit
<1>3. ASSUME NEW c \in Settlers, ReserveDeposit(c) PROVE FxInv'
  <2>. DEFINE d == Deposit(c)
  <2>1. /\ settler[c].at = "lock" /\ fxDesk = "free"
        /\ UNCHANGED <<tick, feed, rateCache, attempted, payouts>>
    BY <1>3 DEF ReserveDeposit, fxMarket
  <2>2. d \in Deposits
    BY <2>1, InHand
  <2>3. \A b \in Settlers : settler[b].at \notin {"build", "mark", "send", "record"}
    BY <2>1, FxAssumption DEF FxInv, OneAtTheDesk
  <2>4. CASE Ends(c) /\ UNCHANGED <<reservation, forgotten>>
    <3>1. settler' = [settler EXCEPT ![c] = NoRequest]
      BY <2>4 DEF Ends
    <3>2. DeskTypes'
      BY <2>1, <2>4, <3>1, EndKeeps DEF FxInv, DeskTypes
    <3>3. \A b \in Settlers : settler'[b].at \notin {"build", "mark", "send", "record"}
      BY <2>3, <3>1, EndKeeps
    <3>. QED
      BY <2>1, <2>4, <3>2, <3>3
      DEF FxInv, OneAtTheDesk, DepositInHand, PaidStaysReserved, OnePayoutPerDeposit
  <2>5. ASSUME NEW found \in FileReads,
               found[d] = "none", reservation' = [found EXCEPT ![d] = "reserved"],
               forgotten' = forgotten \cup Dropped(found),
               settler' = [settler EXCEPT ![c].at = "build"], fxDesk' = c
        PROVE  FxInv'
    <3>1. /\ settler' \in [Settlers -> [at: DeskPlaces, deposit: SUBSET Deposits,
                                        rate: Rates \cup {0}]]
          /\ settler'[c].at = "build" /\ Deposit(c)' = d
          /\ \A b \in Settlers : b # c => settler'[b] = settler[b]
          /\ \A b \in Settlers : settler'[b].at # "idle" => settler'[b].deposit # {}
      BY <2>1, <2>5, StepKeeps DEF DeskPlaces
    <3>2. /\ reservation' \in [Deposits -> {"none", "reserved", "broadcast"}]
          /\ reservation'[d] = "reserved"
          /\ forgotten \subseteq forgotten' /\ forgotten' \subseteq Deposits
          /\ \A e \in Deposits : reservation[e] # "none" =>
               reservation'[e] # "none" \/ e \in forgotten'
      BY <2>2, <2>5, FoundRows DEF FxInv, DeskTypes
    <3>3. \A p \in payouts : p.deposit # d \/ p.deposit \in forgotten'
      <4>1. reservation[d] # "none" => d \in forgotten'
        BY <2>2, <2>5, FoundRows
      <4>. QED
        BY <3>2, <4>1 DEF FxInv, PaidStaysReserved
    <3>4. DeskTypes'
      BY <2>1, <3>1, <3>2 DEF FxInv, DeskTypes
    <3>5. OneAtTheDesk'
      BY <2>3, <2>5, <3>1 DEF OneAtTheDesk
    <3>6. DepositInHand'
      BY <2>1, <2>3, <3>1, <3>2, <3>3 DEF DepositInHand
    <3>7. PaidStaysReserved' /\ OnePayoutPerDeposit'
      BY <2>1, <3>2, <3>3 DEF FxInv, DeskTypes, PaidStaysReserved, OnePayoutPerDeposit
    <3>. QED
      BY <3>4, <3>5, <3>6, <3>7 DEF FxInv
  <2>. QED
    BY <1>3, <2>4, <2>5 DEF ReserveDeposit
<1>4. ASSUME NEW c \in Settlers, SettleRefused(c) PROVE FxInv'
  <2>1. /\ settler' = [settler EXCEPT ![c] = NoRequest]
        /\ UNCHANGED <<tick, feed, rateCache, reservation, forgotten, attempted, payouts, fxDesk>>
    BY <1>4 DEF SettleRefused, fxMarket, fxLedger
  <2>2. DeskTypes'
    BY <2>1, EndKeeps DEF FxInv, DeskTypes
  <2>3. /\ settler'[c].at = "idle"
        /\ \A b \in Settlers : b # c => settler'[b] = settler[b] /\ Deposit(b)' = Deposit(b)
    BY <2>1, EndKeeps
  <2>4. OneAtTheDesk' /\ DepositInHand'
    BY <2>1, <2>3 DEF FxInv, OneAtTheDesk, DepositInHand
  <2>. QED
    BY <2>1, <2>2, <2>4 DEF FxInv, PaidStaysReserved, OnePayoutPerDeposit
<1>5. ASSUME NEW c \in Settlers, BuildPayout(c) PROVE FxInv'
  <2>1. /\ settler[c].at = "build" /\ settler' = [settler EXCEPT ![c].at = "mark"]
        /\ attempted' = attempted \cup {Deposit(c)}
        /\ UNCHANGED <<tick, feed, rateCache, reservation, forgotten, payouts, fxDesk>>
    BY <1>5 DEF BuildPayout, Step, fxMarket
  <2>2. DeskTypes'
    BY <2>1, StepKeeps DEF FxInv, DeskTypes, DeskPlaces
  <2>3. /\ settler'[c].at = "mark"
        /\ \A b \in Settlers : Deposit(b)' = Deposit(b)
        /\ \A b \in Settlers : b # c => settler'[b] = settler[b]
    BY <2>1, StepKeeps DEF DeskPlaces
  <2>4. OneAtTheDesk' /\ DepositInHand'
    BY <2>1, <2>3 DEF FxInv, OneAtTheDesk, DepositInHand
  <2>. QED
    BY <2>1, <2>2, <2>4 DEF FxInv, PaidStaysReserved, OnePayoutPerDeposit
<1>6. ASSUME NEW c \in Settlers, BuildPayoutFails(c) PROVE FxInv'
  BY <1>6, FailKeeps DEF BuildPayoutFails
<1>7. ASSUME NEW c \in Settlers, MarkBroadcast(c) PROVE FxInv'
  <2>. DEFINE d == Deposit(c)
  <2>1. settler[c].at = "mark" /\ UNCHANGED <<fxMarket, attempted, trail, payouts>>
    BY <1>7 DEF MarkBroadcast
  <2>2. CASE Fails(c)
    BY <2>1, <2>2, FailKeeps
  <2>3. CASE /\ reservation' = [reservation EXCEPT ![d] = IF table = "postgres" THEN "broadcast" ELSE @]
             /\ Step(c, "send") /\ UNCHANGED forgotten
    <3>1. /\ settler' = [settler EXCEPT ![c].at = "send"] /\ fxDesk' = fxDesk
          /\ UNCHANGED <<tick, feed, rateCache, forgotten, attempted, payouts>>
      BY <2>1, <2>3 DEF Step, fxMarket
    <3>2. d \in Deposits /\ reservation[d] # "none"
      BY <2>1, InHand DEF FxInv, DepositInHand
    <3>3. /\ reservation' \in [Deposits -> {"none", "reserved", "broadcast"}]
          /\ \A e \in Deposits : reservation[e] # "none" => reservation'[e] # "none"
      BY <2>3, <3>2 DEF FxInv, DeskTypes
    <3>4. DeskTypes'
      BY <2>1, <3>1, <3>3, StepKeeps DEF FxInv, DeskTypes, DeskPlaces
    <3>5. /\ settler'[c].at = "send"
          /\ \A b \in Settlers : Deposit(b)' = Deposit(b)
          /\ \A b \in Settlers : b # c => settler'[b] = settler[b]
      BY <2>1, <3>1, StepKeeps DEF DeskPlaces
    <3>6. \A b \in Settlers : settler[b].at # "idle" => Deposit(b) \in Deposits
      BY InHand
    <3>7. OneAtTheDesk' /\ DepositInHand'
      BY <2>1, <3>1, <3>3, <3>5, <3>6 DEF FxInv, OneAtTheDesk, DepositInHand
    <3>8. PaidStaysReserved' /\ OnePayoutPerDeposit'
      BY <3>1, <3>3 DEF FxInv, DeskTypes, PaidStaysReserved, OnePayoutPerDeposit
    <3>. QED
      BY <3>4, <3>7, <3>8 DEF FxInv
  <2>. QED
    BY <1>7, <2>2, <2>3 DEF MarkBroadcast
<1>8. ASSUME NEW c \in Settlers, SendPayout(c) PROVE FxInv'
  <2>. DEFINE d == Deposit(c)
              new == [deposit |-> d, rate |-> settler[c].rate, by |-> c, at |-> tick]
  <2>1. settler[c].at = "send" /\ UNCHANGED <<fxMarket, attempted, trail>>
    BY <1>8 DEF SendPayout
  <2>2. /\ d \in Deposits /\ reservation[d] # "none" /\ d \in attempted
        /\ \A p \in payouts : p.deposit # d \/ p.deposit \in forgotten
        /\ fxDesk = c
    BY <2>1, InHand DEF FxInv, DepositInHand, OneAtTheDesk
  <2>3. /\ payouts \cup {new} \subseteq
             [deposit: Deposits, rate: Rates \cup {0}, by: Settlers, at: Nat]
        /\ \A p, q \in payouts \cup {new} : p.deposit = q.deposit => p = q \/ p.deposit \in forgotten
        /\ \A p \in payouts \cup {new} : reservation[p.deposit] # "none" \/ p.deposit \in forgotten
    BY <2>2 DEF FxInv, DeskTypes, OnePayoutPerDeposit, PaidStaysReserved
  <2>4. CASE payouts' = payouts \cup {new} /\ Step(c, "record") /\ UNCHANGED <<reservation, forgotten>>
    <3>1. settler' = [settler EXCEPT ![c].at = "record"] /\ fxDesk' = fxDesk
      BY <2>4 DEF Step
    <3>2. DeskTypes'
      BY <2>1, <2>3, <2>4, <3>1, StepKeeps DEF FxInv, DeskTypes, DeskPlaces, fxMarket
    <3>3. /\ settler'[c].at = "record"
          /\ \A b \in Settlers : Deposit(b)' = Deposit(b)
          /\ \A b \in Settlers : b # c => settler'[b] = settler[b]
      BY <2>1, <3>1, StepKeeps DEF DeskPlaces
    <3>4. OneAtTheDesk' /\ DepositInHand'
      BY <2>1, <2>2, <2>4, <3>1, <3>3 DEF FxInv, OneAtTheDesk, DepositInHand
    <3>. QED
      BY <2>3, <2>4, <3>2, <3>4 DEF FxInv, PaidStaysReserved, OnePayoutPerDeposit
  <2>5. CASE payouts' = payouts \cup {new} /\ Fails(c)
    <3>1. /\ settler' = [settler EXCEPT ![c] = NoRequest] /\ reservation' = reservation
          /\ forgotten' = forgotten
          /\ UNCHANGED <<tick, feed, rateCache>>
      BY <2>1, <2>2, <2>5 DEF Fails, Ends, fxMarket
    <3>2. DeskTypes'
      BY <2>3, <2>5, <3>1, EndKeeps DEF FxInv, DeskTypes
    <3>3. \A b \in Settlers : settler'[b].at \notin {"build", "mark", "send", "record"}
      BY <2>2, <3>1, EndKeeps DEF FxInv, OneAtTheDesk
    <3>. QED
      BY <2>3, <2>5, <3>1, <3>2, <3>3
      DEF FxInv, OneAtTheDesk, DepositInHand, PaidStaysReserved, OnePayoutPerDeposit
  <2>6. CASE payouts' = payouts /\ Fails(c)
    BY <2>1, <2>6, FailKeeps
  <2>. QED
    BY <1>8, <2>4, <2>5, <2>6 DEF SendPayout
<1>9. ASSUME NEW c \in Settlers, RecordPayout(c) PROVE FxInv'
  <2>1. /\ settler[c].at = "record" /\ settler' = [settler EXCEPT ![c] = NoRequest]
        /\ UNCHANGED <<tick, feed, rateCache, reservation, forgotten, attempted, payouts>>
        /\ fxDesk = c
    BY <1>9 DEF RecordPayout, Ends, fxMarket, FxInv, OneAtTheDesk
  <2>2. DeskTypes'
    BY <2>1, EndKeeps DEF FxInv, DeskTypes
  <2>3. \A b \in Settlers : settler'[b].at \notin {"build", "mark", "send", "record"}
    BY <2>1, EndKeeps DEF FxInv, OneAtTheDesk
  <2>. QED
    BY <2>1, <2>2, <2>3
    DEF FxInv, OneAtTheDesk, DepositInHand, PaidStaysReserved, OnePayoutPerDeposit
<1>10. ASSUME FeedMoves \/ FxTick PROVE FxInv'
  <2>1. /\ tick' \in Nat /\ feed' \subseteq Rates
        /\ UNCHANGED <<rateCache, reservation, forgotten, attempted, payouts, settler, fxDesk>>
    BY <1>10 DEF FeedMoves, FxTick, fxLedger, FxInv, DeskTypes
  <2>. QED
    BY <2>1 DEF FxInv, DeskTypes, OneAtTheDesk, DepositInHand, Deposit, PaidStaysReserved,
       OnePayoutPerDeposit
<1>11. ASSUME FxRestart PROVE FxInv'
  <2>1. /\ settler' = [c \in Settlers |-> NoRequest] /\ rateCache' = {}
        /\ UNCHANGED <<tick, feed, reservation, forgotten, payouts>>
    BY <1>11 DEF FxRestart
  <2>2. DeskTypes'
    BY <2>1 DEF FxInv, DeskTypes, NoRequest, DeskPlaces
  <2>. QED
    BY <2>1, <2>2 DEF FxInv, OneAtTheDesk, DepositInHand, NoRequest, PaidStaysReserved,
       OnePayoutPerDeposit
<1>12. CASE UNCHANGED fxVars
  BY <1>12 DEF fxVars, FxInv, DeskTypes, OneAtTheDesk, DepositInHand, Deposit, PaidStaysReserved,
     OnePayoutPerDeposit
<1>. QED
  BY <1>1, <1>2, <1>3, <1>4, <1>5, <1>6, <1>7, <1>8, <1>9, <1>10, <1>11, <1>12 DEF FxNext

(* A deposit is paid out once (services/stablefx_service.py,                 *)
(* settle_stablefx_swap and _release_deposit): for any number of deposits,   *)
(* requests, restarts and failed payouts, on either store, unless a failed   *)
(* read of the JSON file dropped its entry (_load_consumed).                 *)
THEOREM OnePayout == FxSpec => []OnePayoutPerDeposit
<1>1. FxInit => FxInv
  <2>. SUFFICES ASSUME FxInit PROVE FxInv
    OBVIOUS
  <2>1. DeskTypes
    BY DEF FxInit, DeskTypes, NoRequest, DeskPlaces
  <2>. QED
    BY <2>1 DEF FxInit, FxInv, OneAtTheDesk, DepositInHand, NoRequest, PaidStaysReserved,
       OnePayoutPerDeposit
<1>2. FxInv => OnePayoutPerDeposit
  BY DEF FxInv
<1>. QED
  BY <1>1, <1>2, FxStep, PTL DEF FxSpec

-----------------------------------------------------------------------------
(***************************************************************************)
(* The USYC vault: the share price never falls, and the shares are covered,*)
(* for every number of virtual shares and all amounts.                     *)
(***************************************************************************)
(* Rounding down loses (Math.mulDiv).                                        *)
LEMMA DownBound ==
  ASSUME NEW x \in Nat, NEW y \in Nat, NEW d \in Nat \ {0}
  PROVE  Down(x, y, d) \in Nat /\ Down(x, y, d) * d <= x * y
<1> DEFINE p == x * y
<1>1. p \in Nat  OBVIOUS
<1> HIDE DEF p
<1>2. p \div d \in Nat /\ (p \div d) * d <= p  BY <1>1
<1> QED  BY <1>2 DEF Down, p

(* Rounding up gains.                                                        *)
LEMMA UpBound ==
  ASSUME NEW x \in Nat, NEW y \in Nat, NEW d \in Nat \ {0}
  PROVE  Up(x, y, d) \in Nat /\ x * y <= Up(x, y, d) * d
<1> DEFINE p == x * y
<1>1. p \in Nat  OBVIOUS
<1> HIDE DEF p
<1>2. (p + d - 1) \div d \in Nat /\ p <= ((p + d - 1) \div d) * d  BY <1>1
<1> QED  BY <1>2 DEF Up, p

(* Products grow with their factors.                                         *)
LEMMA Grows ==
  ASSUME NEW a \in Nat, NEW b \in Nat, NEW c \in Nat, a <= b
  PROVE  a * c <= b * c
<1> DEFINE d == b - a
<1>1. d \in Nat /\ b = a + d  OBVIOUS
<1>2. d * c \in Nat  BY <1>1
<1>3. b * c = a * c + d * c  BY <1>1
<1> QED  BY <1>2, <1>3

(* A positive factor cancels.                                                *)
LEMMA Cancels ==
  ASSUME NEW a \in Nat, NEW b \in Nat, NEW c \in Nat \ {0}, a * c <= b * c
  PROVE  a <= b
<1>1. CASE b < a
  <2>1. b + 1 <= a  BY <1>1
  <2>2. (b + 1) * c <= a * c  BY <2>1, Grows
  <2>3. (b + 1) * c = b * c + c  OBVIOUS
  <2> QED  BY <2>2, <2>3
<1> QED  BY <1>1

(* The price of a share, A over B, does not fall when a is taken in for at   *)
(* most its worth m of shares, or paid out for at least its worth.           *)
LEMMA TakeInPrice ==
  ASSUME NEW A \in Nat, NEW B \in Nat, NEW a \in Nat, NEW m \in Nat, m * A <= a * B
  PROVE  A * (B + m) <= (A + a) * B
<1>1. A * (B + m) = A * B + m * A  OBVIOUS
<1>2. (A + a) * B = A * B + a * B  OBVIOUS
<1> QED  BY <1>1, <1>2

(* The same for what leaves.                                                 *)
LEMMA PayOutPrice ==
  ASSUME NEW A \in Nat, NEW B \in Nat, NEW a \in Nat, NEW m \in Nat, a * B <= m * A
  PROVE  A * (B - m) <= (A - a) * B
<1>1. A * (B - m) = A * B - m * A  OBVIOUS
<1>2. (A - a) * B = A * B - a * B  OBVIOUS
<1> QED  BY <1>1, <1>2

(* A holder's shares from lo to hi, one by one, are hi - lo + 1.             *)
LEMMA Block ==
  ASSUME NEW h, NEW lo \in Int, NEW hi \in Int, lo <= hi + 1
  PROVE  IsFiniteSet({h} \X (lo..hi)) /\ Cardinality({h} \X (lo..hi)) = hi - lo + 1
<1>1. IsFiniteSet(lo..hi) /\ Cardinality(lo..hi) = IF lo > hi THEN 0 ELSE hi - lo + 1
  BY FS_Interval
<1>2. Cardinality(lo..hi) = hi - lo + 1  BY <1>1
<1>3. IsFiniteSet({h}) /\ Cardinality({h}) = 1  BY FS_Singleton
<1>4. IsFiniteSet({h} \X (lo..hi)) /\ Cardinality({h} \X (lo..hi)) = Cardinality({h}) * Cardinality(lo..hi)
  BY <1>1, <1>3, FS_Product
<1> QED  BY <1>2, <1>3, <1>4

(* The shares that holdings s stand for, one by one: supply counts them.     *)
Held(s) == {u \in Holders \X Nat: u[2] < s[u[1]]}

LEMMA HeldGrows ==
  ASSUME NEW s \in [Holders -> Nat], NEW h \in Holders, NEW m \in Nat, IsFiniteSet(Held(s)),
         NEW t, t = [s EXCEPT ![h] = @ + m]
  PROVE  IsFiniteSet(Held(t)) /\ Cardinality(Held(t)) = Cardinality(Held(s)) + m
<1> DEFINE new == {h} \X (s[h]..(s[h] + m - 1))
<1>1. s[h] \in Nat  OBVIOUS
<1>4. IsFiniteSet(new) /\ Cardinality(new) = m
  <2>1. PICK lo \in Int, hi \in Int: lo = s[h] /\ hi = s[h] + m - 1  BY <1>1
  <2>2. lo <= hi + 1 /\ hi - lo + 1 = m /\ new = {h} \X (lo..hi)  BY <2>1
  <2>3. IsFiniteSet({h} \X (lo..hi)) /\ Cardinality({h} \X (lo..hi)) = hi - lo + 1
    BY <2>2, Block
  <2> HIDE DEF new
  <2> QED  BY <2>2, <2>3
<1>5. Held(t) = Held(s) \cup new
  <2>1. ASSUME NEW u \in Holders \X Nat
        PROVE  u[2] < t[u[1]] <=> u[2] < s[u[1]] \/ u \in new
    <3>1. CASE u[1] = h
      <4>1. t[u[1]] = s[h] + m  BY <3>1
      <4>2. u \in new <=> u[2] \in s[h]..(s[h] + m - 1)  BY <3>1
      <4> QED  BY <1>1, <3>1, <4>1, <4>2
    <3>2. CASE u[1] # h
      <4>1. t[u[1]] = s[u[1]]  BY <3>2
      <4>2. u \notin new  BY <3>2
      <4> QED  BY <4>1, <4>2
    <3> QED  BY <3>1, <3>2
  <2>2. new \subseteq Holders \X Nat  BY <1>1
  <2> HIDE DEF new
  <2> QED  BY <2>1, <2>2 DEF Held
<1>6. Held(s) \cap new = {}  BY <1>1 DEF Held
<1>7. Cardinality(Held(s)) \in Nat  BY FS_CardinalityType
<1> HIDE DEF new
<1>8. IsFiniteSet(Held(s) \cup new)
      /\ Cardinality(Held(s) \cup new) = Cardinality(Held(s)) + m - Cardinality({})
  BY <1>4, <1>6, FS_Union
<1>9. Cardinality({}) = 0  BY FS_EmptySet
<1>10. IsFiniteSet(Held(t)) /\ Cardinality(Held(t)) = Cardinality(Held(s)) + m - Cardinality({})
  BY <1>5, <1>8
<1> QED  BY <1>7, <1>9, <1>10

(* Nobody holds more than all hold together.                                 *)
LEMMA HeldCovers ==
  ASSUME NEW s \in [Holders -> Nat], NEW h \in Holders, IsFiniteSet(Held(s))
  PROVE  s[h] <= Cardinality(Held(s))
<1> DEFINE own == {h} \X (0..(0 + s[h] - 1))
<1>1. s[h] \in Nat  OBVIOUS
<1>4. Cardinality(own) = s[h]
  <2>1. PICK lo \in Int, hi \in Int, n \in Nat: lo = 0 /\ n = s[h] /\ hi = 0 + n - 1  BY <1>1
  <2>2. lo <= hi + 1 /\ hi - lo + 1 = n /\ own = {h} \X (lo..hi)  BY <2>1
  <2>3. Cardinality({h} \X (lo..hi)) = hi - lo + 1  BY <2>2, Block
  <2> HIDE DEF own
  <2> QED  BY <2>1, <2>2, <2>3
<1>5. own \in SUBSET Held(s)  BY <1>1 DEF Held
<1> HIDE DEF own
<1> QED  BY <1>4, <1>5, FS_Subset

(* What the price of a share is, as SharePriceNeverFalls compares it.        *)
PriceHolds ==
  (managed + VirtualAssets) * (supply' + VirtualShares)
    <= (managed' + VirtualAssets) * (supply + VirtualShares)

(* All shares are somebody's, and the ledger is worth them at the price the  *)
(* vault started with.                                                       *)
Issued == IsFiniteSet(Held(shares)) /\ supply = Cardinality(Held(shares))
Backed == managed <= balance /\ supply <= managed * VirtualShares
VaultInv == VaultTypeOK /\ Issued /\ Backed

(* Both directions of a call at a price rounded in the vault's favour keep    *)
(* the types, the shares' owners and the price.                              *)
LEMMA TakeInKeeps ==
  ASSUME VaultTypeOK, Issued, NEW h \in Holders, NEW assets \in Nat, NEW minted \in Nat,
         minted * (managed + VirtualAssets) <= assets * (supply + VirtualShares),
         TakeIn(h, assets, minted)
  PROVE  VaultTypeOK' /\ Issued' /\ PriceHolds /\ (managed <= balance => managed' <= balance')
<1>1. VaultTypeOK'  BY DEF VaultTypeOK, TakeIn
<1>2. managed' <= balance' \/ ~(managed <= balance)  BY DEF VaultTypeOK, TakeIn
<1>3. Issued'
  <2>1. shares' = [shares EXCEPT ![h] = @ + minted] /\ supply' = supply + minted  BY DEF TakeIn
  <2>2. IsFiniteSet(Held(shares')) /\ Cardinality(Held(shares')) = Cardinality(Held(shares)) + minted
    BY <2>1, HeldGrows DEF VaultTypeOK, Issued
  <2> QED  BY <2>1, <2>2 DEF Issued, Held
<1> DEFINE A == managed + VirtualAssets
           B == supply + VirtualShares
<1>4. A \in Nat /\ B \in Nat  BY VaultAssumption DEF VaultTypeOK, VirtualAssets
<1>5. minted * A <= assets * B  OBVIOUS
<1>6. managed' + VirtualAssets = A + assets /\ supply' + VirtualShares = B + minted
  BY VaultAssumption DEF VaultTypeOK, TakeIn, VirtualAssets
<1> HIDE DEF A, B
<1>7. A * (B + minted) <= (A + assets) * B  BY <1>4, <1>5, TakeInPrice
<1>8. PriceHolds  BY <1>6, <1>7 DEF PriceHolds, A, B
<1> QED  BY <1>1, <1>2, <1>3, <1>8

(* A payment out takes its shares from one holder, who has them.             *)
LEMMA PayOutKeeps ==
  ASSUME VaultTypeOK, Issued, NEW h \in Holders, NEW assets \in Nat, NEW burnt \in Nat,
         assets * (supply + VirtualShares) <= burnt * (managed + VirtualAssets),
         PayOut(h, assets, burnt)
  PROVE  VaultTypeOK' /\ Issued' /\ PriceHolds /\ (managed <= balance => managed' <= balance')
<1>1. shares \in [Holders -> Nat] /\ shares' = [shares EXCEPT ![h] = @ - burnt]
      /\ supply' = supply - burnt /\ burnt <= shares[h] /\ supply \in Nat
  BY DEF VaultTypeOK, PayOut
<1>2. supply' \in Nat  BY <1>1, HeldCovers DEF Issued
<1>3. shares' \in [Holders -> Nat] /\ shares = [shares' EXCEPT ![h] = @ + burnt]
  <2>1. shares' \in [Holders -> Nat]  BY <1>1
  <2>2. \A k \in Holders: shares[k] = [shares' EXCEPT ![h] = @ + burnt][k]  BY <1>1, <2>1
  <2>3. [shares' EXCEPT ![h] = @ + burnt] \in [Holders -> Nat]  BY <2>1
  <2> QED  BY <1>1, <2>1, <2>2, <2>3
<1>4. VaultTypeOK'  BY <1>2, <1>3 DEF VaultTypeOK, PayOut
<1>5. managed' <= balance' \/ ~(managed <= balance)  BY DEF VaultTypeOK, PayOut
<1>6. Issued'
  <2>1. \A u: u \in Held(shares') => u \in Held(shares)  BY <1>1 DEF Held
  <2>2. IsFiniteSet(Held(shares'))  BY <2>1, FS_Subset DEF Issued
  <2>3. Cardinality(Held(shares)) = Cardinality(Held(shares')) + burnt
    BY <1>3, <2>2, HeldGrows
  <2>4. Cardinality(Held(shares')) \in Nat  BY <2>2, FS_CardinalityType
  <2>5. supply' = Cardinality(Held(shares'))  BY <1>1, <2>3, <2>4 DEF Issued
  <2> QED  BY <2>2, <2>5 DEF Issued, Held
<1> DEFINE A == managed + VirtualAssets
           B == supply + VirtualShares
<1>7. A \in Nat /\ B \in Nat  BY VaultAssumption DEF VaultTypeOK, VirtualAssets
<1>8. assets * B <= burnt * A  OBVIOUS
<1>9. managed' + VirtualAssets = A - assets /\ supply' + VirtualShares = B - burnt
  BY VaultAssumption DEF VaultTypeOK, PayOut, VirtualAssets
<1> HIDE DEF A, B
<1>10. A * (B - burnt) <= (A - assets) * B  BY <1>7, <1>8, PayOutPrice
<1>11. PriceHolds  BY <1>9, <1>10 DEF PriceHolds, A, B
<1> QED  BY <1>4, <1>5, <1>6, <1>11

(* At a price that does not fall the ledger stays worth the shares at the    *)
(* price of an empty vault.                                                  *)
LEMMA PriceBacks ==
  ASSUME NEW m \in Nat, NEW s \in Nat, NEW mm \in Nat, NEW ss \in Nat, NEW V \in Nat \ {0},
         s <= m * V, (m + 1) * (ss + V) <= (mm + 1) * (s + V)
  PROVE  ss <= mm * V
<1>1. (mm + 1) * (s + V) <= (mm + 1) * (m * V + V)
  <2>1. s + V \in Nat /\ m * V + V \in Nat /\ mm + 1 \in Nat /\ s + V <= m * V + V  OBVIOUS
  <2>2. (s + V) * (mm + 1) <= (m * V + V) * (mm + 1)  BY <2>1, Grows
  <2> QED  BY <2>2
<1>2. (mm + 1) * (m * V + V) = (mm * V + V) * (m + 1)  OBVIOUS
<1>3. (ss + V) * (m + 1) <= (mm * V + V) * (m + 1)  BY <1>1, <1>2
<1>4. ss + V \in Nat /\ mm * V + V \in Nat /\ m + 1 \in Nat \ {0}  OBVIOUS
<1>5. ss + V <= mm * V + V  BY <1>3, <1>4, Cancels
<1> QED  BY <1>5

(* Every call of the contract keeps the invariant and the price.             *)
LEMMA VaultStep ==
  ASSUME VaultInv, [VaultNext]_vaultVars
  PROVE  VaultInv' /\ PriceHolds
<1> DEFINE A == managed + VirtualAssets
           B == supply + VirtualShares
<1>1. A \in Nat \ {0} /\ B \in Nat \ {0}
  BY VaultAssumption DEF VaultInv, VaultTypeOK, VirtualAssets
<1>2. VaultTypeOK' /\ Issued' /\ PriceHolds /\ managed' <= balance'
  <2>1. ASSUME NEW h \in Holders, NEW n \in VaultSums, DepositAssets(h, n)
        PROVE  VaultTypeOK' /\ Issued' /\ PriceHolds /\ managed' <= balance'
    <3>1. n \in Nat  BY VaultAssumption
    <3>2. SharesDown(n) \in Nat /\ SharesDown(n) * A <= n * B
      BY <1>1, <3>1, DownBound DEF SharesDown
    <3>3. TakeIn(h, n, SharesDown(n))  BY <2>1 DEF DepositAssets
    <3> QED  BY <3>1, <3>2, <3>3, TakeInKeeps DEF VaultInv, Backed
  <2>2. ASSUME NEW h \in Holders, NEW n \in VaultSums, MintShares(h, n)
        PROVE  VaultTypeOK' /\ Issued' /\ PriceHolds /\ managed' <= balance'
    <3>1. n \in Nat  BY VaultAssumption
    <3>2. AssetsUp(n) \in Nat /\ n * A <= AssetsUp(n) * B
      BY <1>1, <3>1, UpBound DEF AssetsUp
    <3>3. TakeIn(h, AssetsUp(n), n)  BY <2>2 DEF MintShares
    <3> QED  BY <3>1, <3>2, <3>3, TakeInKeeps DEF VaultInv, Backed
  <2>3. ASSUME NEW h \in Holders, NEW n \in VaultSums, WithdrawAssets(h, n)
        PROVE  VaultTypeOK' /\ Issued' /\ PriceHolds /\ managed' <= balance'
    <3>1. n \in Nat  BY VaultAssumption
    <3>2. SharesUp(n) \in Nat /\ n * B <= SharesUp(n) * A
      BY <1>1, <3>1, UpBound DEF SharesUp
    <3>3. PayOut(h, n, SharesUp(n))  BY <2>3 DEF WithdrawAssets
    <3> QED  BY <3>1, <3>2, <3>3, PayOutKeeps DEF VaultInv, Backed
  <2>4. ASSUME NEW h \in Holders, NEW n \in VaultSums, RedeemShares(h, n)
        PROVE  VaultTypeOK' /\ Issued' /\ PriceHolds /\ managed' <= balance'
    <3>1. n \in Nat  BY VaultAssumption
    <3>2. AssetsDown(n) \in Nat /\ AssetsDown(n) * B <= n * A
      BY <1>1, <3>1, DownBound DEF AssetsDown
    <3>3. PayOut(h, AssetsDown(n), n)  BY <2>4 DEF RedeemShares
    <3> QED  BY <3>1, <3>2, <3>3, PayOutKeeps DEF VaultInv, Backed
  <2>5. ASSUME supply' = supply, shares' = shares, managed' \in Nat, managed <= managed',
               balance' \in Nat, managed' <= balance', depositCap' \in Nat, paused' \in BOOLEAN
        PROVE  VaultTypeOK' /\ Issued' /\ PriceHolds /\ managed' <= balance'
    <3>1. VaultTypeOK'  BY <2>5 DEF VaultInv, VaultTypeOK
    <3>2. Issued'  BY <2>5 DEF VaultInv, Issued, Held
    <3>3. PICK m \in Nat, mm \in Nat: m = managed /\ mm = managed'
      BY <2>5 DEF VaultInv, VaultTypeOK
    <3>4. m <= mm  BY <2>5, <3>3
    <3>5. m + 1 \in Nat /\ mm + 1 \in Nat /\ m + 1 <= mm + 1  BY <3>4
    <3>6. (m + 1) * B <= (mm + 1) * B  BY <1>1, <3>5, Grows
    <3>7. PriceHolds  BY <2>5, <3>3, <3>6 DEF PriceHolds, VirtualAssets
    <3> QED  BY <2>5, <3>1, <3>2, <3>7
  <2>6. CASE \E n \in VaultSums: FundYield(n) \/ Donate(n)
    BY <2>5, <2>6, VaultAssumption DEF FundYield, Donate, VaultInv, VaultTypeOK, Backed
  <2>7. CASE SweepSurplus
    BY <2>5, <2>7 DEF SweepSurplus, VaultInv, VaultTypeOK, Backed
  <2>8. CASE \E cap \in Caps: SetDepositCap(cap)
    BY <2>5, <2>8, VaultAssumption DEF SetDepositCap, VaultInv, VaultTypeOK, Backed
  <2>9. CASE \E p \in BOOLEAN: SetPaused(p)
    BY <2>5, <2>9 DEF SetPaused, VaultInv, VaultTypeOK, Backed
  <2>10. CASE UNCHANGED vaultVars
    BY <2>5, <2>10 DEF vaultVars, VaultInv, VaultTypeOK, Backed
  <2> QED  BY <2>1, <2>2, <2>3, <2>4, <2>6, <2>7, <2>8, <2>9, <2>10 DEF VaultNext
<1>3. supply' <= managed' * VirtualShares
  <2>1. PICK m \in Nat, s \in Nat, mm \in Nat, ss \in Nat, V \in Nat \ {0}:
          m = managed /\ s = supply /\ mm = managed' /\ ss = supply' /\ V = VirtualShares
    BY <1>2, VaultAssumption DEF VaultInv, VaultTypeOK
  <2>2. s <= m * V /\ (m + 1) * (ss + V) <= (mm + 1) * (s + V)
    BY <1>2, <2>1 DEF VaultInv, Backed, PriceHolds, VirtualAssets
  <2>3. ss <= mm * V  BY <2>2, PriceBacks
  <2> QED  BY <2>1, <2>3
<1> QED  BY <1>2, <1>3 DEF VaultInv, Backed

(* An empty vault satisfies the invariant.                                   *)
LEMMA VaultStart == VaultInit => VaultInv
<1> SUFFICES ASSUME VaultInit PROVE VaultInv  OBVIOUS
<1>1. VaultTypeOK  BY DEF VaultInit, VaultTypeOK
<1>2. Held(shares) = {}  BY DEF VaultInit, Held
<1>3. Issued  BY <1>2, FS_EmptySet DEF VaultInit, Issued
<1>4. Backed  BY VaultAssumption DEF VaultInit, Backed
<1> QED  BY <1>1, <1>3, <1>4 DEF VaultInv

(* What all shares are worth, rounded down, is not above the ledger.         *)
LEMMA VaultCovers == VaultInv => SharesAreCovered
<1> SUFFICES ASSUME VaultInv PROVE AssetsDown(supply) <= managed
  BY DEF VaultInv, Backed, SharesAreCovered
<1>1. PICK m \in Nat, s \in Nat, V \in Nat \ {0}:
        m = managed /\ s = supply /\ V = VirtualShares
  BY VaultAssumption DEF VaultInv, VaultTypeOK
<1>2. s <= m * V  BY <1>1 DEF VaultInv, Backed
<1>3. m + 1 \in Nat /\ s + V \in Nat \ {0}  OBVIOUS
<1>4. PICK q \in Nat: q = Down(s, m + 1, s + V) /\ q * (s + V) <= s * (m + 1)
  BY <1>3, DownBound
<1>5. s * (m + 1) = s * m + s /\ m * (s + V) = m * s + m * V  OBVIOUS
<1>6. q * (s + V) <= m * (s + V)  BY <1>2, <1>4, <1>5
<1>7. q <= m  BY <1>3, <1>6, Cancels
<1> QED  BY <1>1, <1>4, <1>7 DEF AssetsDown, VirtualAssets

(* The invariant holds throughout: types, the owners of all shares, and a     *)
(* ledger at least at the initial price.                                     *)
THEOREM VaultInvariant == VaultSpec => []VaultInv
<1>1. VaultInit => VaultInv  BY VaultStart
<1>2. VaultInv /\ [VaultNext]_vaultVars => VaultInv'  BY VaultStep
<1> QED  BY <1>1, <1>2, PTL DEF VaultSpec

(* No call, donation or sweep lowers the price of a share, for every number   *)
(* of virtual shares and every amount (_convertToShares, _convertToAssets).  *)
THEOREM PriceNeverFalls == VaultSpec => SharePriceNeverFalls
<1>1. VaultInv /\ [VaultNext]_vaultVars
      => [(managed' + VirtualAssets) * (supply + VirtualShares)
            >= (managed + VirtualAssets) * (supply' + VirtualShares)]_vaultVars
  <2> SUFFICES ASSUME VaultInv, [VaultNext]_vaultVars
               PROVE  (managed' + VirtualAssets) * (supply + VirtualShares)
                        >= (managed + VirtualAssets) * (supply' + VirtualShares)
    OBVIOUS
  <2>1. VaultInv' /\ PriceHolds  BY VaultStep
  <2>2. managed' \in Int /\ managed \in Int /\ supply' \in Int /\ supply \in Int
        /\ VirtualShares \in Int /\ VirtualAssets \in Int
    BY <2>1, VaultAssumption DEF VaultInv, VaultTypeOK, VirtualAssets
  <2> QED  BY <2>1, <2>2 DEF PriceHolds
<1> QED  BY <1>1, VaultInvariant, PTL DEF VaultSpec, SharePriceNeverFalls

(* The ledger covers all shares at their price, and the contract holds what  *)
(* the ledger says (withdraw and redeem stay possible when paused).          *)
THEOREM VaultCovered == VaultSpec => []SharesAreCovered
BY VaultInvariant, VaultCovers, PTL

-----------------------------------------------------------------------------
(***************************************************************************)
(* The Earn position: because every mutation reads the row again, what     *)
(* readers merged into the copy in between does not matter.                *)
(***************************************************************************)
EarnInv == EarnTypeOK /\ NoDepositIsLost

(* The principal of a copy is a natural number, and of one entry that entry. *)
LEMMA PrincipalType ==
  /\ \A p \in SUBSET Nat : Principal(p) \in Nat
  /\ \A n \in Nat : Principal({n}) = n
BY DEF Principal

(* A read that fails is one that may.                                        *)
LEMMA FailsIs ==
  ASSUME NEW fails \in {FALSE} \cup {EarnReadFails}
  PROVE  fails \in BOOLEAN /\ (fails => earnFaults < MaxEarnFaults)
<1>1. EarnReadFails \in BOOLEAN
  BY DEF EarnReadFails
<1>2. fails \in {FALSE, EarnReadFails}
  OBVIOUS
<1>3. CASE fails = FALSE
  BY <1>3
<1>4. CASE fails = EarnReadFails
  <2>1. EarnReadFails => earnFaults < MaxEarnFaults
    BY DEF EarnReadFails
  <2>. QED
    BY <1>1, <1>4, <2>1, Zenon
<1>. QED
  BY <1>2, <1>3, <1>4, Zenon

(* What a mutation starts from covers the deposits, if its reads succeed.    *)
LEMMA RefreshedCovers ==
  ASSUME EarnInv, NEW fails \in BOOLEAN
  PROVE  /\ EarnRefreshed(fails) \in SUBSET Nat
         /\ Principal(EarnRefreshed(fails)) \in Nat
         /\ earnStore = "postgres" /\ earnFaults = 0 /\ ~fails =>
              Principal(EarnRefreshed(fails)) >= earnIn - earnOut
<1>1. EarnRefreshed(fails) \in {earnHeld, earnRow} /\ {earnHeld, earnRow} \subseteq SUBSET Nat
  BY DEF EarnInv, EarnTypeOK, EarnRefreshed, MergedInto
<1>2. Principal(EarnRefreshed(fails)) \in Nat
  BY <1>1, PrincipalType
<1>3. ASSUME earnStore = "postgres", earnFaults = 0, ~fails
      PROVE  Principal(EarnRefreshed(fails)) >= earnIn - earnOut
  <2>1. Principal(earnRow) >= earnIn - earnOut /\ earnIn \in Nat /\ earnOut \in Nat
    BY <1>3 DEF EarnInv, EarnTypeOK, NoDepositIsLost
  <2>2. CASE earnRow = {}
    <3>1. Principal(earnRow) = 0
      BY <2>2 DEF Principal
    <3>. QED
      BY <1>2, <2>1, <3>1
  <2>3. CASE earnRow # {}
    BY <1>3, <2>1, <2>3 DEF EarnRefreshed, MergedInto
  <2>. QED
    BY <2>2, <2>3
<1>. QED
  BY <1>1, <1>2, <1>3

(* Saving a principal that covers the deposits keeps them covered.           *)
LEMMA SavingCovers ==
  ASSUME EarnInv, NEW n \in Nat, NEW fails \in {FALSE} \cup {EarnReadFails}, SavesPosition(n, fails)
  PROVE  /\ earnHeld' \in SUBSET Nat /\ earnRow' \in SUBSET Nat /\ earnFaults' \in 0..MaxEarnFaults
         /\ earnStore = "postgres" /\ earnFaults' = 0 =>
              earnFaults = 0 /\ ~fails /\ Principal(earnRow') = n
<1>1. earnFaults \in Nat /\ earnFaults <= MaxEarnFaults /\ MaxEarnFaults \in Nat
      /\ (fails => earnFaults < MaxEarnFaults)
  <2>1. earnFaults \in 0..MaxEarnFaults /\ MaxEarnFaults \in Nat
    BY EarnAssumption DEF EarnInv, EarnTypeOK
  <2>2. fails => earnFaults < MaxEarnFaults
    BY FailsIs
  <2>. QED
    BY <2>1, <2>2
<1>2. Principal({n}) = n
  BY PrincipalType
<1>3. CASE earnHeld' = {n} /\ earnRow' = {n} /\ earnFaults' = IF fails THEN earnFaults + 1 ELSE earnFaults
  <2>1. earnFaults' \in 0..MaxEarnFaults /\ (earnFaults' = 0 => earnFaults = 0 /\ ~fails)
    BY <1>1, <1>3
  <2>. QED
    BY <1>2, <1>3, <2>1
<1>4. CASE /\ earnHeld' = {n} /\ earnFaults < MaxEarnFaults
           /\ earnRow' = earnRow /\ earnFaults' = earnFaults + 1
  <2>1. earnFaults' \in 0..MaxEarnFaults /\ earnFaults' # 0
    BY <1>1, <1>4
  <2>. QED
    BY <1>4, <2>1 DEF EarnInv, EarnTypeOK
<1>. QED
  BY <1>3, <1>4 DEF SavesPosition

(* Every step keeps the invariant.                                           *)
LEMMA EarnStep == EarnInv /\ [EarnNext]_earnVars => EarnInv'
<1>. SUFFICES ASSUME EarnInv, [EarnNext]_earnVars PROVE EarnInv'
  OBVIOUS
<1>. DEFINE Calls == [EarnCalls -> [at : {"idle", "checked", "over"}, amount : {0} \cup EarnAmounts]]
<1>0. /\ earnCalls \in Calls /\ earnSnap \in [EarnReaders -> SUBSET Nat]
      /\ earnHeld \in SUBSET Nat /\ earnRow \in SUBSET Nat /\ earnFaults \in 0..MaxEarnFaults
      /\ earnIn \in Nat /\ earnOut \in Nat /\ EarnAmounts \subseteq Nat
  BY EarnAssumption DEF EarnInv, EarnTypeOK
<1>1. ASSUME NEW c \in EarnCalls, DepositEarn(c) PROVE EarnInv'
  <2>1. PICK a \in EarnAmounts, fails \in {FALSE} \cup {EarnReadFails} :
          /\ SavesPosition(Principal(EarnRefreshed(fails)) + a, fails)
          /\ earnIn' = earnIn + a
    BY <1>1 DEF DepositEarn
  <2>2. PICK n \in Nat : /\ n = Principal(EarnRefreshed(fails)) + a
                         /\ earnStore = "postgres" /\ earnFaults = 0 /\ ~fails => n >= earnIn + a - earnOut
    <3>1. fails \in BOOLEAN
      BY FailsIs
    <3>2. /\ Principal(EarnRefreshed(fails)) \in Nat
          /\ earnStore = "postgres" /\ earnFaults = 0 /\ ~fails =>
               Principal(EarnRefreshed(fails)) >= earnIn - earnOut
      BY <3>1, RefreshedCovers
    <3>3. a \in Nat
      BY <1>0
    <3>. DEFINE n == Principal(EarnRefreshed(fails)) + a
    <3>4. n \in Nat /\ (earnStore = "postgres" /\ earnFaults = 0 /\ ~fails => n >= earnIn + a - earnOut)
      BY <1>0, <3>2, <3>3
    <3>. QED
      BY <3>4
  <2>3. /\ earnHeld' \in SUBSET Nat /\ earnRow' \in SUBSET Nat /\ earnFaults' \in 0..MaxEarnFaults
        /\ earnStore = "postgres" /\ earnFaults' = 0 => Principal(earnRow') >= earnIn + a - earnOut
    BY <2>1, <2>2, SavingCovers
  <2>4. earnCalls' \in Calls /\ UNCHANGED <<earnStore, earnSnap, earnOut>>
    BY <1>0, <1>1 DEF DepositEarn
  <2>. QED
    BY <1>0, <2>1, <2>3, <2>4 DEF EarnInv, EarnTypeOK, NoDepositIsLost
<1>2. ASSUME NEW c \in EarnCalls, CheckWithdrawal(c) PROVE EarnInv'
  <2>1. PICK a \in EarnAmounts, fails \in {FALSE} \cup {EarnReadFails} :
          /\ earnHeld' = EarnRefreshed(fails)
          /\ earnFaults' = IF fails THEN earnFaults + 1 ELSE earnFaults
          /\ earnCalls' = [earnCalls EXCEPT ![c] =
               [at |-> IF Principal(EarnRefreshed(fails)) < a THEN "over" ELSE "checked", amount |-> a]]
    BY <1>2 DEF CheckWithdrawal
  <2>2. earnHeld' \in SUBSET Nat /\ earnCalls' \in Calls
    BY <1>0, <2>1, FailsIs, RefreshedCovers
  <2>3. earnFaults' \in 0..MaxEarnFaults /\ (earnFaults' = 0 => earnFaults = 0)
    <3>1. (fails => earnFaults < MaxEarnFaults) /\ MaxEarnFaults \in Nat
      BY EarnAssumption, FailsIs
    <3>2. earnFaults \in 0..MaxEarnFaults /\ earnFaults' = IF fails THEN earnFaults + 1 ELSE earnFaults
      BY <1>0, <2>1
    <3>. QED
      BY <3>1, <3>2
  <2>4. UNCHANGED <<earnStore, earnRow, earnSnap, earnIn, earnOut>>
    BY <1>2 DEF CheckWithdrawal
  <2>. QED
    BY <1>0, <2>2, <2>3, <2>4 DEF EarnInv, EarnTypeOK, NoDepositIsLost
<1>3. ASSUME NEW c \in EarnCalls, SubtractWithdrawal(c) PROVE EarnInv'
  <2>1. PICK fails \in {FALSE} \cup {EarnReadFails} :
          LET left == Principal(EarnRefreshed(fails)) - earnCalls[c].amount IN
          SavesPosition(IF left < 0 THEN 0 ELSE left, fails)
    BY <1>3 DEF SubtractWithdrawal
  <2>2. earnCalls[c].amount \in Nat /\ earnOut' = earnOut + earnCalls[c].amount
        /\ UNCHANGED <<earnStore, earnSnap, earnIn>> /\ earnCalls' \in Calls
    BY <1>0, <1>3 DEF SubtractWithdrawal
  <2>3. PICK n \in Nat : /\ SavesPosition(n, fails)
                         /\ earnStore = "postgres" /\ earnFaults = 0 /\ ~fails => n >= earnIn - earnOut'
    <3>. DEFINE left == Principal(EarnRefreshed(fails)) - earnCalls[c].amount
                n == IF left < 0 THEN 0 ELSE left
    <3>1. /\ Principal(EarnRefreshed(fails)) \in Nat
          /\ earnStore = "postgres" /\ earnFaults = 0 /\ ~fails =>
               Principal(EarnRefreshed(fails)) >= earnIn - earnOut
      BY FailsIs, RefreshedCovers
    <3>2. n \in Nat /\ (earnStore = "postgres" /\ earnFaults = 0 /\ ~fails => n >= earnIn - earnOut')
      BY <1>0, <2>2, <3>1
    <3>3. SavesPosition(n, fails)
      BY <2>1
    <3>. HIDE DEF n
    <3>. QED
      BY <3>2, <3>3
  <2>4. /\ earnHeld' \in SUBSET Nat /\ earnRow' \in SUBSET Nat /\ earnFaults' \in 0..MaxEarnFaults
        /\ earnStore = "postgres" /\ earnFaults' = 0 => Principal(earnRow') >= earnIn - earnOut'
    BY <2>3, SavingCovers
  <2>. QED
    BY <1>0, <2>2, <2>4 DEF EarnInv, EarnTypeOK, NoDepositIsLost
<1>4. ASSUME \/ \E r \in EarnReaders : ReadPosition(r) \/ MergePosition(r)
             \/ EarnRestart \/ UNCHANGED earnVars
      PROVE  EarnInv'
  <2>1. /\ earnHeld' \in SUBSET Nat /\ earnCalls' \in Calls /\ earnSnap' \in [EarnReaders -> SUBSET Nat]
        /\ UNCHANGED <<earnStore, earnRow, earnIn, earnOut, earnFaults>>
    <3>1. CASE EarnRestart
      BY <1>0, <3>1 DEF EarnRestart
    <3>2. CASE \E r \in EarnReaders : ReadPosition(r) \/ MergePosition(r)
      BY <1>0, <3>2 DEF ReadPosition, MergePosition, MergedInto
    <3>. QED
      BY <1>0, <1>4, <3>1, <3>2 DEF earnVars
  <2>. QED
    BY <1>0, <2>1 DEF EarnInv, EarnTypeOK, NoDepositIsLost
<1>. QED
  BY <1>1, <1>2, <1>3, <1>4 DEF EarnNext

(* On PostgreSQL, while its reads and saves succeed, the stored position     *)
(* covers every answered deposit that was not withdrawn, with any number of  *)
(* calls, readers and restarts (deposit, withdraw, get_position).            *)
THEOREM DepositsKept == EarnSpec => []NoDepositIsLost
<1>1. EarnInit => EarnInv
  <2>1. Principal({}) = 0
    BY DEF Principal
  <2>. QED
    BY <2>1, EarnAssumption DEF EarnInit, EarnInv, EarnTypeOK, NoDepositIsLost, NoMove
<1>. QED
  BY <1>1, EarnStep, PTL DEF EarnSpec, EarnInv

-----------------------------------------------------------------------------
(***************************************************************************)
(* The treasury desk: what a sweep leaves, by the cash it was checked at   *)
(* and what left the account since.                                        *)
(***************************************************************************)
(* A sweep past the rails left the reserve in the cash that was there.  What *)
(* left the account since then has lowered the cash by as much as it counts. *)
CheckedSweeps ==
  \A c \in DeskCalls : Watched(c) => cash + desk[c].left >= Reserve + desk[c].amount

(* What calls are.                                                           *)
DeskRows == [at : {"idle", "decided", "checked", "sent", "mined", "given up", "over"},
             account : Accounts, move : {"none", "sweep", "redeem"}, amount : Nat, left : Nat]
WatchedRow(row) == row.at \in {"checked", "sent", "given up"} /\ row.move = "sweep" /\ row.account = "own"

(* The part of the type invariant the argument needs.                        *)
DeskInv == /\ cash \in Nat /\ vault \in Nat /\ ledger \in Nat /\ spent \in Nat
           /\ position \in SUBSET Nat /\ desk \in [DeskCalls -> DeskRows] /\ CheckedSweeps

(* The moves a decision may come to are moves.                               *)
LEMMA DecisionType ==
  ASSUME NEW bills, NEW liquid, NEW assets, NEW d \in Decisions(bills, liquid, assets)
  PROVE  d.move \in {"sweep", "redeem"} /\ d.amount \in Nat
<1>1. \A n : \A a \in 1..n : a \in Nat
  OBVIOUS
<1>. QED
  BY <1>1 DEF Decisions

(* The positions that are read are natural numbers.                          *)
LEMMA PositionsType ==
  ASSUME DeskInv, NEW account
  PROVE  PositionReadings(account) \subseteq Nat /\ Readings(account) \subseteq Nat
  BY DeskAssumption DEF DeskInv, PositionReadings, Readings

(* While no cash leaves, a call that is not watched, or covers its sweep, may*)
(* have any move.                                                            *)
LEMMA DeskRowKeeps ==
  ASSUME DeskInv, NEW c \in DeskCalls, NEW entry \in DeskRows, desk' = [desk EXCEPT ![c] = entry],
         cash' \in Nat, cash' >= cash,
         WatchedRow(entry) => cash + entry.left >= Reserve + entry.amount
  PROVE  desk' \in [DeskCalls -> DeskRows] /\ CheckedSweeps'
<1>0. Reserve \in Nat /\ cash \in Nat /\ desk \in [DeskCalls -> DeskRows]
  BY DeskAssumption DEF DeskInv
<1>1. desk' \in [DeskCalls -> DeskRows]
  BY <1>0
<1>2. ASSUME NEW o \in DeskCalls, WatchedRow(desk'[o])
      PROVE  cash' + desk'[o].left >= Reserve + desk'[o].amount
  <2>. DEFINE row == desk'[o]
  <2>1. row.left \in Nat /\ row.amount \in Nat
    BY <1>1 DEF DeskRows
  <2>2. cash + row.left >= Reserve + row.amount
    <3>1. CASE o = c
      BY <1>0, <1>2, <3>1
    <3>2. CASE o # c
      <4>1. row = desk[o] /\ Watched(o)
        BY <1>0, <1>2, <3>2 DEF Watched, WatchedRow
      <4>. QED
        BY <4>1 DEF DeskInv, CheckedSweeps
    <3>. QED
      BY <3>1, <3>2
  <2>. HIDE DEF row
  <2>3. cash' + row.left >= Reserve + row.amount
    BY <1>0, <2>1, <2>2
  <2>. QED
    BY <2>3 DEF row
<1>. QED
  BY <1>1, <1>2 DEF CheckedSweeps, Watched, WatchedRow

(* What leaves the account is counted against every sweep that is watched.   *)
LEMMA OutflowKeeps ==
  ASSUME DeskInv, NEW a \in Nat, a <= cash, cash' = cash - a, NEW f, desk' = f,
         f \in [DeskCalls -> DeskRows],
         \A o \in DeskCalls : f[o] = Noted(o, a) \/ ~WatchedRow(f[o])
  PROVE  CheckedSweeps'
<1>0. Reserve \in Nat /\ cash \in Nat /\ desk \in [DeskCalls -> DeskRows]
  BY DeskAssumption DEF DeskInv
<1>1. ASSUME NEW o \in DeskCalls, WatchedRow(f[o])
      PROVE  cash' + f[o].left >= Reserve + f[o].amount
  <2>1. f[o] = Noted(o, a)
    BY <1>1
  <2>2. Watched(o)
    BY <1>1, <2>1 DEF Noted, Watched, WatchedRow
  <2>3. f[o] = [desk[o] EXCEPT !.left = @ + a] /\ desk[o] \in DeskRows
    BY <1>0, <2>1, <2>2 DEF Noted
  <2>. DEFINE before == desk[o].left
              amount == desk[o].amount
              after == f[o].left
  <2>4. /\ before \in Nat /\ amount \in Nat /\ after = before + a /\ f[o].amount = amount
        /\ cash + before >= Reserve + amount
    <3>1. desk[o].left \in Nat /\ desk[o].amount \in Nat
      BY <2>3 DEF DeskRows
    <3>2. f[o].left = desk[o].left + a /\ f[o].amount = desk[o].amount
      BY <2>3 DEF DeskRows
    <3>3. cash + desk[o].left >= Reserve + desk[o].amount
      BY <2>2 DEF DeskInv, CheckedSweeps
    <3>. QED
      BY <3>1, <3>2, <3>3
  <2>. HIDE DEF before, amount, after
  <2>5. cash' + after >= Reserve + amount
    BY <1>0, <2>4
  <2>. QED
    BY <2>4, <2>5 DEF after
<1>. QED
  BY <1>1 DEF CheckedSweeps, Watched, WatchedRow

(* Counting an outflow keeps the rows.                                       *)
LEMMA NotedType ==
  ASSUME NEW o \in DeskCalls, desk[o] \in DeskRows, NEW a \in Nat
  PROVE  Noted(o, a) \in DeskRows
<1>. DEFINE left == desk[o].left
<1>1. left \in Nat
  BY DEF DeskRows
<1>2. left + a \in Nat
  BY <1>1
<1>. HIDE DEF left
<1>3. Noted(o, a) = IF Watched(o) THEN [desk[o] EXCEPT !.left = left + a] ELSE desk[o]
  BY DEF Noted, left
<1>. QED
  BY <1>2, <1>3 DEF DeskRows

(* Every step keeps the invariant.                                           *)
LEMMA DeskStep == DeskInv /\ [DeskNext]_deskVars => DeskInv'
<1>. SUFFICES ASSUME DeskInv, [DeskNext]_deskVars PROVE DeskInv'
  OBVIOUS
<1>0. /\ cash \in Nat /\ vault \in Nat /\ ledger \in Nat /\ spent \in Nat
      /\ position \in SUBSET Nat /\ desk \in [DeskCalls -> DeskRows]
      /\ Runs \subseteq DeskCalls /\ Admins \subseteq DeskCalls /\ Reserve \in Nat /\ cash >= cash
  BY DeskAssumption DEF DeskInv, DeskCalls
<1>1. ASSUME NEW c \in DeskCalls, NEW at, NEW x, desk[c].at = x, desk' = [desk EXCEPT ![c].at = at],
             at \in {"sent", "over", "mined", "given up"}, cash' \in Nat, cash' >= cash,
             at \in {"sent", "given up"} => x \in {"checked", "sent", "given up"}
      PROVE  desk' \in [DeskCalls -> DeskRows] /\ CheckedSweeps'
  <2>. DEFINE entry == [desk[c] EXCEPT !.at = at]
  <2>1. desk' = [desk EXCEPT ![c] = entry]
    BY <1>1
  <2>2. /\ entry \in DeskRows /\ entry.at = at /\ entry.move = desk[c].move
        /\ entry.account = desk[c].account /\ entry.left = desk[c].left /\ entry.amount = desk[c].amount
    BY <1>0, <1>1 DEF DeskRows
  <2>3. WatchedRow(entry) => cash + entry.left >= Reserve + entry.amount
    <3>1. WatchedRow(entry) => Watched(c)
      BY <1>1, <2>2 DEF WatchedRow, Watched
    <3>. QED
      BY <2>2, <3>1 DEF DeskInv, CheckedSweeps
  <2>. HIDE DEF entry
  <2>. QED
    BY <1>1, <2>1, <2>2, <2>3, DeskRowKeeps
<1>2. ASSUME NEW c \in DeskCalls, NEW account \in Accounts, NEW d, d.move \in {"sweep", "redeem"},
             d.amount \in Nat, PrepareMove(c, account, d), cash' = cash
      PROVE  desk' \in [DeskCalls -> DeskRows] /\ CheckedSweeps' /\ ledger' = ledger
  <2>. DEFINE entry == [at |-> "decided", account |-> account, move |-> d.move, amount |-> d.amount, left |-> 0]
  <2>1. entry \in DeskRows /\ entry.at = "decided"
    BY <1>2 DEF DeskRows
  <2>2. desk' = [desk EXCEPT ![c] = entry] /\ ledger' = ledger
    BY <1>2 DEF PrepareMove
  <2>3. ~WatchedRow(entry)
    BY <2>1 DEF WatchedRow
  <2>. HIDE DEF entry
  <2>. QED
    BY <1>0, <1>2, <2>1, <2>2, <2>3, DeskRowKeeps
<1>3. ASSUME NEW c \in Runs, Decide(c) PROVE DeskInv'
  <2>0. c \in DeskCalls /\ desk[c].at = "idle"
    BY <1>3 DEF DeskCalls, Decide
  <2>1. UNCHANGED <<rail, cash, vault, spent>>
    BY <1>3 DEF Decide
  <2>2. PICK open \in ClaimReadings, account \in Accounts :
          \E liquid \in CashReadings(account), assets \in Readings(account) :
            /\ \/ /\ desk' = [desk EXCEPT ![c].at = "over"]
                  /\ UNCHANGED <<ledger, cooling>>
               \/ /\ ~cooling
                  /\ \E d \in Decisions(Obligations(open), liquid, assets):
                       IF rail = "EARN" THEN Simulate(c, account, d) ELSE PrepareMove(c, account, d)
            /\ position' = IF account = "other" THEN position ELSE IF rail = "EARN" THEN {} ELSE {assets}
    BY <1>3 DEF Decide
  <2>3. PICK liquid \in CashReadings(account), assets \in Readings(account) :
          /\ \/ /\ desk' = [desk EXCEPT ![c].at = "over"]
                /\ UNCHANGED <<ledger, cooling>>
             \/ /\ ~cooling
                /\ \E d \in Decisions(Obligations(open), liquid, assets):
                     IF rail = "EARN" THEN Simulate(c, account, d) ELSE PrepareMove(c, account, d)
          /\ position' = IF account = "other" THEN position ELSE IF rail = "EARN" THEN {} ELSE {assets}
    BY <2>2
  <2>4. position' \in SUBSET Nat
    <3>1. assets \in Nat
      BY PositionsType
    <3>. QED
      BY <1>0, <2>3, <3>1
  <2>5. CASE desk' = [desk EXCEPT ![c].at = "over"] /\ ledger' = ledger
    <3>1. desk' \in [DeskCalls -> DeskRows] /\ CheckedSweeps'
      BY <1>0, <1>1, <2>0, <2>1, <2>5
    <3>. QED
      BY <1>0, <2>1, <2>4, <2>5, <3>1 DEF DeskInv
  <2>6. ASSUME NEW d \in Decisions(Obligations(open), liquid, assets), Simulate(c, account, d) PROVE DeskInv'
    <3>1. d.move \in {"sweep", "redeem"} /\ d.amount \in Nat
      BY DecisionType
    <3>2. ledger' \in Nat /\ desk' = [desk EXCEPT ![c].at = "over"]
      <4>1. \/ ledger' = ledger
            \/ ledger' = ledger + d.amount
            \/ ledger >= d.amount /\ ledger' = ledger - d.amount
        BY <2>6, <3>1 DEF Simulate
      <4>2. desk' = [desk EXCEPT ![c].at = "over"]
        BY <2>6 DEF Simulate
      <4>. QED
        BY <1>0, <3>1, <4>1, <4>2
    <3>3. desk' \in [DeskCalls -> DeskRows] /\ CheckedSweeps'
      BY <1>0, <1>1, <2>0, <2>1, <3>2
    <3>. QED
      BY <1>0, <2>1, <2>4, <3>2, <3>3 DEF DeskInv
  <2>7. ASSUME NEW d \in Decisions(Obligations(open), liquid, assets), PrepareMove(c, account, d) PROVE DeskInv'
    <3>1. d.move \in {"sweep", "redeem"} /\ d.amount \in Nat
      BY DecisionType
    <3>2. desk' \in [DeskCalls -> DeskRows] /\ CheckedSweeps' /\ ledger' = ledger
      BY <1>2, <2>0, <2>1, <2>7, <3>1
    <3>. QED
      BY <1>0, <2>1, <2>4, <3>2 DEF DeskInv
  <2>. QED
    BY <2>3, <2>5, <2>6, <2>7
<1>4. ASSUME NEW c \in Admins, OrderSweep(c) \/ OrderRedeem(c) PROVE DeskInv'
  <2>0. c \in DeskCalls
    BY DEF DeskCalls
  <2>1. UNCHANGED <<rail, cash, vault, spent>>
    BY <1>4 DEF OrderSweep, OrderRedeem
  <2>2. PICK account \in Accounts, d \in [move : {"sweep", "redeem"}, amount : Nat] :
          /\ d.move \in {"sweep", "redeem"} /\ d.amount \in Nat /\ PrepareMove(c, account, d)
          /\ \E assets \in PositionReadings(account) :
               position' = IF account = "other" THEN position ELSE {assets}
    <3>1. CASE OrderSweep(c)
      <4>1. PICK account \in Accounts : \E liquid \in CashReadings(account), assets \in PositionReadings(account) :
              /\ \E a \in 1..Lesser(liquid, MaxMove) :
                   PrepareMove(c, account, [move |-> "sweep", amount |-> a])
              /\ position' = IF account = "other" THEN position ELSE {assets}
        BY <3>1 DEF OrderSweep
      <4>2. PICK a \in Nat : PrepareMove(c, account, [move |-> "sweep", amount |-> a])
        BY <4>1
      <4>3. \E assets \in PositionReadings(account) :
              position' = IF account = "other" THEN position ELSE {assets}
        BY <4>1
      <4>. QED
        BY <4>2, <4>3
    <3>2. CASE OrderRedeem(c)
      <4>1. PICK account \in Accounts : \E assets \in PositionReadings(account) :
              /\ \E a \in 1..Lesser(assets, MaxMove) :
                   PrepareMove(c, account, [move |-> "redeem", amount |-> a])
              /\ position' = IF account = "other" THEN position ELSE {assets}
        BY <3>2 DEF OrderRedeem
      <4>2. PICK a \in Nat : PrepareMove(c, account, [move |-> "redeem", amount |-> a])
        BY <4>1
      <4>3. \E assets \in PositionReadings(account) :
              position' = IF account = "other" THEN position ELSE {assets}
        BY <4>1
      <4>. QED
        BY <4>2, <4>3
    <3>. QED
      BY <1>4, <3>1, <3>2
  <2>3. position' \in SUBSET Nat
    <3>1. PositionReadings(account) \subseteq Nat
      BY PositionsType
    <3>. QED
      BY <1>0, <2>2, <3>1
  <2>4. desk' \in [DeskCalls -> DeskRows] /\ CheckedSweeps' /\ ledger' = ledger
    BY <1>2, <2>0, <2>1, <2>2
  <2>. QED
    BY <1>0, <2>1, <2>3, <2>4 DEF DeskInv
<1>5. ASSUME NEW c \in DeskCalls, CheckRails(c) PROVE DeskInv'
  <2>1. PICK liquid \in CashReadings(desk[c].account) :
          desk' = IF WithinRails(c, liquid) THEN [desk EXCEPT ![c].at = "checked"]
                  ELSE [desk EXCEPT ![c].at = "over"]
    BY <1>5 DEF CheckRails
  <2>2. UNCHANGED <<rail, cash, vault, ledger, position, cooling, spent>>
    BY <1>5 DEF CheckRails
  <2>3. CASE WithinRails(c, liquid)
    <3>. DEFINE entry == [desk[c] EXCEPT !.at = "checked"]
    <3>1. desk' = [desk EXCEPT ![c] = entry]
      BY <1>0, <2>1, <2>3
    <3>2. /\ entry \in DeskRows /\ entry.move = desk[c].move /\ entry.account = desk[c].account
          /\ entry.left = desk[c].left /\ entry.amount = desk[c].amount
          /\ desk[c].left \in Nat /\ desk[c].amount \in Nat
      BY <1>0 DEF DeskRows
    <3>3. WatchedRow(entry) => cash + entry.left >= Reserve + entry.amount
      <4>. SUFFICES ASSUME WatchedRow(entry) PROVE cash + entry.left >= Reserve + entry.amount
        OBVIOUS
      <4>1. desk[c].move = "sweep" /\ desk[c].account = "own"
        BY <3>2 DEF WatchedRow
      <4>2. liquid \in {cash, 0} /\ liquid - desk[c].amount >= Reserve
        BY <2>3, <4>1 DEF CashReadings, WithinRails
      <4>. DEFINE amount == desk[c].amount
                  left == desk[c].left
      <4>3. amount \in Nat /\ left \in Nat /\ liquid \in {cash, 0} /\ liquid - amount >= Reserve
        BY <3>2, <4>2
      <4>. HIDE DEF amount, left
      <4>4. cash + left >= Reserve + amount
        BY <1>0, <4>3
      <4>. QED
        BY <3>2, <4>4 DEF amount, left
    <3>. HIDE DEF entry
    <3>4. desk' \in [DeskCalls -> DeskRows] /\ CheckedSweeps'
      BY <1>0, <2>2, <3>1, <3>2, <3>3, DeskRowKeeps
    <3>. QED
      BY <1>0, <2>2, <3>4 DEF DeskInv
  <2>4. CASE desk' = [desk EXCEPT ![c].at = "over"]
    <3>1. desk' \in [DeskCalls -> DeskRows] /\ CheckedSweeps'
      BY <1>0, <1>1, <2>2, <2>4
    <3>. QED
      BY <1>0, <2>2, <3>1 DEF DeskInv
  <2>. QED
    BY <2>1, <2>3, <2>4
<1>6. ASSUME NEW c \in DeskCalls,
             SendDeposit(c) \/ SendRedeem(c) \/ GiveUpWait(c) \/ GetReceipt(c)
      PROVE  DeskInv'
  <2>1. UNCHANGED <<cash, vault, ledger, spent>> /\ position' \in SUBSET Nat
    BY <1>0, <1>6 DEF SendDeposit, SendRedeem, GiveUpWait, GetReceipt
  <2>2. desk' \in [DeskCalls -> DeskRows] /\ CheckedSweeps'
    BY <1>0, <1>1, <1>6, <2>1 DEF SendDeposit, SendRedeem, GiveUpWait, GetReceipt
  <2>. QED
    BY <1>0, <2>1, <2>2 DEF DeskInv
<1>7. ASSUME NEW c \in DeskCalls, MineDeposit(c) PROVE DeskInv'
  <2>. DEFINE a == desk[c].amount
              entry == [desk[c] EXCEPT !.at = AfterMining(c), !.left = 0]
              calls == [o \in DeskCalls |-> IF o = c THEN entry ELSE Noted(o, a)]
  <2>0. a \in Nat
    BY <1>0 DEF DeskRows
  <2>1. /\ a <= cash /\ cash' = cash - a /\ vault' = IF desk[c].account = "own" THEN vault + a ELSE vault
        /\ desk' = calls
    BY <1>7 DEF MineDeposit
  <2>2. UNCHANGED <<rail, ledger, position, cooling, spent>>
    BY <1>7 DEF MineDeposit
  <2>3. entry \in DeskRows /\ ~WatchedRow(entry)
    BY <1>0 DEF DeskRows, WatchedRow, AfterMining
  <2>. HIDE DEF a, entry
  <2>4. calls \in [DeskCalls -> DeskRows]
    <3>1. \A o \in DeskCalls : Noted(o, a) \in DeskRows
      BY <1>0, <2>0, NotedType
    <3>. QED
      BY <2>3, <3>1
  <2>5. \A o \in DeskCalls : calls[o] = Noted(o, a) \/ ~WatchedRow(calls[o])
    BY <2>3
  <2>6. cash' \in Nat /\ vault' \in Nat
    BY <1>0, <2>0, <2>1
  <2>. HIDE DEF calls
  <2>7. CheckedSweeps'
    BY <2>0, <2>1, <2>4, <2>5, OutflowKeeps
  <2>. QED
    BY <1>0, <2>1, <2>2, <2>4, <2>6, <2>7 DEF DeskInv
<1>8. ASSUME NEW c \in DeskCalls, MineRedemption(c) PROVE DeskInv'
  <2>. DEFINE a == desk[c].amount
  <2>0. a \in Nat
    BY <1>0 DEF DeskRows
  <2>1. a <= vault /\ vault' = vault - a /\ cash' \in {cash, cash + a}
    BY <1>8 DEF MineRedemption
  <2>. HIDE DEF a
  <2>2. cash' \in Nat /\ cash' >= cash /\ vault' \in Nat
    BY <1>0, <2>0, <2>1
  <2>3. desk' = [desk EXCEPT ![c].at = AfterMining(c)] /\ UNCHANGED <<rail, ledger, position, cooling, spent>>
    BY <1>8 DEF MineRedemption
  <2>4. desk' \in [DeskCalls -> DeskRows] /\ CheckedSweeps'
    <3>1. AfterMining(c) \in {"over", "mined"}
      BY DEF AfterMining
    <3>. QED
      BY <1>1, <2>2, <2>3, <3>1
  <2>. QED
    BY <1>0, <2>2, <2>3, <2>4 DEF DeskInv
<1>9. ASSUME NEW c \in DeskCalls, RevertMove(c) PROVE DeskInv'
  <2>. DEFINE entry == [desk[c] EXCEPT !.at = "over", !.left = 0]
  <2>1. desk' = [desk EXCEPT ![c] = entry] /\ UNCHANGED <<rail, cash, vault, ledger, position, cooling, spent>>
    BY <1>0, <1>9 DEF RevertMove
  <2>2. entry \in DeskRows /\ ~WatchedRow(entry)
    BY <1>0 DEF DeskRows, WatchedRow
  <2>. HIDE DEF entry
  <2>3. desk' \in [DeskCalls -> DeskRows] /\ CheckedSweeps'
    BY <1>0, <2>1, <2>2, DeskRowKeeps
  <2>. QED
    BY <1>0, <2>1, <2>3 DEF DeskInv
<1>10. ASSUME PayFromTreasury PROVE DeskInv'
  <2>. DEFINE calls == [o \in DeskCalls |-> Noted(o, 1)]
  <2>1. /\ cash > 0 /\ cash' = cash - 1 /\ spent' = spent + 1 /\ desk' = calls
        /\ UNCHANGED <<rail, vault, ledger, position, cooling>>
    BY <1>10 DEF PayFromTreasury
  <2>2. calls \in [DeskCalls -> DeskRows] /\ \A o \in DeskCalls : calls[o] = Noted(o, 1)
    BY <1>0, NotedType
  <2>. HIDE DEF calls
  <2>3. 1 \in Nat /\ 1 <= cash /\ cash' \in Nat /\ spent' \in Nat
    BY <1>0, <2>1
  <2>4. CheckedSweeps'
    BY <2>1, <2>2, <2>3, OutflowKeeps
  <2>. QED
    BY <1>0, <2>1, <2>2, <2>3, <2>4 DEF DeskInv
<1>11. ASSUME CooldownEnds \/ PositionLapses \/ UNCHANGED deskVars PROVE DeskInv'
  <2>1. UNCHANGED <<desk, ledger, vault, cash, spent>> /\ position' \in SUBSET Nat
    BY <1>0, <1>11 DEF CooldownEnds, PositionLapses, deskVars
  <2>. QED
    BY <1>0, <2>1 DEF DeskInv, CheckedSweeps, Watched
<1>. QED
  BY <1>3, <1>4, <1>5, <1>6, <1>7, <1>8, <1>9, <1>10, <1>11 DEF DeskNext

(* When a sweep that was checked on the paying account is mined, the account *)
(* falls short of the operating reserve by no more than what else left it    *)
(* since the check (_enforce_safety_rails, execute_deposit).                 *)
THEOREM ReserveKept == DeskSpec => SweepsKeepReserve
<1>1. DeskInit => DeskInv
  <2>. SUFFICES ASSUME DeskInit PROVE DeskInv
    OBVIOUS
  <2>1. AtRest \in DeskRows /\ AtRest.at = "idle" /\ Funds \in Nat
    BY DeskAssumption DEF DeskRows, AtRest, Accounts
  <2>2. desk \in [DeskCalls -> DeskRows] /\ CheckedSweeps
    BY <2>1 DEF DeskInit, CheckedSweeps, Watched
  <2>. QED
    BY <2>1, <2>2 DEF DeskInit, DeskInv
<1>2. DeskInv /\ [DeskNext]_deskVars =>
        [\A c \in DeskCalls :
           MineDeposit(c) /\ desk[c].account = "own" => cash' + desk[c].left >= Reserve]_deskVars
  <2>. SUFFICES ASSUME DeskInv, NEW c \in DeskCalls, MineDeposit(c), desk[c].account = "own"
                PROVE  cash' + desk[c].left >= Reserve
    OBVIOUS
  <2>. DEFINE a == desk[c].amount
              left == desk[c].left
  <2>1. cash \in Nat /\ a \in Nat /\ left \in Nat /\ Reserve \in Nat
    BY DeskAssumption DEF DeskInv, DeskRows
  <2>2. cash' = cash - a /\ Watched(c)
    BY DEF MineDeposit, Watched
  <2>3. cash + left >= Reserve + a
    BY <2>2 DEF DeskInv, CheckedSweeps
  <2>. HIDE DEF a, left
  <2>4. cash' + left >= Reserve
    BY <2>1, <2>2, <2>3
  <2>. QED
    BY <2>4 DEF left
<1>. QED
  BY <1>1, <1>2, DeskStep, PTL DEF DeskSpec, SweepsKeepReserve

-----------------------------------------------------------------------------
(***************************************************************************)
(* The audit trail: the process about to append holds the lock, and has    *)
(* the trail as it is or knows that its read failed.                       *)
(***************************************************************************)
(* A record; how many there are does not matter here.                        *)
TrailRow == [id : Nat, prev : Nat, unread : BOOLEAN]

Trails == Seq(TrailRow)
TrailTypes ==
  /\ trailRows \in Trails /\ made \in Nat /\ place \in Places
  /\ books \in [Writers -> Trails]
  /\ euthyna \in [Writers -> [at : {"idle", "append"}, unread : BOOLEAN]]

(* Between its load and its save a process holds the lock and the trail.     *)
HoldsTheTrail ==
  \A w \in Writers : euthyna[w].at = "append" =>
    /\ holder = w
    /\ euthyna[w].unread => place = "storage"
    /\ euthyna[w].unread \/ books[w] = LoadsTo

TrailInv ==
  /\ TrailTypes /\ HoldsTheTrail /\ ForkNeedsAFailedRead
  /\ place = "nowhere" => trailRows = <<>>

(* A record that continues the trail, or was made after a failed read, keeps *)
(* the trail as it should be.                                                *)
LEMMA AppendingKeeps ==
  ASSUME NEW chain \in Seq(TrailRow), NEW record \in TrailRow,
         \A i \in 2..Len(chain) : chain[i].prev = chain[i - 1].id \/ chain[i].unread,
         record.unread \/ record.prev = PredecessorIn(chain)
  PROVE  LET longer == Append(chain, record) IN
         /\ longer \in Seq(TrailRow)
         /\ \A i \in 2..Len(longer) : longer[i].prev = longer[i - 1].id \/ longer[i].unread
<1>. DEFINE longer == Append(chain, record)
<1>1. /\ longer \in Seq(TrailRow) /\ Len(longer) = Len(chain) + 1 /\ Len(chain) \in Nat
      /\ \A i \in 1..Len(chain) : longer[i] = chain[i]
      /\ longer[Len(chain) + 1] = record
  OBVIOUS
<1>2. Len(chain) >= 1 => PredecessorIn(chain) = chain[Len(chain)].id
  BY DEF PredecessorIn, Last
<1>. HIDE DEF longer
<1>3. ASSUME NEW i \in 2..Len(longer)
      PROVE  longer[i].prev = longer[i - 1].id \/ longer[i].unread
  <2>1. CASE i <= Len(chain)
    <3>1. i \in 2..Len(chain) /\ i \in 1..Len(chain) /\ i - 1 \in 1..Len(chain)
      BY <1>1, <2>1
    <3>. QED
      BY <1>1, <3>1
  <2>2. CASE i = Len(chain) + 1
    <3>1. Len(chain) >= 1 /\ i - 1 = Len(chain) /\ Len(chain) \in 1..Len(chain)
      BY <1>1, <2>2
    <3>. QED
      BY <1>1, <1>2, <2>2, <3>1
  <2>. QED
    BY <1>1, <2>1, <2>2
<1>. QED
  BY <1>1, <1>3 DEF longer

(* Every step keeps the invariant.                                           *)
LEMMA TrailStep == TrailInv /\ [ChainNext]_chainStateVars => TrailInv'
<1>. SUFFICES ASSUME TrailInv, [ChainNext]_chainStateVars PROVE TrailInv'
  OBVIOUS
<1>0. TrailTypes /\ LoadsTo \in Trails /\ <<>> \in Trails /\ "free" \notin Writers
  BY ChainAssumption DEF TrailInv, TrailTypes, LoadsTo, Trails
<1>1. ASSUME NEW w \in Writers, BeginRecord(w) PROVE TrailInv'
  <2>1. UNCHANGED <<place, trailRows, made>> /\ holder = "free" /\ holder' = w
    BY <1>1 DEF BeginRecord
  <2>2. TrailTypes'
    <3>1. books' \in [Writers -> Trails]
      BY <1>0, <1>1 DEF BeginRecord, TrailTypes
    <3>2. PICK unread \in BOOLEAN : euthyna' = [euthyna EXCEPT ![w] = [at |-> "append", unread |-> unread]]
      BY <1>1 DEF BeginRecord
    <3>3. euthyna' \in [Writers -> [at : {"idle", "append"}, unread : BOOLEAN]]
      BY <1>0, <3>2 DEF TrailTypes
    <3>. QED
      BY <1>0, <2>1, <3>1, <3>3 DEF TrailTypes
  <2>3. \A v \in Writers : v # w => euthyna'[v].at # "append"
    <3>1. \A v \in Writers : v # w => euthyna'[v] = euthyna[v]
      BY <1>0, <1>1 DEF BeginRecord, TrailTypes
    <3>. QED
      BY <1>0, <2>1, <3>1 DEF TrailInv, HoldsTheTrail
  <2>4. \/ books'[w] = LoadsTo /\ ~euthyna'[w].unread
        \/ euthyna'[w].unread /\ place = "storage"
    BY <1>0, <1>1 DEF BeginRecord, TrailTypes
  <2>5. HoldsTheTrail'
    BY <2>1, <2>3, <2>4 DEF HoldsTheTrail, LoadsTo
  <2>. QED
    BY <2>1, <2>2, <2>5 DEF TrailInv, ForkNeedsAFailedRead
<1>2. ASSUME NEW w \in Writers, AppendRecord(w) PROVE TrailInv'
  <2>. DEFINE record == [id |-> made + 1, prev |-> PredecessorIn(books[w]), unread |-> euthyna[w].unread]
  <2>1. /\ euthyna[w].at = "append" /\ holder = w /\ holder' = "free" /\ place' = place
        /\ made' = made + 1 /\ books' = [books EXCEPT ![w] = Append(@, record)]
        /\ euthyna' = [euthyna EXCEPT ![w].at = "idle"]
    BY <1>2 DEF AppendRecord, TrailInv, HoldsTheTrail
  <2>2. PredecessorIn(books[w]) \in Nat
    <3>1. \A book \in Seq(TrailRow) : PredecessorIn(book) \in Nat
      <4>. SUFFICES ASSUME NEW book \in Seq(TrailRow) PROVE PredecessorIn(book) \in Nat
        OBVIOUS
      <4>1. CASE book = <<>>
        BY <4>1 DEF PredecessorIn, Genesis
      <4>2. CASE book # <<>>
        <5>1. Len(book) \in 1..Len(book) /\ book[Len(book)] \in TrailRow
          BY <4>2
        <5>. QED
          BY <4>2, <5>1 DEF PredecessorIn, Last, TrailRow
      <4>. QED
        BY <4>1, <4>2
    <3>. QED
      BY <1>0, <3>1 DEF TrailTypes, Trails
  <2>3. record \in TrailRow /\ record.prev = PredecessorIn(books[w]) /\ record.unread = euthyna[w].unread
    BY <1>0, <2>2 DEF TrailTypes, TrailRow
  <2>4. \/ trailRows' = trailRows
        \/ place = "storage" /\ trailRows' = Append(trailRows, record)
        \/ place = "file" /\ trailRows' = Append(books[w], record)
    <3>1. place \in {"storage", "file", "nowhere"}
      BY <1>0, ChainAssumption DEF TrailTypes
    <3>. QED
      BY <1>2, <3>1 DEF AppendRecord
  <2>. HIDE DEF record
  <2>5. place = "nowhere" \/ euthyna[w].unread \/ books[w] = trailRows
    BY <2>1 DEF TrailInv, HoldsTheTrail, LoadsTo
  <2>6. place = "file" => books[w] = trailRows
    BY <2>1, <2>5 DEF TrailInv, HoldsTheTrail
  <2>7. trailRows' = trailRows \/ (place # "nowhere" /\ trailRows' = Append(trailRows, record))
    BY <2>4, <2>6
  <2>8. record.unread \/ place = "nowhere" \/ record.prev = PredecessorIn(trailRows)
    BY <2>3, <2>5
  <2>9. trailRows' \in Trails /\ ForkNeedsAFailedRead'
    <3>1. CASE trailRows' = trailRows
      BY <1>0, <3>1 DEF TrailTypes, TrailInv, ForkNeedsAFailedRead
    <3>2. CASE place # "nowhere" /\ trailRows' = Append(trailRows, record)
      <4>1. trailRows \in Seq(TrailRow)
            /\ \A i \in 2..Len(trailRows) : trailRows[i].prev = trailRows[i - 1].id \/ trailRows[i].unread
        BY <1>0 DEF TrailTypes, TrailInv, ForkNeedsAFailedRead, Trails
      <4>2. record.unread \/ record.prev = PredecessorIn(trailRows)
        BY <2>8, <3>2
      <4>3. /\ Append(trailRows, record) \in Seq(TrailRow)
            /\ \A i \in 2..Len(Append(trailRows, record)) :
                 Append(trailRows, record)[i].prev = Append(trailRows, record)[i - 1].id
                   \/ Append(trailRows, record)[i].unread
        BY <2>3, <4>1, <4>2, AppendingKeeps
      <4>. QED
        BY <3>2, <4>3 DEF ForkNeedsAFailedRead, Trails
    <3>. QED
      BY <2>7, <3>1, <3>2
  <2>10. books' \in [Writers -> Trails]
    <3>1. Append(books[w], record) \in Trails
      BY <1>0, <2>3 DEF TrailTypes, Trails
    <3>. QED
      BY <1>0, <2>1, <3>1 DEF TrailTypes
  <2>11. euthyna' \in [Writers -> [at : {"idle", "append"}, unread : BOOLEAN]] /\ made' \in Nat
    <3>1. euthyna' \in [Writers -> [at : {"idle", "append"}, unread : BOOLEAN]]
      BY <1>0, <2>1 DEF TrailTypes
    <3>2. made' \in Nat
      BY <1>0, <2>1 DEF TrailTypes
    <3>. QED
      BY <3>1, <3>2
  <2>12. HoldsTheTrail'
    <3>1. \A v \in Writers : v # w => euthyna'[v] = euthyna[v]
      BY <1>0, <2>1 DEF TrailTypes
    <3>2. \A v \in Writers : euthyna'[v].at # "append"
      BY <1>0, <2>1, <3>1 DEF TrailTypes, TrailInv, HoldsTheTrail
    <3>. QED
      BY <3>2 DEF HoldsTheTrail
  <2>13. place' = "nowhere" => trailRows' = <<>>
    BY <2>1, <2>7 DEF TrailInv
  <2>. QED
    BY <1>0, <2>1, <2>9, <2>10, <2>11, <2>12, <2>13 DEF TrailInv, TrailTypes
<1>3. ASSUME NEW w \in Writers, VerifyIntegrity(w) PROVE TrailInv'
  <2>1. UNCHANGED <<place, trailRows, euthyna, holder, made>> /\ euthyna[w].at = "idle"
    BY <1>3 DEF VerifyIntegrity
  <2>2. books' \in [Writers -> Trails] /\ \A v \in Writers : v # w => books'[v] = books[v]
    <3>1. PICK loaded \in Trails : books' = books \/ books' = [books EXCEPT ![w] = loaded]
      BY <1>0, <1>3 DEF VerifyIntegrity
    <3>. QED
      BY <1>0, <3>1 DEF TrailTypes
  <2>. QED
    BY <1>0, <2>1, <2>2 DEF TrailInv, TrailTypes, HoldsTheTrail, ForkNeedsAFailedRead, LoadsTo
<1>4. ASSUME NEW w \in Writers, AuditRestart(w) PROVE TrailInv'
  <2>1. UNCHANGED <<place, trailRows, made>> /\ holder' = IF holder = w THEN "free" ELSE holder
    BY <1>4 DEF AuditRestart
  <2>2. /\ books' \in [Writers -> Trails]
        /\ euthyna' \in [Writers -> [at : {"idle", "append"}, unread : BOOLEAN]]
        /\ euthyna'[w].at = "idle"
        /\ \A v \in Writers : v # w => books'[v] = books[v] /\ euthyna'[v] = euthyna[v]
    BY <1>0, <1>4 DEF AuditRestart, TrailTypes
  <2>. QED
    BY <1>0, <2>1, <2>2 DEF TrailInv, TrailTypes, HoldsTheTrail, ForkNeedsAFailedRead, LoadsTo
<1>5. ASSUME UNCHANGED chainStateVars PROVE TrailInv'
  BY <1>0, <1>5 DEF chainStateVars, TrailInv, TrailTypes, HoldsTheTrail, ForkNeedsAFailedRead, LoadsTo
<1>. QED
  BY <1>1, <1>2, <1>3, <1>4, <1>5 DEF ChainNext

(* The trail is one chain of however many records and processes: what does   *)
(* not continue it was recorded after a failed read (record_action).         *)
THEOREM TrailIsOneChain == ChainSpec => []ForkNeedsAFailedRead
<1>1. ChainInit => TrailInv
  <2>1. <<>> \in Trails /\ \A i \in 2..Len(<<>>) : FALSE
    BY DEF Trails
  <2>. QED
    BY <2>1 DEF ChainInit, TrailInv, TrailTypes, HoldsTheTrail, ForkNeedsAFailedRead
<1>2. TrailInv => ForkNeedsAFailedRead
  BY DEF TrailInv
<1>. QED
  BY <1>1, <1>2, TrailStep, PTL DEF ChainSpec

-----------------------------------------------------------------------------
(***************************************************************************)
(* The plan of a buyer: what its last step deposits is what the step       *)
(* before it pays at least, by its own floor or because the NAV does not   *)
(* fall.                                                                   *)
(***************************************************************************)
(* The steps left of a plan that deposits m.                                 *)
DepositOf(m) == [action |-> "deposit", words |-> <<Address("USDC"), m>>]

(* The plan at each of its signatures: what it deposits is a floor of the    *)
(* swap, worth no more than the vault pays, or already paid.                 *)
PlanOf(m, steps) ==
  \/ \E swap : /\ swap.action = "swap" /\ swap.words[2] = m /\ "uniswap_v2" \in DOMAIN Venues
               /\ \/ steps = <<swap, DepositOf(m)>>
                  \/ \E first : first.action = "approve" /\ steps = <<first, swap, DepositOf(m)>>
               /\ purse.gateway = 0 /\ purse.proceeds = 0
  \/ \E redeem : /\ redeem.action = "redeem" /\ steps = <<redeem, DepositOf(m)>>
                 /\ m <= outs["usyc_nav"] /\ "usyc_nav" \in DOMAIN Venues
                 /\ purse.gateway = 0 /\ purse.proceeds = 0
  \/ steps = <<DepositOf(m)>> /\ purse.gateway = 0 /\ m <= purse.proceeds

PlanInv ==
  /\ outs \in [DOMAIN Venues -> Nat]
  /\ purse.gateway \in Nat /\ purse.proceeds \in Nat
  /\ purse = [allowed |-> purse.allowed, gateway |-> purse.gateway, proceeds |-> purse.proceeds]
  /\ asking # Idle =>
       /\ plan = <<>> /\ asking.pair \in Pairs /\ asking.plans \in BOOLEAN
       /\ DOMAIN asking.answers \subseteq DOMAIN Venues
       /\ \A v \in DOMAIN asking.answers :
            /\ asking.answers[v] \in Nat
            /\ asking.plans => v \in Executable
            /\ v = "usyc_nav" => asking.answers[v] <= outs[v]
  /\ IF plan = <<>> THEN DepositIsCovered ELSE \E m \in Nat : PlanOf(m, plan)

(* A plan is its steps and the deposit.                                      *)
LEMMA StepsAndDeposit ==
  ASSUME NEW a, NEW b, NEW c
  PROVE  <<a>> \o <<c>> = <<a, c>> /\ <<a, b>> \o <<c>> = <<a, b, c>>
<1>1. <<a>> \in Seq({a, b, c}) /\ <<a, b>> \in Seq({a, b, c}) /\ c \in {a, b, c}
  OBVIOUS
<1>2. <<a>> \o <<c>> = Append(<<a>>, c) /\ <<a, b>> \o <<c>> = Append(<<a, b>>, c)
  BY <1>1, AppendIsConcat
<1>3. Append(<<a>>, c) = <<a, c>> /\ Append(<<a, b>>, c) = <<a, b, c>>
  <2>1. <<a, c>> \in Seq({a, b, c}) /\ <<a, b, c>> \in Seq({a, b, c})
    OBVIOUS
  <2>2. Append(<<a>>, c) \in Seq({a, b, c}) /\ Append(<<a, b>>, c) \in Seq({a, b, c})
    BY <1>1
  <2>3. Len(Append(<<a>>, c)) = 2 /\ Append(<<a>>, c)[1] = a /\ Append(<<a>>, c)[2] = c
    BY <1>1
  <2>4. Len(Append(<<a, b>>, c)) = 3 /\ Append(<<a, b>>, c)[1] = a
        /\ Append(<<a, b>>, c)[2] = b /\ Append(<<a, b>>, c)[3] = c
    BY <1>1
  <2>5. Len(<<a, c>>) = 2 /\ \A i \in 1..2 : <<a, c>>[i] = Append(<<a>>, c)[i]
    BY <2>3
  <2>6. Len(<<a, b, c>>) = 3 /\ \A i \in 1..3 : <<a, b, c>>[i] = Append(<<a, b>>, c)[i]
    BY <2>4
  <2>7. Append(<<a>>, c) = <<a, c>>
    BY <2>1, <2>2, <2>3, <2>5, SeqEqual
  <2>8. Append(<<a, b>>, c) = <<a, b, c>>
    BY <2>1, <2>2, <2>4, <2>6, SeqEqual
  <2>. QED
    BY ONLY <2>7, <2>8
<1>. QED
  BY ONLY <1>2, <1>3

(* What is kept for slippage makes a floor.                                  *)
LEMMA FloorIs ==
  ASSUME NEW out \in Nat
  PROVE  MinOut(out) \in Nat /\ MinOut(out) <= out
  BY RouteAssumption DEF MinOut

(* A plan that is handed out begins as it should.                            *)
LEMMA PlanBegins ==
  ASSUME PlanInv, asking # Idle, asking.plans, NEW v \in BestVenues,
         plan' = StepsOf(QuoteOf(v)), purse' = [purse EXCEPT !.proceeds = 0, !.gateway = 0], outs' = outs
  PROVE  \E m \in Nat : PlanOf(m, plan)'
<1>1. /\ v \in DOMAIN asking.answers /\ asking.answers[v] \in Nat /\ v \in Executable
      /\ v = "usyc_nav" => asking.answers[v] <= outs[v]
  BY DEF BestVenues, Available, PlanInv
<1>. DEFINE m == MinOut(asking.answers[v])
<1>2. m \in Nat /\ m <= asking.answers[v]
  BY <1>1, FloorIs
<1>3. purse'.gateway = 0 /\ purse'.proceeds = 0
  BY DEF PlanInv
<1>4. QuoteOf(v).min = m /\ QuoteOf(v).venue = v
  BY DEF QuoteOf
<1>. HIDE DEF m
<1>5. CASE v = "uniswap_v2"
  <2>. DEFINE swap == [action |-> "swap", words |-> SwapWords(QuoteOf(v))]
              first == [action |-> "approve", words |-> <<>>]
  <2>1. swap.action = "swap" /\ swap.words[2] = m /\ first.action = "approve" /\ "uniswap_v2" \in DOMAIN Venues
    BY <1>1, <1>4, <1>5, RouteAssumption DEF SwapWords
  <2>2. plan' = <<first, swap>> \o <<DepositOf(m)>>
    BY <1>4, <1>5 DEF StepsOf, Swapping, DepositOf
  <2>. HIDE DEF swap, first
  <2>3. plan' = <<first, swap, DepositOf(m)>>
    BY ONLY <2>2, StepsAndDeposit
  <2>. QED
    BY <1>2, <1>3, <2>1, <2>3 DEF PlanOf
<1>6. CASE v # "uniswap_v2"
  <2>1. v = "usyc_nav" /\ v \in DOMAIN Venues
    BY <1>1, <1>6, RouteAssumption
  <2>. DEFINE redeem == [action |-> "redeem", words |-> RedeemWords(QuoteOf(v))]
  <2>2. redeem.action = "redeem"
    OBVIOUS
  <2>3. plan' = <<redeem>> \o <<DepositOf(m)>>
    BY <1>4, <1>6 DEF StepsOf, Swapping, DepositOf
  <2>. HIDE DEF redeem
  <2>4. plan' = <<redeem, DepositOf(m)>>
    BY ONLY <2>3, StepsAndDeposit
  <2>5. m <= outs'["usyc_nav"]
    BY <1>1, <1>2, <2>1 DEF PlanInv
  <2>. QED
    BY <1>2, <1>3, <2>1, <2>2, <2>4, <2>5 DEF PlanOf
<1>. QED
  BY <1>5, <1>6

(* Signing a step leaves a plan that is one still, or what it deposited is   *)
(* covered.                                                                  *)
LEMMA SigningKeeps ==
  ASSUME PlanInv, SignStep
  PROVE  PlanInv'
<1>1. PICK m \in Nat : PlanOf(m, plan)
  BY DEF SignStep, PlanInv
<1>2. UNCHANGED <<outs, anchor, asking, quotes, clock>> /\ plan # <<>>
  BY DEF SignStep
<1>3. asking = Idle
  BY <1>2 DEF PlanInv
<1>4. ASSUME NEW swap, swap.action = "swap", swap.words[2] = m, "uniswap_v2" \in DOMAIN Venues,
             plan = <<swap, DepositOf(m)>>, purse.gateway = 0, purse.proceeds = 0
      PROVE  PlanInv'
  <2>1. Head(plan) = swap /\ Tail(plan) = <<DepositOf(m)>>
    BY <1>4
  <2>2. plan' = (IF Pays(swap) = 0 THEN <<>> ELSE Tail(plan)) /\ purse' = [purse EXCEPT !.proceeds = Pays(swap)]
    BY <1>4, <2>1 DEF SignStep
  <2>3. Pays(swap) = 0 \/ (Pays(swap) \in Nat /\ Pays(swap) >= m)
    <3>1. CASE Decodes(swap.words) /\ outs["uniswap_v2"] > 0 /\ outs["uniswap_v2"] >= swap.words[2]
      <4>1. Pays(swap) = outs["uniswap_v2"]
        BY <1>4, <3>1 DEF Pays, SwapPays
      <4>. QED
        BY <1>4, <3>1, <4>1 DEF PlanInv
    <3>2. CASE ~(Decodes(swap.words) /\ outs["uniswap_v2"] > 0 /\ outs["uniswap_v2"] >= swap.words[2])
      BY <1>4, <3>2 DEF Pays, SwapPays
    <3>. QED
      BY <3>1, <3>2
  <2>. QED
    BY <1>2, <1>3, <1>4, <2>1, <2>2, <2>3 DEF PlanInv, PlanOf, DepositIsCovered
<1>5. ASSUME NEW swap, swap.action = "swap", swap.words[2] = m, "uniswap_v2" \in DOMAIN Venues,
             NEW first, first.action = "approve", plan = <<first, swap, DepositOf(m)>>,
             purse.gateway = 0, purse.proceeds = 0
      PROVE  PlanInv'
  <2>1. Head(plan) = first /\ Tail(plan) = <<swap, DepositOf(m)>>
    BY <1>5
  <2>2. plan' = <<swap, DepositOf(m)>> /\ purse' = purse
    BY <1>5, <2>1 DEF SignStep
  <2>3. PlanOf(m, plan)' /\ plan' # <<>>
    BY <1>5, <2>2 DEF PlanOf
  <2>. QED
    BY <1>2, <1>3, <2>2, <2>3 DEF PlanInv
<1>6. ASSUME NEW redeem, redeem.action = "redeem", plan = <<redeem, DepositOf(m)>>, m <= outs["usyc_nav"],
             "usyc_nav" \in DOMAIN Venues, purse.gateway = 0, purse.proceeds = 0
      PROVE  PlanInv'
  <2>1. Head(plan) = redeem /\ Tail(plan) = <<DepositOf(m)>>
    BY <1>6
  <2>2. plan' = (IF outs["usyc_nav"] = 0 THEN <<>> ELSE <<DepositOf(m)>>)
        /\ purse' = [purse EXCEPT !.proceeds = outs["usyc_nav"]]
    BY <1>6, <2>1 DEF SignStep, Pays
  <2>3. outs["usyc_nav"] \in Nat
    BY <1>6 DEF PlanInv
  <2>. QED
    BY <1>2, <1>3, <1>6, <2>2, <2>3 DEF PlanInv, PlanOf, DepositIsCovered
<1>7. ASSUME plan = <<DepositOf(m)>>, purse.gateway = 0, m <= purse.proceeds
      PROVE  PlanInv'
  <2>1. Head(plan) = DepositOf(m) /\ DepositOf(m).action = "deposit" /\ DepositOf(m).words[2] = m
    BY <1>7 DEF DepositOf
  <2>2. plan' = <<>> /\ (purse' = purse \/ purse' = [purse EXCEPT !.gateway = m, !.allowed = @ - m])
    BY <2>1 DEF SignStep
  <2>3. CASE purse' = purse
    BY <1>2, <1>3, <2>2, <2>3, <1>7 DEF PlanInv, DepositIsCovered
  <2>4. CASE purse' = [purse EXCEPT !.gateway = m, !.allowed = @ - m]
    <3>1. purse'.gateway = m /\ purse'.proceeds = purse.proceeds /\ purse.proceeds \in Nat
          /\ purse' = [allowed |-> purse'.allowed, gateway |-> purse'.gateway, proceeds |-> purse'.proceeds]
      BY <2>4 DEF PlanInv
    <3>2. DepositIsCovered'
      BY <1>7, <3>1 DEF DepositIsCovered
    <3>. QED
      BY <1>2, <1>3, <2>2, <3>1, <3>2 DEF PlanInv
  <2>. QED
    BY <2>2, <2>3, <2>4
<1>. QED
  BY <1>1, <1>4, <1>5, <1>6, <1>7 DEF PlanOf

(* Every step keeps the invariant.                                           *)
LEMMA PlanStep == PlanInv /\ [RouteNext]_routeVars => PlanInv'
<1>. SUFFICES ASSUME PlanInv, [RouteNext]_routeVars PROVE PlanInv'
  OBVIOUS
<1>1. ASSUME NEW pair \in Pairs, NEW plans \in BOOLEAN, AskVenues(pair, plans) PROVE PlanInv'
  <2>1. UNCHANGED <<outs, anchor, quotes, plan, purse, clock>> /\ plan = <<>>
    BY <1>1 DEF AskVenues
  <2>2. PICK lost \in SUBSET DOMAIN Venues :
          asking' = [pair |-> pair, plans |-> plans,
                     answers |-> [v \in {w \in DOMAIN Venues: pair \in Venues[w] /\ (plans => w \in Executable)} |->
                                    IF v \in lost THEN 0 ELSE outs[v]]]
    BY <1>1 DEF AskVenues
  <2>3. /\ asking'.pair \in Pairs /\ asking'.plans \in BOOLEAN
        /\ DOMAIN asking'.answers \subseteq DOMAIN Venues
        /\ \A v \in DOMAIN asking'.answers :
             /\ asking'.answers[v] \in Nat
             /\ asking'.plans => v \in Executable
             /\ asking'.answers[v] <= outs[v]
    BY <2>2 DEF PlanInv
  <2>. QED
    BY <2>1, <2>3 DEF PlanInv, DepositIsCovered
<1>2. ASSUME AnswerQuote PROVE PlanInv'
  <2>1. asking # Idle /\ asking' = Idle /\ UNCHANGED <<outs, anchor, clock>> /\ plan = <<>> /\ DepositIsCovered
    BY <1>2 DEF AnswerQuote, PlanInv
  <2>2. CASE UNCHANGED <<plan, purse>>
    BY <2>1, <2>2 DEF PlanInv, DepositIsCovered
  <2>3. ASSUME NEW v \in BestVenues, asking.plans, plan' = StepsOf(QuoteOf(v)),
               purse' = [purse EXCEPT !.proceeds = 0, !.gateway = 0]
        PROVE  PlanInv'
    <3>1. \E m \in Nat : PlanOf(m, plan)'
      BY <2>1, <2>3, PlanBegins
    <3>2. plan' # <<>>
      <4>1. PICK m \in Nat : PlanOf(m, plan)'
        BY <3>1
      <4>2. \A a, b, c : <<a>> # <<>> /\ <<a, b>> # <<>> /\ <<a, b, c>> # <<>>
        OBVIOUS
      <4>. QED
        BY <4>1, <4>2, Zenon DEF PlanOf
    <3>3. purse'.gateway = 0 /\ purse'.proceeds = 0
          /\ purse' = [allowed |-> purse'.allowed, gateway |-> purse'.gateway, proceeds |-> purse'.proceeds]
      BY <2>3 DEF PlanInv
    <3>. QED
      BY <2>1, <3>1, <3>2, <3>3 DEF PlanInv
  <2>. QED
    BY <1>2, <2>2, <2>3 DEF AnswerQuote
<1>3. CASE SignStep
  BY <1>3, SigningKeeps
<1>4. ASSUME AbandonPlan PROVE PlanInv'
  <2>1. plan' = <<>> /\ UNCHANGED <<outs, anchor, asking, quotes, purse, clock>> /\ plan # <<>> /\ asking = Idle
    BY <1>4 DEF AbandonPlan, PlanInv
  <2>2. DepositIsCovered
    BY <2>1 DEF PlanInv, PlanOf, DepositIsCovered
  <2>. QED
    BY <2>1, <2>2 DEF PlanInv, DepositIsCovered
<1>5. ASSUME NEW v \in DOMAIN Venues, VenueMoves(v) PROVE PlanInv'
  <2>1. /\ UNCHANGED <<anchor, asking, quotes, plan, purse, clock>>
        /\ outs' \in [DOMAIN Venues -> Nat]
        /\ \A w \in DOMAIN Venues : w = "usyc_nav" => outs'[w] >= outs[w]
    <3>1. PICK o \in 0..MaxOut + 1 : outs' = [outs EXCEPT ![v] = o]
      BY <1>5 DEF VenueMoves
    <3>2. \A w \in DOMAIN Venues : w # v => outs'[w] = outs[w]
      BY <3>1 DEF PlanInv
    <3>3. \A w \in DOMAIN Venues : outs[w] \in Nat
      BY DEF PlanInv
    <3>. QED
      BY <1>5, <3>1, <3>2, <3>3, RouteAssumption DEF VenueMoves, PlanInv
  <2>2. \A w \in DOMAIN Venues : outs[w] \in Nat /\ outs'[w] \in Nat
    BY <2>1 DEF PlanInv
  <2>3. ASSUME NEW m \in Nat, PlanOf(m, plan) PROVE PlanOf(m, plan)'
    BY <2>1, <2>2, <2>3 DEF PlanOf
  <2>. QED
    BY <2>1, <2>2, <2>3 DEF PlanInv, DepositIsCovered
<1>6. ASSUME \/ AnchorMoves \/ RouteTick \/ RouteRestart \/ UNCHANGED routeVars
             \/ \E q \in quotes : ConsumeQuote(q)
      PROVE  PlanInv'
  <2>1. UNCHANGED <<outs, plan, purse>> /\ asking' \in {asking, Idle}
    BY <1>6 DEF AnchorMoves, RouteTick, RouteRestart, routeVars, ConsumeQuote
  <2>2. \A m \in Nat : PlanOf(m, plan) => PlanOf(m, plan)'
    BY <2>1 DEF PlanOf
  <2>. QED
    BY <2>1, <2>2 DEF PlanInv, DepositIsCovered
<1>. QED
  BY <1>1, <1>2, <1>3, <1>4, <1>5, <1>6 DEF RouteNext

(* However prices move between the quote and the signatures, the deposit of  *)
(* a plan never takes more than its swap paid (build_fund_gateway_plan).     *)
THEOREM DepositCovered == RouteSpec => []DepositIsCovered
<1>1. RouteInit => PlanInv
  BY RouteAssumption DEF RouteInit, PlanInv, DepositIsCovered
<1>2. PlanInv => DepositIsCovered
  BY DEF PlanInv, PlanOf, DepositIsCovered
<1>. QED
  BY <1>1, <1>2, PlanStep, PTL DEF RouteSpec

-----------------------------------------------------------------------------
(***************************************************************************)
(* The emergency halt: what its two stores say while the update that       *)
(* halts, or the only update under way, goes through its steps.            *)
(***************************************************************************)
HaltPlaces == {"idle", "compare", "write", "sync", "save", "over"}

(* What the stores, the requests and the notes on them are.                  *)
HaltTypes ==
  /\ flag \in BOOLEAN /\ policy \in BOOLEAN /\ incident \in BOOLEAN
  /\ stands \in BOOLEAN /\ overlap \in BOOLEAN /\ moved \in BOOLEAN
  /\ request \in [Requests -> HaltPlaces]
  /\ syncing \subseteq Requests /\ gated \subseteq Requests /\ alone \subseteq Requests
  /\ ungated \subseteq Requests /\ faults \in Nat
  /\ mover \in {"idle", "unflagged", "cleared"} /\ sure \in BOOLEAN

(* Who holds _syncing_halt is in the middle of set_emergency_halt.           *)
HolderSyncs == \A r \in syncing : request[r] \in {"compare", "write", "sync"}

(* With one call of the storage failing, one of the two stores is halted.    *)
OneStoreHalts == (faults = 0 => flag) /\ (faults = 1 => flag \/ policy)

(* A halt that runs alone has halted a store before it answers, and the      *)
(* stores stay as they are while it stands: a movement that began to look    *)
(* after that gets past the flag after one failure, past both after two.     *)
HaltAlone ==
  /\ \A r \in alone : UnderWay \subseteq {r}
  /\ \A r \in alone \cap Halting :
       /\ request[r] = "sync" => flag \/ faults >= 1
       /\ request[r] = "save" => OneStoreHalts
  /\ stands => UnderWay = {} /\ OneStoreHalts
  /\ sure => stands
  /\ sure /\ mover = "unflagged" => ~flag
  /\ sure /\ mover = "cleared" => faults > 1
  /\ faults <= 1 => ~moved

(* The incident has been open since a gated request came in, which goes past *)
(* the gate only if it halts.                                                *)
GateHolds ==
  /\ gated # {} => incident
  /\ faults = 0 => \A r \in gated \ Acknowledging :
                     request[r] \in {"write", "sync"} => r \in Halting

(* Without failures and with one update at a time the stores agree.          *)
StoresAgree ==
  faults = 0 /\ ~overlap =>
    /\ \A q, r \in UnderWay : q = r
    /\ UnderWay = {} => flag = policy
    /\ \A r \in Requests :
         /\ request[r] \in {"compare", "write"} => flag = policy
         /\ request[r] = "sync" => flag = Halts(r)
         /\ request[r] = "save" => flag = Halts(r) /\ policy = Halts(r)
    /\ ungated = {}

HaltInv == HaltTypes /\ HolderSyncs /\ HaltAlone /\ GateHolds /\ StoresAgree

(* The only request under way, in the states that the notes are about.       *)
LEMMA OnlyOne ==
  ASSUME HaltInv, NEW r \in Requests, request[r] \notin {"idle", "over"}
  PROVE  /\ r \in UnderWay /\ ~stands /\ ~sure
         /\ \A q \in alone : q = r
         /\ faults = 0 /\ ~overlap => UnderWay = {r}
BY DEF UnderWay, HaltInv, HaltAlone, StoresAgree

(* A step of a request moves that request only.                              *)
LEMMA RequestMoves ==
  ASSUME HaltInv, NEW r \in Requests, NEW next \in HaltPlaces, HaltGoes(r, next)
  PROVE  /\ request' \in [Requests -> HaltPlaces] /\ request'[r] = next
         /\ \A q \in Requests : q # r => request'[q] = request[q]
         /\ UnderWay' \subseteq UnderWay \cup {r}
         /\ next \in {"idle", "over"} => UnderWay' = UnderWay \ {r}
         /\ next \notin {"idle", "over"} => UnderWay' = UnderWay \cup {r}
BY DEF HaltInv, HaltTypes, HaltGoes, UnderWay

(* What a step does to the count of failures.                                *)
LEMMA FaultsCount ==
  ASSUME HaltInv
  PROVE  /\ faults \in Nat
         /\ Works => faults' = faults
         /\ Breaks => faults' = faults + 1 /\ faults' \in Nat /\ faults' # 0
BY DEF HaltInv, HaltTypes, Works, Breaks

(* SetPolicy keeps the invariant.                                            *)
LEMMA SetPolicyKeeps ==
  ASSUME HaltInv, NEW r \in Requests, SetPolicy(r)
  PROVE  HaltInv'
<1>1. PICK next \in {"compare", "save"} :
        /\ HaltGoes(r, next) /\ request[r] = "idle"
        /\ next = "compare" => syncing = {} /\ syncing' = {r}
        /\ next = "save" => syncing # {} /\ syncing' = syncing
  BY DEF SetPolicy
<1>2. /\ request' \in [Requests -> HaltPlaces] /\ request'[r] = next
      /\ \A q \in Requests : q # r => request'[q] = request[q]
      /\ UnderWay' = UnderWay \cup {r}
  BY <1>1, RequestMoves DEF HaltPlaces
<1>3. /\ gated' = (IF incident THEN gated \cup {r} ELSE gated)
      /\ alone' = (IF UnderWay = {} THEN {r} ELSE {})
      /\ overlap' = (overlap \/ UnderWay # {}) /\ stands' = FALSE /\ sure' = FALSE
      /\ UNCHANGED <<flag, policy, incident, faults, mover, moved, ungated>>
  BY DEF SetPolicy, haltStores
<1>4. HaltTypes'
  BY <1>1, <1>2, <1>3 DEF HaltInv, HaltTypes
<1>5. HolderSyncs'
  BY <1>1, <1>2, <1>3 DEF HaltInv, HaltTypes, HolderSyncs
<1>6. syncing # {} => UnderWay # {}
  BY DEF HaltInv, HaltTypes, HolderSyncs, UnderWay
<1>7. HaltAlone'
  BY <1>1, <1>2, <1>3, <1>6 DEF HaltInv, HaltAlone
<1>8. GateHolds'
  BY <1>1, <1>2, <1>3 DEF HaltInv, HaltTypes, GateHolds
<1>9. StoresAgree'
  <2>1. ASSUME faults = 0, ~overlap' PROVE UnderWay = {} /\ ~overlap /\ next = "compare"
    BY <1>1, <1>3, <1>6, <2>1
  <2>2. UnderWay = {} => \A q \in Requests : request[q] \in {"idle", "over"}
    BY DEF UnderWay
  <2>. QED
    BY <1>2, <1>3, <2>1, <2>2 DEF HaltInv, StoresAgree, UnderWay
<1>. QED
  BY <1>4, <1>5, <1>7, <1>8, <1>9 DEF HaltInv

(* CompareFlag keeps the invariant.                                          *)
LEMMA CompareFlagKeeps ==
  ASSUME HaltInv, NEW r \in Requests, CompareFlag(r)
  PROVE  HaltInv'
<1>1. /\ request[r] = "compare" /\ faults \in Nat /\ faults' \in Nat
      /\ UNCHANGED <<flag, policy, incident, gated, alone, overlap, stands, mover, sure, moved, ungated>>
  BY FaultsCount DEF CompareFlag, haltStores, haltNotes, movement
<1>2. PICK next \in {"save", "over", "write"} :
        /\ HaltGoes(r, next)
        /\ next \in {"save", "over"} => syncing' = {}
        /\ next = "write" => syncing' = syncing
        /\ faults' = faults \/ faults' = faults + 1
        /\ next = "save" => faults' = faults /\ flag = Halts(r)
        /\ next = "write" /\ faults' = faults => ~RefusedLift(r)
  <2>1. CASE Works /\ ~Disagrees(r) /\ HaltGoes(r, "save") /\ syncing' = {}
    BY <2>1, FaultsCount DEF Disagrees, Halts, HaltInv, HaltTypes
  <2>2. CASE HaltGoes(r, "over") /\ syncing' = {} /\ (Works \/ Breaks)
    BY <2>2, FaultsCount
  <2>3. CASE Works /\ ~RefusedLift(r) /\ HaltGoes(r, "write") /\ syncing' = syncing
    BY <2>3, FaultsCount
  <2>4. CASE Breaks /\ HaltGoes(r, "write") /\ syncing' = syncing
    <3>1. faults' = faults + 1 /\ faults' # faults
      BY <2>4, FaultsCount
    <3>. QED
      BY <2>4, <3>1
  <2>. QED
    BY <2>1, <2>2, <2>3, <2>4 DEF CompareFlag
<1>3. /\ request' \in [Requests -> HaltPlaces] /\ request'[r] = next
      /\ \A q \in Requests : q # r => request'[q] = request[q]
      /\ next = "over" => UnderWay' = UnderWay \ {r}
      /\ next # "over" => UnderWay' = UnderWay \cup {r}
  BY <1>2, RequestMoves DEF HaltPlaces
<1>4. /\ r \in UnderWay /\ ~stands /\ ~sure /\ \A q \in alone : q = r
      /\ faults = 0 /\ ~overlap => UnderWay = {r}
  BY <1>1, OnlyOne
<1>5. HaltTypes'
  BY <1>1, <1>2, <1>3 DEF HaltInv, HaltTypes
<1>6. HolderSyncs'
  BY <1>1, <1>2, <1>3 DEF HaltInv, HaltTypes, HolderSyncs
<1>7. HaltAlone'
  BY <1>1, <1>2, <1>3, <1>4 DEF HaltInv, HaltTypes, HaltAlone, OneStoreHalts, Halts
<1>8. GateHolds'
  BY <1>1, <1>2, <1>3 DEF HaltInv, GateHolds, RefusedLift, Halts, HaltTypes
<1>9. StoresAgree'
  BY <1>1, <1>2, <1>3, <1>4 DEF HaltInv, StoresAgree, UnderWay
<1>. QED
  BY <1>5, <1>6, <1>7, <1>8, <1>9 DEF HaltInv

(* Without failures nobody lifts a halt past the gate on the way to the      *)
(* stores.                                                                   *)
LEMMA NotJudged ==
  ASSUME HaltInv, NEW r \in Requests, faults = 0, ~overlap, Judges(r),
         \/ request[r] \in {"write", "sync"} /\ (r \in Halting => flag' \/ policy')
         \/ request[r] = "save" /\ flag' = flag /\ policy' = policy
         \/ r \in Halting /\ (flag' \/ policy')
  PROVE  ungated' = ungated
<1>1. request[r] \in {"write", "sync"} /\ r \in gated \ Acknowledging => r \in Halting
  BY DEF HaltInv, GateHolds
<1>. QED
  BY <1>1 DEF Judges

(* WriteFlag keeps the invariant.                                            *)
LEMMA WriteFlagKeeps ==
  ASSUME HaltInv, NEW r \in Requests, WriteFlag(r)
  PROVE  HaltInv'
<1>1. /\ request[r] = "write" /\ HaltGoes(r, "sync") /\ Judges(r)
      /\ faults \in Nat /\ faults' \in Nat /\ flag' \in BOOLEAN
      /\ \/ faults' = faults /\ flag' = Halts(r)
         \/ faults' = faults + 1 /\ faults' # 0 /\ flag' = flag
      /\ UNCHANGED <<policy, syncing, incident, gated, alone, overlap, stands, mover, sure, moved>>
  <2>1. flag \in BOOLEAN /\ Halts(r) \in BOOLEAN
    BY DEF Halts, HaltInv, HaltTypes
  <2>2. CASE Works
    BY <2>1, <2>2, FaultsCount DEF WriteFlag, haltNotes, movement, Breaks
  <2>3. CASE Breaks
    BY <2>1, <2>3, FaultsCount DEF WriteFlag, haltNotes, movement, Works
  <2>. QED
    BY <2>2, <2>3 DEF WriteFlag
<1>2. /\ request' \in [Requests -> HaltPlaces] /\ request'[r] = "sync"
      /\ \A q \in Requests : q # r => request'[q] = request[q]
      /\ UnderWay' = UnderWay \cup {r}
  BY <1>1, RequestMoves DEF HaltPlaces
<1>3. /\ r \in UnderWay /\ ~stands /\ ~sure /\ \A q \in alone : q = r
      /\ faults = 0 /\ ~overlap => UnderWay = {r}
  BY <1>1, OnlyOne
<1>4. HaltTypes'
  BY <1>1, <1>2 DEF HaltInv, HaltTypes, Judges
<1>5. HolderSyncs'
  BY <1>1, <1>2 DEF HaltInv, HaltTypes, HolderSyncs
<1>6. HaltAlone'
  BY <1>1, <1>2, <1>3 DEF HaltInv, HaltTypes, HaltAlone, OneStoreHalts, Halts
<1>7. GateHolds'
  BY <1>1, <1>2 DEF HaltInv, HaltTypes, GateHolds
<1>8. StoresAgree'
  <2>1. ASSUME faults' = 0, ~overlap' PROVE ungated' = ungated
    BY <1>1, <2>1, NotJudged DEF Halts
  <2>. QED
    BY <1>1, <1>2, <1>3, <2>1 DEF HaltInv, StoresAgree, UnderWay
<1>. QED
  BY <1>4, <1>5, <1>6, <1>7, <1>8 DEF HaltInv

(* SyncPolicy keeps the invariant.                                           *)
LEMMA SyncPolicyKeeps ==
  ASSUME HaltInv, NEW r \in Requests, SyncPolicy(r)
  PROVE  HaltInv'
<1>1. /\ request[r] = "sync" /\ HaltGoes(r, "save") /\ Judges(r) /\ syncing' = {}
      /\ faults \in Nat /\ faults' \in Nat /\ policy' \in BOOLEAN
      /\ \/ faults' = faults /\ policy' = Halts(r)
         \/ faults' = faults + 1 /\ faults' # 0
      /\ UNCHANGED <<flag, incident, gated, alone, overlap, stands, mover, sure, moved>>
  <2>1. policy \in BOOLEAN /\ Halts(r) \in BOOLEAN
    BY DEF Halts, HaltInv, HaltTypes
  <2>2. CASE Works
    BY <2>1, <2>2, FaultsCount DEF SyncPolicy, haltNotes, movement, Breaks
  <2>3. CASE Breaks
    BY <2>1, <2>3, FaultsCount DEF SyncPolicy, haltNotes, movement, Works
  <2>. QED
    BY <2>2, <2>3 DEF SyncPolicy
<1>2. /\ request' \in [Requests -> HaltPlaces] /\ request'[r] = "save"
      /\ \A q \in Requests : q # r => request'[q] = request[q]
      /\ UnderWay' = UnderWay \cup {r}
  BY <1>1, RequestMoves DEF HaltPlaces
<1>3. /\ r \in UnderWay /\ ~stands /\ ~sure /\ \A q \in alone : q = r
      /\ faults = 0 /\ ~overlap => UnderWay = {r}
  BY <1>1, OnlyOne
<1>4. HaltTypes'
  BY <1>1, <1>2 DEF HaltInv, HaltTypes, Judges
<1>5. HolderSyncs'
  BY <1>1 DEF HolderSyncs
<1>6. HaltAlone'
  BY <1>1, <1>2, <1>3 DEF HaltInv, HaltTypes, HaltAlone, OneStoreHalts, Halts
<1>7. GateHolds'
  BY <1>1, <1>2 DEF HaltInv, HaltTypes, GateHolds
<1>8. StoresAgree'
  <2>1. ASSUME faults' = 0, ~overlap' PROVE ungated' = ungated
    BY <1>1, <2>1, NotJudged DEF Halts
  <2>. QED
    BY <1>1, <1>2, <1>3, <2>1 DEF HaltInv, StoresAgree, UnderWay
<1>. QED
  BY <1>4, <1>5, <1>6, <1>7, <1>8 DEF HaltInv

(* SavePolicy keeps the invariant.                                           *)
LEMMA SavePolicyKeeps ==
  ASSUME HaltInv, NEW r \in Requests, SavePolicy(r)
  PROVE  HaltInv'
<1>1. /\ request[r] = "save" /\ HaltGoes(r, "over") /\ Judges(r)
      /\ faults \in Nat /\ faults' \in Nat /\ policy' \in BOOLEAN
      /\ \/ faults' = faults /\ policy' = Halts(r)
         \/ faults' = faults + 1 /\ faults' # 0 /\ policy' = policy
      /\ stands' = (Halts(r) /\ alone = {r})
      /\ UNCHANGED <<flag, syncing, incident, gated, alone, overlap, mover, sure, moved>>
  <2>1. policy \in BOOLEAN /\ Halts(r) \in BOOLEAN
    BY DEF Halts, HaltInv, HaltTypes
  <2>2. CASE Works
    BY <2>1, <2>2, FaultsCount DEF SavePolicy, haltNotes, movement, Breaks
  <2>3. CASE Breaks
    BY <2>1, <2>3, FaultsCount DEF SavePolicy, haltNotes, movement, Works
  <2>. QED
    BY <2>2, <2>3 DEF SavePolicy
<1>2. /\ request' \in [Requests -> HaltPlaces] /\ request'[r] = "over"
      /\ \A q \in Requests : q # r => request'[q] = request[q]
      /\ UnderWay' = UnderWay \ {r}
  BY <1>1, RequestMoves DEF HaltPlaces
<1>3. /\ r \in UnderWay /\ ~stands /\ ~sure /\ \A q \in alone : q = r
      /\ faults = 0 /\ ~overlap => UnderWay = {r}
  BY <1>1, OnlyOne
<1>4. HaltTypes'
  BY <1>1, <1>2 DEF HaltInv, HaltTypes, Judges, Halts
<1>5. HolderSyncs'
  BY <1>1, <1>2 DEF HaltInv, HaltTypes, HolderSyncs
<1>6. HaltAlone'
  <2>1. ASSUME stands' PROVE UnderWay' = {} /\ OneStoreHalts'
    <3>1. r \in alone \cap Halting /\ UnderWay \subseteq {r} /\ OneStoreHalts
      BY <1>1, <2>1 DEF HaltInv, HaltAlone, Halts
    <3>. QED
      BY <1>1, <1>2, <3>1 DEF OneStoreHalts, Halts
  <2>. QED
    BY <1>1, <1>2, <1>3, <2>1 DEF HaltInv, HaltTypes, HaltAlone
<1>7. GateHolds'
  BY <1>1, <1>2 DEF HaltInv, HaltTypes, GateHolds
<1>8. StoresAgree'
  <2>1. ASSUME faults' = 0, ~overlap'
        PROVE  ungated' = ungated /\ policy' = policy /\ flag = policy
    <3>1. faults = 0 /\ flag = Halts(r) /\ policy = Halts(r) /\ policy' = Halts(r)
      BY <1>1, <2>1 DEF HaltInv, StoresAgree
    <3>. QED
      BY <1>1, <2>1, <3>1, NotJudged
  <2>. QED
    BY <1>1, <1>2, <1>3, <2>1 DEF HaltInv, StoresAgree, UnderWay
<1>. QED
  BY <1>4, <1>5, <1>6, <1>7, <1>8 DEF HaltInv

(* A movement that looks at the flag, at the policy, and then moves or gives *)
(* up: it gets past a halted store only if two calls of the storage fail.    *)
LEMMA MovingKeeps ==
  ASSUME HaltInv, CheckFlag \/ CheckPolicy \/ MoveMoney \/ GiveUp
  PROVE  HaltInv'
<1>1. /\ UNCHANGED <<flag, policy, syncing, incident, request, gated, alone, overlap, stands, ungated>>
      /\ faults \in Nat /\ faults' \in Nat /\ moved \in BOOLEAN /\ sure \in BOOLEAN /\ stands \in BOOLEAN
      /\ faults' = faults \/ (faults' = faults + 1 /\ faults' # 0)
  BY FaultsCount
     DEF CheckFlag, CheckPolicy, PolicyLets, MoveMoney, GiveUp, haltStores, haltNotes, HaltInv, HaltTypes
<1>2. UnderWay' = UnderWay
  BY <1>1 DEF UnderWay
<1>3. OneStoreHalts => OneStoreHalts'
  BY <1>1 DEF OneStoreHalts
<1>4. /\ mover' \in {"idle", "unflagged", "cleared"} /\ sure' \in BOOLEAN /\ moved' \in BOOLEAN
      /\ sure' => stands
      /\ sure' /\ mover' = "unflagged" => ~flag
      /\ sure' /\ mover' = "cleared" => faults' > 1
      /\ faults' <= 1 => ~moved'
  <2>0. /\ sure => stands
        /\ sure /\ mover = "unflagged" => ~flag
        /\ sure /\ mover = "cleared" => faults > 1
        /\ faults <= 1 => ~moved
        /\ stands => OneStoreHalts
    BY DEF HaltInv, HaltAlone
  <2>1. CASE CheckFlag
    <3>1. /\ mover' = "unflagged" /\ sure' = stands /\ moved' = moved /\ ~flag /\ faults' = faults
      BY <2>1, FaultsCount DEF CheckFlag
    <3>. QED
      BY <1>1, <2>0, <3>1
  <2>2. CASE CheckPolicy
    <3>1. /\ mover = "unflagged" /\ mover' = "cleared" /\ sure' = sure /\ moved' = moved
          /\ (faults' = faults /\ ~policy) \/ faults' = faults + 1
      BY <2>2, FaultsCount DEF CheckPolicy, PolicyLets
    <3>2. sure => faults' > 1
      BY <1>1, <2>0, <3>1 DEF OneStoreHalts
    <3>3. faults' <= 1 => faults <= 1
      BY <1>1
    <3>. QED
      BY <1>1, <2>0, <3>1, <3>2, <3>3
  <2>3. CASE MoveMoney
    <3>1. /\ mover = "cleared" /\ mover' = "idle" /\ ~sure' /\ moved' = (moved \/ sure)
          /\ faults' = faults /\ sure' \in BOOLEAN
      BY <2>3, <1>1 DEF MoveMoney
    <3>2. faults <= 1 => ~sure
      BY <1>1, <2>0, <3>1
    <3>. QED
      BY <1>1, <2>0, <3>1, <3>2
  <2>4. CASE GiveUp
    <3>1. mover' = "idle" /\ ~sure' /\ moved' = moved /\ faults' = faults /\ sure' \in BOOLEAN
      BY <2>4 DEF GiveUp
    <3>. QED
      BY <1>1, <2>0, <3>1
  <2>. QED
    BY <2>1, <2>2, <2>3, <2>4
<1>5. HaltTypes' /\ HolderSyncs' /\ GateHolds'
  BY <1>1, <1>4 DEF HaltInv, HaltTypes, HolderSyncs, GateHolds
<1>6. HaltAlone'
  BY <1>1, <1>2, <1>3, <1>4 DEF HaltInv, HaltAlone
<1>7. StoresAgree'
  BY <1>1, <1>2 DEF HaltInv, StoresAgree, Halts
<1>. QED
  BY <1>5, <1>6, <1>7 DEF HaltInv

(* Every step keeps the invariant.                                           *)
LEMMA HaltStep == HaltInv /\ [HaltNext]_haltVars => HaltInv'
<1>. SUFFICES ASSUME HaltInv, [HaltNext]_haltVars PROVE HaltInv'
  OBVIOUS
<1>1. CASE OpenIncident \/ ResolveIncident \/ UNCHANGED haltVars
  <2>1. /\ UNCHANGED <<flag, policy, syncing, request, alone, overlap, faults, stands, mover, sure, moved, ungated>>
        /\ incident' \in BOOLEAN
        /\ \/ gated' = {}
           \/ gated' = gated /\ (incident => incident')
    BY <1>1 DEF OpenIncident, ResolveIncident, haltVars, haltStores, haltNotes, movement, HaltInv, HaltTypes
  <2>2. UnderWay' = UnderWay
    BY <2>1 DEF UnderWay
  <2>3. HaltTypes' /\ HolderSyncs' /\ GateHolds'
    BY <2>1 DEF HaltInv, HaltTypes, HolderSyncs, GateHolds
  <2>4. HaltAlone'
    BY <2>1, <2>2 DEF HaltInv, HaltAlone, OneStoreHalts
  <2>5. StoresAgree'
    BY <2>1, <2>2 DEF HaltInv, StoresAgree, Halts
  <2>. QED
    BY <2>3, <2>4, <2>5 DEF HaltInv
<1>. QED
  BY <1>1, SetPolicyKeeps, CompareFlagKeeps, WriteFlagKeeps, SyncPolicyKeeps, SavePolicyKeeps,
     MovingKeeps DEF HaltNext

(* With at most one call of the storage failing, no movement that looks at   *)
(* the halt after one was answered, which no other update ran beside or      *)
(* after, sends its money; and without failures an open P1 incident keeps    *)
(* the halt on (set_emergency_halt and is_treasury_halted).                  *)
THEOREM HaltStands == HaltSpec => []HaltHolds
<1>1. HaltInit => HaltInv
  <2>. SUFFICES ASSUME HaltInit PROVE HaltInv
    OBVIOUS
  <2>1. HaltTypes /\ HolderSyncs /\ GateHolds /\ UnderWay = {}
    BY DEF HaltInit, HaltTypes, HaltPlaces, HolderSyncs, GateHolds, UnderWay
  <2>2. HaltAlone /\ StoresAgree
    BY <2>1 DEF HaltInit, HaltAlone, StoresAgree
  <2>. QED
    BY <2>1, <2>2 DEF HaltInv
<1>2. HaltInv => HaltHolds
  BY DEF HaltInv, HaltAlone, StoresAgree, HaltHolds
<1>. QED
  BY <1>1, <1>2, HaltStep, PTL DEF HaltSpec

-----------------------------------------------------------------------------
(***************************************************************************)
(* Market epochs: the store never holds a report that was found invalid,   *)
(* because a report is in the store under one key only; and what the cache *)
(* or an order says of a report is a ruling that stands.                   *)
(***************************************************************************)
PurchasePlaces == {"new", "building", "bought", "asking", "pending", "valid", "rejected", "changed"}
EpochRow == [report: Nat, state: {"pending", "valid"}, tx: SUBSET Purchases]
PurchaseRow ==
  [at: PurchasePlaces, key: [window: Nat, generation: Nat], report: Nat,
   tx: SUBSET Purchases, resubmitted: Nat, epochal: BOOLEAN]

(* What the clock, the store, the invoices and the orders are; how far they  *)
(* go does not matter here.                                                  *)
EpochTypes ==
  /\ window \in Nat /\ generation \in Nat /\ built \in Nat
  /\ \A k \in DOMAIN epochs : epochs[k] \in EpochRow
  /\ purchase \in [Purchases -> PurchaseRow]
  /\ orders \in [Purchases -> [report: Nat, verdict: {"none", "VALID", "INVALID"}]]

(* A report in the store was built, is there under one key, and was not      *)
(* found invalid.                                                            *)
StoreIsSound ==
  /\ poisoned \subseteq 1..built
  /\ \A k \in DOMAIN epochs : epochs[k].report \in 1..built /\ epochs[k].report \notin poisoned
  /\ \A k, l \in DOMAIN epochs : epochs[k].report = epochs[l].report => k = l

Attested(report) == \E j \in Purchases : orders[j] = [report |-> report, verdict |-> "VALID"]

(* What the cache attests, and what was released, the contract has ruled.    *)
RulingsStand == ReleasedIsAttested /\ \A report \in slaCache : Attested(report)

EpochInv == EpochTypes /\ StoreIsSound /\ RulingsStand

(* Nobody who is yet to buy is sold a report that was found invalid.         *)
NoPoisonSold ==
  \A i \in Purchases :
    purchase[i].at \in {"new", "building"} /\ purchase'[i].at = "bought"
      => purchase'[i].report \notin poisoned

(* A step that only drops epochs, or marks them, leaves a sound store.       *)
LEMMA StoreShrinks ==
  ASSUME EpochInv, built' \in Nat, built' >= built, poisoned' = poisoned,
         \A k \in DOMAIN epochs' : /\ k \in DOMAIN epochs /\ epochs'[k] \in EpochRow
                                   /\ epochs'[k].report = epochs[k].report
  PROVE  StoreIsSound'
BY DEF EpochInv, EpochTypes, StoreIsSound

(* A step that releases nothing and asks for no new ruling leaves them.      *)
LEMMA RulingsKept ==
  ASSUME EpochInv, UNCHANGED orders, slaCache' \subseteq slaCache,
         \A i \in Purchases : purchase'[i].at = "valid" =>
           purchase[i].at = "valid" /\ purchase'[i].report = purchase[i].report
  PROVE  RulingsStand'
BY DEF EpochInv, RulingsStand, ReleasedIsAttested, Attested

(* The store after an epoch entered it and others were evicted.              *)
LEMMA EvictedIs ==
  ASSUME NEW store, NEW kept \in Evicted(store)
  PROVE  \A k \in DOMAIN kept : k \in DOMAIN store /\ kept[k] = store[k]
<1>1. CASE kept = store
  BY <1>1
<1>2. ASSUME NEW ks \in SUBSET DOMAIN store, kept = Restrict(store, ks)
      PROVE  \A k \in DOMAIN kept : k \in DOMAIN store /\ kept[k] = store[k]
  BY <1>2 DEF Restrict
<1>. QED
  BY <1>1, <1>2 DEF Evicted

(* What an invoice is after it bought.                                       *)
LEMMA BuysIs ==
  ASSUME EpochInv, NEW i \in Purchases, NEW k \in [window: Nat, generation: Nat],
         NEW report \in Nat, Buys(i, k, report)
  PROVE  /\ purchase' \in [Purchases -> PurchaseRow]
         /\ purchase'[i].at = "bought" /\ purchase'[i].report = report
         /\ \A j \in Purchases : j # i => purchase'[j] = purchase[j]
<1>. DEFINE row == [purchase[i] EXCEPT !.at = "bought", !.key = k, !.report = report]
<1>1. purchase \in [Purchases -> PurchaseRow] /\ purchase[i] \in PurchaseRow
  BY DEF EpochInv, EpochTypes
<1>2. row \in PurchaseRow /\ row.at = "bought" /\ row.report = report
  BY <1>1 DEF PurchaseRow, PurchasePlaces
<1>3. purchase' = [purchase EXCEPT ![i] = row]
  BY <1>1, ZenonT(30) DEF Buys
<1>. HIDE DEF row
<1>. QED
  BY <1>1, <1>2, <1>3

(* Keys are those of a window and a generation.                              *)
LEMMA KeysTyped ==
  ASSUME EpochInv
  PROVE  /\ CurrentKey \in [window: Nat, generation: Nat] /\ NoKey \in [window: Nat, generation: Nat]
         /\ \A i \in Purchases : purchase[i].key \in [window: Nat, generation: Nat]
<1>1. MaxRotations \in Nat
  BY EpochAssumption
<1>. QED
  BY <1>1 DEF CurrentKey, NoKey, EpochInv, EpochTypes, PurchaseRow

(* Purchases.                                                                *)
LEMMA BuyingKeeps ==
  ASSUME EpochInv, NEW i \in Purchases, StartPurchase(i) \/ FinishBuild(i) \/ BuildFails(i)
  PROVE  EpochInv' /\ NoPoisonSold
<1>1. UNCHANGED <<window, generation, poisoned, orders, slaCache>>
      /\ purchase[i].at \in {"new", "building"}
  BY DEF StartPurchase, FinishBuild, BuildFails, storeVars, chainVars
<1>2. ASSUME NEW k \in DOMAIN epochs, k \in [window: Nat, generation: Nat],
             Buys(i, k, epochs[k].report), UNCHANGED <<epochs, built>>
      PROVE  EpochInv' /\ NoPoisonSold
  <2>1. epochs[k].report \in Nat /\ epochs[k].report \notin poisoned
    BY DEF EpochInv, EpochTypes, StoreIsSound, EpochRow
  <2>2. /\ purchase' \in [Purchases -> PurchaseRow]
        /\ purchase'[i].at = "bought" /\ purchase'[i].report = epochs[k].report
        /\ \A j \in Purchases : j # i => purchase'[j] = purchase[j]
    BY <1>2, <2>1, BuysIs
  <2>3. EpochTypes' /\ StoreIsSound'
    BY <1>1, <1>2, <2>2 DEF EpochInv, EpochTypes, StoreIsSound
  <2>4. RulingsStand'
    BY <1>1, <2>2, RulingsKept
  <2>. QED
    BY <2>1, <2>2, <2>3, <2>4 DEF EpochInv, NoPoisonSold
<1>3. ASSUME NEW k \in [window: Nat, generation: Nat], Buys(i, k, built + 1), built' = built + 1,
             \/ UNCHANGED epochs
             \/ /\ k \notin DOMAIN epochs
                /\ epochs' \in Evicted([key \in DOMAIN epochs \cup {k} |->
                     IF key = k THEN [report |-> built + 1, state |-> "pending", tx |-> {}]
                                ELSE epochs[key]])
      PROVE  EpochInv' /\ NoPoisonSold
  <2>1. built + 1 \in Nat /\ built + 1 \notin poisoned /\ built \in Nat
    BY DEF EpochInv, EpochTypes, StoreIsSound
  <2>2. /\ purchase' \in [Purchases -> PurchaseRow]
        /\ purchase'[i].at = "bought" /\ purchase'[i].report = built + 1
        /\ \A j \in Purchases : j # i => purchase'[j] = purchase[j]
    BY <1>3, <2>1, BuysIs
  <2>3. CASE UNCHANGED epochs
    <3>1. EpochTypes'
      BY <1>1, <1>3, <2>1, <2>2, <2>3 DEF EpochInv, EpochTypes
    <3>2. StoreIsSound'
      BY <1>1, <1>3, <2>1, <2>3, StoreShrinks DEF EpochInv, EpochTypes
    <3>3. RulingsStand'
      BY <1>1, <2>2, RulingsKept
    <3>. QED
      BY <2>1, <2>2, <3>1, <3>2, <3>3 DEF EpochInv, NoPoisonSold
  <2>4. CASE k \notin DOMAIN epochs /\ ~UNCHANGED epochs
    <3>. DEFINE row == [report |-> built + 1, state |-> "pending", tx |-> {}]
                store == [key \in DOMAIN epochs \cup {k} |-> IF key = k THEN row ELSE epochs[key]]
    <3>1. row \in EpochRow /\ row.report = built + 1
      BY <2>1 DEF EpochRow
    <3>. HIDE DEF row
    <3>2. \A key \in DOMAIN epochs' :
            /\ key \in DOMAIN epochs \cup {k}
            /\ epochs'[key] = IF key = k THEN row ELSE epochs[key]
      <4>1. epochs' \in Evicted(store)
        BY <1>3, <2>4 DEF row
      <4>. HIDE DEF store
      <4>2. \A key \in DOMAIN epochs' : key \in DOMAIN store /\ epochs'[key] = store[key]
        BY <4>1, EvictedIs
      <4>. QED
        BY <4>2 DEF store
    <3>3. EpochTypes'
      BY <1>1, <1>3, <2>1, <2>2, <3>1, <3>2 DEF EpochInv, EpochTypes
    <3>4. poisoned' \subseteq 1..built'
      BY <1>1, <1>3, <2>1 DEF EpochInv, StoreIsSound
    <3>5. ASSUME NEW key \in DOMAIN epochs' PROVE epochs'[key].report \in 1..built' /\ epochs'[key].report \notin poisoned'
      BY <1>1, <1>3, <2>1, <3>1, <3>2, <3>5 DEF EpochInv, StoreIsSound
    <3>6. ASSUME NEW p \in DOMAIN epochs', NEW q \in DOMAIN epochs', epochs'[p].report = epochs'[q].report
          PROVE  p = q
      <4>1. \A key \in DOMAIN epochs : epochs[key].report # built + 1
        BY <2>1 DEF EpochInv, StoreIsSound
      <4>. QED
        BY <3>1, <3>2, <3>6, <4>1 DEF EpochInv, StoreIsSound
    <3>7. RulingsStand'
      BY <1>1, <2>2, RulingsKept
    <3>. QED
      BY <2>1, <2>2, <3>3, <3>4, <3>5, <3>6, <3>7 DEF EpochInv, StoreIsSound, NoPoisonSold
  <2>. QED
    BY <1>3, <2>3, <2>4
<1>4. ASSUME purchase' = [purchase EXCEPT ![i].at = "building", ![i].key = CurrentKey],
             UNCHANGED <<epochs, built>>
      PROVE  EpochInv' /\ NoPoisonSold
  <2>1. /\ purchase' \in [Purchases -> PurchaseRow] /\ purchase'[i].at = "building"
        /\ \A j \in Purchases : j # i => purchase'[j] = purchase[j]
    <3>. DEFINE row == [purchase[i] EXCEPT !.at = "building", !.key = CurrentKey]
    <3>1. purchase \in [Purchases -> PurchaseRow] /\ purchase[i] \in PurchaseRow
      BY DEF EpochInv, EpochTypes
    <3>2. row \in PurchaseRow /\ row.at = "building"
      BY <3>1, KeysTyped DEF PurchaseRow, PurchasePlaces
    <3>3. purchase' = [purchase EXCEPT ![i] = row]
      BY <1>4, <3>1, ZenonT(30)
    <3>. HIDE DEF row
    <3>. QED
      BY <3>1, <3>2, <3>3
  <2>2. EpochTypes' /\ StoreIsSound'
    BY <1>1, <1>4, <2>1 DEF EpochInv, EpochTypes, StoreIsSound
  <2>3. RulingsStand'
    BY <1>1, <2>1, RulingsKept
  <2>. QED
    BY <2>1, <2>2, <2>3 DEF EpochInv, NoPoisonSold
<1>5. CASE StartPurchase(i)
  BY <1>2, <1>4, <1>5, KeysTyped DEF StartPurchase, storeVars
<1>6. CASE FinishBuild(i)
  <2>1. purchase[i].key \in [window: Nat, generation: Nat]
    BY KeysTyped
  <2>. QED
    BY <1>2, <1>3, <1>6, <2>1 DEF FinishBuild
<1>7. CASE BuildFails(i)
  BY <1>3, <1>7, KeysTyped DEF BuildFails, storeVars
<1>. QED
  BY <1>5, <1>6, <1>7

(* A step of the verification of an invoice: its report stays, and it is     *)
(* past its purchase.                                                        *)
LEMMA InvoiceMoves ==
  ASSUME EpochInv, NEW i \in Purchases, NEW row \in PurchaseRow,
         row.report = purchase[i].report, purchase[i].at \notin {"new", "building"},
         purchase' = [purchase EXCEPT ![i] = row]
  PROVE  /\ purchase' \in [Purchases -> PurchaseRow] /\ NoPoisonSold /\ purchase'[i] = row
         /\ \A j \in Purchases : j # i => purchase'[j] = purchase[j]
         /\ \A j \in Purchases : purchase'[j].report = purchase[j].report
<1>1. purchase \in [Purchases -> PurchaseRow]
  BY DEF EpochInv, EpochTypes
<1>2. purchase' \in [Purchases -> PurchaseRow] /\ purchase'[i] = row
      /\ \A j \in Purchases : j # i => purchase'[j] = purchase[j]
  BY <1>1
<1>. QED
  BY <1>2 DEF NoPoisonSold

(* A verification that is begun or given up.                                 *)
LEMMA AskingKeeps ==
  ASSUME EpochInv, NEW i \in Purchases, BeginVerification(i) \/ GiveUpTransaction(i)
  PROVE  EpochInv' /\ NoPoisonSold
<1>1. purchase \in [Purchases -> PurchaseRow] /\ purchase[i] \in PurchaseRow
  BY DEF EpochInv, EpochTypes
<1>2. \E row \in PurchaseRow :
        /\ row.report = purchase[i].report /\ row.at # "valid"
        /\ purchase' = [purchase EXCEPT ![i] = row]
  <2>1. CASE BeginVerification(i)
    <3>. DEFINE report == IF LiveEpoch(purchase[i].key) THEN epochs[purchase[i].key].report
                          ELSE purchase[i].report
                tx == IF purchase[i].tx # {} THEN purchase[i].tx
                      ELSE IF LiveEpoch(purchase[i].key) THEN epochs[purchase[i].key].tx ELSE {}
                live == LiveEpoch(purchase[i].key)
                row == [purchase[i] EXCEPT
                  !.at = IF report = purchase[i].report THEN "asking" ELSE "changed",
                  !.tx = IF report = purchase[i].report THEN tx ELSE @,
                  !.epochal = live]
    <3>1. purchase' = [purchase EXCEPT ![i].at = IF report = purchase[i].report THEN "asking" ELSE "changed",
                                       ![i].tx = IF report = purchase[i].report THEN tx ELSE @,
                                       ![i].epochal = live]
      BY <2>1 DEF BeginVerification
    <3>2. live \in BOOLEAN /\ tx \in SUBSET Purchases
      BY <1>1 DEF LiveEpoch, EpochInv, EpochTypes, EpochRow, PurchaseRow
    <3>. HIDE DEF report, tx, live
    <3>3. row \in PurchaseRow /\ row.report = purchase[i].report /\ row.at # "valid"
      BY <1>1, <3>2 DEF PurchaseRow, PurchasePlaces
    <3>4. purchase' = [purchase EXCEPT ![i] = row]
      BY <1>1, <3>1, ZenonT(30)
    <3>. HIDE DEF row
    <3>. QED
      BY <3>3, <3>4
  <2>2. CASE purchase' = [purchase EXCEPT ![i].tx = {}, ![i].resubmitted = @ + 1]
             /\ purchase[i].at = "asking"
    <3>. DEFINE row == [purchase[i] EXCEPT !.tx = {}, !.resubmitted = @ + 1]
    <3>1. row \in PurchaseRow /\ row.report = purchase[i].report /\ row.at # "valid"
      BY <1>1, <2>2 DEF PurchaseRow, PurchasePlaces
    <3>2. purchase' = [purchase EXCEPT ![i] = row]
      BY <1>1, <2>2, ZenonT(30)
    <3>. HIDE DEF row
    <3>. QED
      BY <3>1, <3>2
  <2>3. CASE purchase' = [purchase EXCEPT ![i].at = "pending"]
    <3>. DEFINE row == [purchase[i] EXCEPT !.at = "pending"]
    <3>1. row \in PurchaseRow /\ row.report = purchase[i].report /\ row.at # "valid"
      BY <1>1 DEF PurchaseRow, PurchasePlaces
    <3>2. purchase' = [purchase EXCEPT ![i] = row]
      BY <1>1, <2>3, ZenonT(30)
    <3>. HIDE DEF row
    <3>. QED
      BY <3>1, <3>2
  <2>. QED
    BY <2>1, <2>2, <2>3 DEF GiveUpTransaction
<1>3. /\ purchase[i].at \notin {"new", "building"}
      /\ UNCHANGED <<window, epochs, generation, poisoned, built, orders, slaCache>>
  BY DEF BeginVerification, GiveUpTransaction, storeVars, chainVars
<1>4. PICK row \in PurchaseRow :
        /\ row.report = purchase[i].report /\ row.at # "valid"
        /\ purchase' = [purchase EXCEPT ![i] = row]
  BY <1>2
<1>5. /\ purchase' \in [Purchases -> PurchaseRow] /\ NoPoisonSold /\ purchase'[i] = row
      /\ \A j \in Purchases : j # i => purchase'[j] = purchase[j]
  BY <1>3, <1>4, InvoiceMoves
<1>6. EpochTypes' /\ StoreIsSound'
  BY <1>3, <1>5 DEF EpochInv, EpochTypes, StoreIsSound
<1>7. RulingsStand'
  BY <1>3, <1>4, <1>5, RulingsKept
<1>. QED
  BY <1>5, <1>6, <1>7 DEF EpochInv

(* The transaction of an epoch is noted: nothing else of the store changes.  *)
LEMMA NotedTx ==
  ASSUME EpochInv, NEW k, NEW tx \in SUBSET Purchases, epochs' \in {epochs, WithTx(epochs, k, tx)},
         UNCHANGED <<poisoned, built>>
  PROVE  StoreIsSound' /\ \A key \in DOMAIN epochs' : epochs'[key] \in EpochRow
<1>1. \A key \in DOMAIN epochs' : /\ key \in DOMAIN epochs /\ epochs'[key] \in EpochRow
                                  /\ epochs'[key].report = epochs[key].report
  <2>1. CASE epochs' = epochs
    BY <2>1 DEF EpochInv, EpochTypes
  <2>2. CASE k \in DOMAIN epochs /\ epochs' = [epochs EXCEPT ![k].tx = tx]
    BY <2>2 DEF EpochInv, EpochTypes, EpochRow
  <2>. QED
    BY <2>1, <2>2 DEF WithTx
<1>2. built' \in Nat /\ built' >= built
  BY DEF EpochInv, EpochTypes
<1>. QED
  BY <1>1, <1>2, StoreShrinks

(* An invoice stays pending.                                                 *)
LEMMA PendingKeeps ==
  ASSUME EpochInv, NEW i \in Purchases, NEW tx \in SUBSET Purchases, NEW given \in Nat,
         StaysPending(i, tx, given), purchase[i].at = "asking"
  PROVE  EpochInv' /\ NoPoisonSold
<1>1. purchase \in [Purchases -> PurchaseRow] /\ purchase[i] \in PurchaseRow
  BY DEF EpochInv, EpochTypes
<1>. DEFINE row == [purchase[i] EXCEPT !.at = "pending", !.tx = tx, !.resubmitted = given]
<1>2. row \in PurchaseRow /\ row.report = purchase[i].report /\ row.at # "valid"
  BY <1>1 DEF PurchaseRow, PurchasePlaces
<1>3. purchase' = [purchase EXCEPT ![i] = row]
  BY <1>1, ZenonT(30) DEF StaysPending
<1>. HIDE DEF row
<1>4. /\ purchase' \in [Purchases -> PurchaseRow] /\ NoPoisonSold /\ purchase'[i] = row
      /\ \A j \in Purchases : j # i => purchase'[j] = purchase[j]
  BY <1>2, <1>3, InvoiceMoves
<1>5. UNCHANGED <<window, generation, poisoned, built, orders, slaCache>>
      /\ epochs' \in {epochs, WithTx(epochs, purchase[i].key, tx)}
  BY DEF StaysPending
<1>6. StoreIsSound' /\ \A key \in DOMAIN epochs' : epochs'[key] \in EpochRow
  BY <1>5, NotedTx
<1>7. EpochTypes'
  BY <1>4, <1>5, <1>6 DEF EpochInv, EpochTypes
<1>8. RulingsStand'
  BY <1>2, <1>4, <1>5, RulingsKept
<1>. QED
  BY <1>4, <1>6, <1>7, <1>8 DEF EpochInv

(* A verdict is marked on whatever epoch is under the key now.               *)
LEMMA MarkKeeps ==
  ASSUME EpochInv, NEW k, NEW verdict, MarkVerdict(k, verdict) \/ UNCHANGED storeVars,
         UNCHANGED built
  PROVE  /\ StoreIsSound' /\ generation' \in Nat
         /\ \A key \in DOMAIN epochs' : epochs'[key] \in EpochRow
<1>1. built' \in Nat /\ built' >= built /\ generation \in Nat
  BY DEF EpochInv, EpochTypes
<1>2. CASE UNCHANGED storeVars
  BY <1>1, <1>2, StoreShrinks DEF storeVars, EpochInv, EpochTypes
<1>3. CASE k \in DOMAIN epochs /\ epochs' = [epochs EXCEPT ![k].state = "valid"]
           /\ UNCHANGED <<generation, poisoned>>
  <2>1. \A key \in DOMAIN epochs' : /\ key \in DOMAIN epochs /\ epochs'[key] \in EpochRow
                                    /\ epochs'[key].report = epochs[key].report
    BY <1>3 DEF EpochInv, EpochTypes, EpochRow
  <2>. QED
    BY <1>1, <1>3, <2>1, StoreShrinks
<1>4. CASE k \in DOMAIN epochs /\ epochs' = Restrict(epochs, DOMAIN epochs \ {k})
           /\ generation' = generation + 1 /\ poisoned' = poisoned \cup {epochs[k].report}
  <2>1. \A key \in DOMAIN epochs' : key \in DOMAIN epochs /\ key # k /\ epochs'[key] = epochs[key]
    BY <1>4 DEF Restrict
  <2>2. \A key \in DOMAIN epochs' : epochs'[key] \in EpochRow /\ epochs'[key].report # epochs[k].report
    BY <1>4, <2>1 DEF EpochInv, EpochTypes, StoreIsSound
  <2>3. poisoned' \subseteq 1..built'
    BY <1>4 DEF EpochInv, StoreIsSound
  <2>4. \A key \in DOMAIN epochs' : epochs'[key].report \in 1..built' /\ epochs'[key].report \notin poisoned'
    BY <1>4, <2>1, <2>2 DEF EpochInv, StoreIsSound
  <2>5. \A p, q \in DOMAIN epochs' : epochs'[p].report = epochs'[q].report => p = q
    BY <2>1 DEF EpochInv, StoreIsSound
  <2>6. generation + 1 \in Nat
    BY <1>1
  <2>7. StoreIsSound'
    BY <2>3, <2>4, <2>5 DEF StoreIsSound
  <2>. QED
    BY <1>4, <2>2, <2>6, <2>7
<1>. QED
  BY <1>2, <1>3, <1>4 DEF MarkVerdict

(* A verdict for the report of the invoice is received.                      *)
LEMMA ReceivingKeeps ==
  ASSUME EpochInv, NEW i \in Purchases, AnsweredByCache(i) \/ AnsweredByOrder(i)
  PROVE  EpochInv' /\ NoPoisonSold
<1>1. purchase \in [Purchases -> PurchaseRow] /\ purchase[i] \in PurchaseRow
      /\ orders[i] \in [report: Nat, verdict: {"none", "VALID", "INVALID"}]
  BY DEF EpochInv, EpochTypes
<1>2. PICK verdict \in {"VALID", "INVALID"} :
        /\ Receives(i, verdict) /\ purchase[i].at = "asking"
        /\ verdict = "VALID" => Attested(purchase[i].report)
        /\ \/ slaCache' = slaCache
           \/ slaCache' = slaCache \cup {r \in {purchase[i].report} : verdict = "VALID"}
        /\ UNCHANGED <<window, built, orders>>
  <2>1. CASE AnsweredByCache(i)
    BY <2>1 DEF AnsweredByCache, CachedVerdict, chainVars, EpochInv, RulingsStand
  <2>2. CASE AnsweredByOrder(i)
    <3>1. orders[i].verdict \in {"VALID", "INVALID"} /\ orders[i].report = purchase[i].report
      BY <1>1, <2>2 DEF AnsweredByOrder, ValidOrder
    <3>2. orders[i].verdict = "VALID" => orders[i] = [report |-> purchase[i].report, verdict |-> "VALID"]
      BY <1>1, <3>1
    <3>. QED
      BY <2>2, <3>1, <3>2 DEF AnsweredByOrder, chainVars, Attested
  <2>. QED
    BY <2>1, <2>2
<1>. DEFINE row == [purchase[i] EXCEPT !.at = IF verdict = "VALID" THEN "valid" ELSE "rejected"]
<1>3. row \in PurchaseRow /\ row.report = purchase[i].report
      /\ row.at = (IF verdict = "VALID" THEN "valid" ELSE "rejected")
  BY <1>1 DEF PurchaseRow, PurchasePlaces
<1>4. purchase' = [purchase EXCEPT ![i] = row]
  BY <1>1, <1>2, ZenonT(30) DEF Receives
<1>. HIDE DEF row
<1>5. /\ purchase' \in [Purchases -> PurchaseRow] /\ NoPoisonSold /\ purchase'[i] = row
      /\ \A j \in Purchases : j # i => purchase'[j] = purchase[j]
  BY <1>2, <1>3, <1>4, InvoiceMoves
<1>6. StoreIsSound' /\ generation' \in Nat /\ \A key \in DOMAIN epochs' : epochs'[key] \in EpochRow
  BY <1>2, MarkKeeps DEF Receives
<1>7. EpochTypes'
  BY <1>2, <1>5, <1>6 DEF EpochInv, EpochTypes
<1>8. RulingsStand'
  <2>1. \A report : Attested(report)' <=> Attested(report)
    BY <1>2 DEF Attested
  <2>2. ReleasedIsAttested'
    BY <1>2, <1>3, <1>5, <2>1 DEF EpochInv, RulingsStand, ReleasedIsAttested, Attested
  <2>. QED
    BY <1>2, <2>1, <2>2 DEF EpochInv, RulingsStand
<1>. QED
  BY <1>5, <1>6, <1>7, <1>8 DEF EpochInv

(* A ruling changes no other.                                                *)
LEMMA RulingKeeps ==
  ASSUME EpochInv, NEW i \in Purchases, NEW verdict \in {"VALID", "INVALID"}, Rule(i, verdict)
  PROVE  EpochInv' /\ NoPoisonSold
<1>1. /\ orders[i].verdict = "none" /\ UNCHANGED <<window, epochs, generation, poisoned, purchase, built, slaCache>>
      /\ orders' = [orders EXCEPT ![i] = [report |-> purchase[i].report, verdict |-> verdict]]
  BY DEF Rule, storeVars
<1>2. purchase[i].report \in Nat
  BY DEF EpochInv, EpochTypes, PurchaseRow
<1>3. orders' \in [Purchases -> [report: Nat, verdict: {"none", "VALID", "INVALID"}]]
      /\ \A j \in Purchases : j # i => orders'[j] = orders[j]
  BY <1>1, <1>2 DEF EpochInv, EpochTypes
<1>4. EpochTypes' /\ StoreIsSound' /\ NoPoisonSold
  BY <1>1, <1>3 DEF EpochInv, EpochTypes, StoreIsSound, NoPoisonSold
<1>5. \A report : Attested(report) => Attested(report)'
  BY <1>1, <1>3 DEF Attested
<1>6. RulingsStand'
  BY <1>1, <1>5 DEF EpochInv, RulingsStand, ReleasedIsAttested, Attested
<1>. QED
  BY <1>4, <1>6 DEF EpochInv

(* A restart loses the store and the requests.                               *)
LEMMA RestartKeeps ==
  ASSUME EpochInv, EpochRestart
  PROVE  EpochInv' /\ NoPoisonSold
<1>1. /\ epochs' = [k \in {} |-> 0] /\ generation' = 0
      /\ UNCHANGED <<window, poisoned, built, orders, slaCache>>
  BY DEF EpochRestart, chainVars
<1>2. /\ purchase' \in [Purchases -> PurchaseRow]
      /\ \A j \in Purchases : purchase'[j].at \in {purchase[j].at, "new", "pending"}
                              /\ purchase'[j].report = purchase[j].report
  <2>1. purchase \in [Purchases -> PurchaseRow]
    BY DEF EpochInv, EpochTypes
  <2>2. purchase' = [i \in Purchases |->
          CASE purchase[i].at = "building" -> [purchase[i] EXCEPT !.at = "new", !.key = NoKey]
            [] purchase[i].at = "asking" -> [purchase[i] EXCEPT !.at = "pending"]
            [] OTHER -> purchase[i]]
    BY DEF EpochRestart
  <2>3. ASSUME NEW j \in Purchases
        PROVE  /\ purchase'[j] \in PurchaseRow /\ purchase'[j].report = purchase[j].report
               /\ purchase'[j].at \in {purchase[j].at, "new", "pending"}
    <3>1. purchase[j] \in PurchaseRow
      BY <2>1
    <3>2. CASE purchase[j].at = "building"
      <4>1. purchase'[j] = [purchase[j] EXCEPT !.at = "new", !.key = NoKey]
        BY <2>2, <3>2
      <4>. QED
        BY <3>1, <4>1, KeysTyped DEF PurchaseRow, PurchasePlaces
    <3>3. CASE purchase[j].at = "asking"
      <4>1. purchase'[j] = [purchase[j] EXCEPT !.at = "pending"]
        BY <2>2, <3>3
      <4>. QED
        BY <3>1, <4>1 DEF PurchaseRow, PurchasePlaces
    <3>4. CASE purchase[j].at \notin {"building", "asking"}
      BY <2>2, <3>1, <3>4
    <3>. QED
      BY <3>2, <3>3, <3>4
  <2>4. purchase' = [j \in Purchases |-> purchase'[j]]
    BY <2>2
  <2>. QED
    BY <2>3, <2>4
<1>3. EpochTypes' /\ StoreIsSound'
  BY <1>1, <1>2 DEF EpochInv, EpochTypes, StoreIsSound
<1>4. RulingsStand'
  BY <1>1, <1>2, RulingsKept
<1>. QED
  BY <1>2, <1>3, <1>4 DEF EpochInv, NoPoisonSold

(* Every step keeps the invariant, and sells no poisoned report.             *)
LEMMA EpochStep == EpochInv /\ [EpochNext]_epochVars => EpochInv' /\ NoPoisonSold
<1>. SUFFICES ASSUME EpochInv, [EpochNext]_epochVars PROVE EpochInv' /\ NoPoisonSold
  OBVIOUS
<1>1. ASSUME NEW i \in Purchases, Prewarm(i) PROVE EpochInv' /\ NoPoisonSold
  <2>1. UNCHANGED <<window, generation, poisoned, purchase, built, orders, slaCache>>
        /\ epochs' = WithTx(epochs, purchase[i].key, {i})
    BY <1>1 DEF Prewarm
  <2>2. StoreIsSound' /\ \A key \in DOMAIN epochs' : epochs'[key] \in EpochRow
    BY <2>1, NotedTx
  <2>3. EpochTypes' /\ NoPoisonSold
    BY <2>1, <2>2 DEF EpochInv, EpochTypes, NoPoisonSold
  <2>4. RulingsStand'
    BY <2>1, RulingsKept
  <2>. QED
    BY <2>2, <2>3, <2>4 DEF EpochInv
<1>2. ASSUME NEW i \in Purchases, SubmitOrder(i) \/ PollTransaction(i) \/ NotReached(i)
      PROVE  EpochInv' /\ NoPoisonSold
  <2>1. /\ purchase[i].at = "asking" /\ purchase[i].tx \in SUBSET Purchases
        /\ purchase[i].resubmitted \in Nat /\ purchase[i].resubmitted + 1 \in Nat
    BY <1>2 DEF SubmitOrder, PollTransaction, NotReached, EpochInv, EpochTypes, PurchaseRow
  <2>2. \E tx \in SUBSET Purchases : \E given \in Nat : StaysPending(i, tx, given)
    <3>1. CASE SubmitOrder(i)
      BY <2>1, <3>1 DEF SubmitOrder
    <3>2. CASE PollTransaction(i)
      BY <2>1, <3>2 DEF PollTransaction
    <3>3. CASE NotReached(i)
      BY <2>1, <3>3 DEF NotReached
    <3>. QED
      BY <1>2, <3>1, <3>2, <3>3
  <2>. QED
    BY <2>1, <2>2, PendingKeeps
<1>3. ASSUME (\E i \in Purchases : SubmissionFails(i)) \/ CacheLapses \/ NextWindow \/ UNCHANGED epochVars
      PROVE  EpochInv' /\ NoPoisonSold
  <2>1. /\ UNCHANGED <<epochs, generation, poisoned, purchase, built, orders>>
        /\ slaCache' \subseteq slaCache /\ window' \in Nat
    BY <1>3 DEF SubmissionFails, CacheLapses, NextWindow, epochVars, storeVars, chainVars, EpochInv, EpochTypes
  <2>2. EpochTypes' /\ StoreIsSound' /\ NoPoisonSold
    BY <2>1 DEF EpochInv, EpochTypes, StoreIsSound, NoPoisonSold
  <2>3. RulingsStand'
    BY <2>1, RulingsKept
  <2>. QED
    BY <2>2, <2>3 DEF EpochInv
<1>. QED
  BY <1>1, <1>2, <1>3, BuyingKeeps, AskingKeeps, ReceivingKeeps, RulingKeeps, RestartKeeps DEF EpochNext

(* Whatever the cache, a shared transaction, an epoch replaced under its key *)
(* or a restart do, a report is released only on a valid order for it, and a *)
(* snapshot found invalid is sold to nobody from then on.                    *)
THEOREM EpochsSound == EpochSpec => EpochsAreSound
<1>1. EpochInit => EpochInv
  <2>. SUFFICES ASSUME EpochInit PROVE EpochInv
    OBVIOUS
  <2>1. EpochTypes
    BY KeysTyped, EpochAssumption DEF EpochInit, EpochTypes, PurchaseRow, PurchasePlaces, NoOrder, NoKey
  <2>. QED
    BY <2>1 DEF EpochInit, EpochInv, StoreIsSound, RulingsStand, ReleasedIsAttested
<1>2. EpochInv /\ [EpochNext]_epochVars
        => [/\ ReleasedIsAttested'
            /\ \A i \in Purchases :
                 purchase[i].at \in {"new", "building"} /\ purchase'[i].at = "bought"
                   => purchase'[i].report \notin poisoned]_epochVars
  BY EpochStep DEF EpochInv, RulingsStand, NoPoisonSold
<1>. QED
  BY <1>1, <1>2, EpochStep, PTL DEF EpochSpec, EpochsAreSound

-----------------------------------------------------------------------------
(***************************************************************************)
(* The record stores.  First, sequences and the sets of their elements.    *)
(***************************************************************************)
(* The elements of a sequence are finitely many, and are those of its set.   *)
LEMMA ElementsOf ==
  ASSUME NEW S, NEW seq \in Seq(S)
  PROVE  ToSet(seq) \subseteq S /\ IsFiniteSet(ToSet(seq))
<1>1. ToSet(seq) = {seq[i] : i \in 1..Len(seq)} /\ Len(seq) \in Nat
  BY DEF ToSet
<1>2. seq \in [1..Len(seq) -> ToSet(seq)]
  BY <1>1
<1>3. seq \in Surjection(1..Len(seq), ToSet(seq))
  BY <1>1, <1>2, Fun_IsSurj
<1>4. IsFiniteSet(1..Len(seq))
  BY <1>1, FS_Interval
<1>. QED
  BY <1>1, <1>3, <1>4, FS_Surjection

(* A finite set written as a sequence has the same elements.                 *)
LEMMA ListingOf ==
  ASSUME NEW S, IsFiniteSet(S)
  PROVE  SetToSeq(S) \in Seq(S) /\ ToSet(SetToSeq(S)) = S
<1>. DEFINE n == Cardinality(S)
            Listings == {f \in [1..n -> S] : IsInjective(f)}
<1>1. n \in Nat /\ ExistsBijection(1..n, S)
  BY FS_CardinalityType
<1>2. PICK b : b \in Bijection(1..n, S)
  BY <1>1, Fun_ExistsBij
<1>3. b \in [1..n -> S] /\ IsInjective(b)
  <2>1. b \in Injection(1..n, S)
    BY <1>2, Fun_BijectionProperties
  <2>. QED
    BY <2>1 DEF Injection
<1>4. SetToSeq(S) \in [1..n -> S] /\ IsInjective(SetToSeq(S))
  BY <1>3 DEF SetToSeq
<1>. HIDE DEF n
<1>5. SetToSeq(S) \in Injection(1..n, S)
  BY <1>4 DEF Injection
<1>6. IsFiniteSet(1..n) /\ Cardinality(1..n) = n
  BY <1>1, FS_Interval
<1>7. SetToSeq(S) \in Surjection(1..n, S)
  BY <1>5, <1>6, FS_Injection DEF n
<1>8. \A t \in S : \E i \in 1..n : SetToSeq(S)[i] = t
  BY <1>7 DEF Surjection
<1>. DEFINE listing == SetToSeq(S)
<1>9. listing \in [1..n -> S] /\ \A t \in S : \E i \in 1..n : listing[i] = t
  BY <1>4, <1>8
<1>. HIDE DEF listing
<1>10. listing \in Seq(S) /\ ToSet(listing) = S
  BY <1>1, <1>9 DEF ToSet
<1>. QED
  BY <1>10 DEF listing

(* A row that is appended unless it is there joins the others.               *)
LEMMA WithAdds ==
  ASSUME NEW S, NEW seq \in Seq(S), NEW k \in S
  PROVE  /\ With(seq, k) \in Seq(S) /\ Len(With(seq, k)) >= Len(seq)
         /\ ToSet(With(seq, k)) = ToSet(seq) \cup {k}
<1>1. CASE k \in ToSet(seq)
  BY <1>1 DEF With
<1>2. CASE k \notin ToSet(seq)
  <2>1. With(seq, k) = Append(seq, k)
    BY <1>2 DEF With
  <2>2. /\ Append(seq, k) \in Seq(S) /\ Len(Append(seq, k)) = Len(seq) + 1 /\ Len(seq) \in Nat
        /\ \A i \in 1..Len(seq) : Append(seq, k)[i] = seq[i]
        /\ Append(seq, k)[Len(seq) + 1] = k
    OBVIOUS
  <2>. DEFINE longer == Append(seq, k)
  <2>3. longer \in Seq(S) /\ Len(longer) = Len(seq) + 1
        /\ \A i \in 1..Len(longer) : longer[i] = IF i = Len(seq) + 1 THEN k ELSE seq[i]
    BY <2>2
  <2>. HIDE DEF longer
  <2>4. ToSet(longer) \subseteq ToSet(seq) \cup {k}
    BY <2>2, <2>3 DEF ToSet
  <2>5. ToSet(seq) \cup {k} \subseteq ToSet(longer)
    <3>1. ASSUME NEW i \in 1..Len(seq) PROVE seq[i] \in ToSet(longer)
      <4>1. i \in DOMAIN longer /\ longer[i] = seq[i]
        BY <2>2, <2>3
      <4>. QED
        BY <4>1 DEF ToSet
    <3>2. Len(seq) + 1 \in DOMAIN longer /\ longer[Len(seq) + 1] = k
      BY <2>2, <2>3
    <3>3. k \in ToSet(longer)
      BY <3>2 DEF ToSet
    <3>. QED
      BY <3>1, <3>3 DEF ToSet
  <2>. QED
    BY <2>1, <2>2, <2>3, <2>4, <2>5 DEF longer
<1>. QED
  BY <1>1, <1>2

(* The elements of two sequences, one after the other.                       *)
LEMMA JoinedAre ==
  ASSUME NEW S, NEW seq \in Seq(S), NEW more \in Seq(S)
  PROVE  /\ seq \o more \in Seq(S) /\ Len(seq \o more) >= Len(seq)
         /\ ToSet(seq \o more) = ToSet(seq) \cup ToSet(more)
<1>. DEFINE both == seq \o more
<1>1. /\ both \in Seq(S) /\ Len(both) = Len(seq) + Len(more) /\ Len(seq) \in Nat /\ Len(more) \in Nat
      /\ \A i \in 1..Len(both) : both[i] = IF i <= Len(seq) THEN seq[i] ELSE more[i - Len(seq)]
  OBVIOUS
<1>. HIDE DEF both
<1>2. ToSet(both) \subseteq ToSet(seq) \cup ToSet(more)
  <2>1. ASSUME NEW i \in 1..Len(both) PROVE both[i] \in ToSet(seq) \cup ToSet(more)
    <3>1. CASE i <= Len(seq)
      <4>1. i \in DOMAIN seq /\ both[i] = seq[i]
        BY <1>1, <3>1
      <4>. QED
        BY <4>1 DEF ToSet
    <3>2. CASE i > Len(seq)
      <4>1. i - Len(seq) \in DOMAIN more /\ both[i] = more[i - Len(seq)]
        BY <1>1, <3>2
      <4>. QED
        BY <4>1 DEF ToSet
    <3>. QED
      BY <1>1, <3>1, <3>2
  <2>. QED
    BY <1>1, <2>1 DEF ToSet
<1>3. ASSUME NEW i \in 1..Len(seq) PROVE seq[i] \in ToSet(both)
  <2>1. i \in DOMAIN both /\ both[i] = seq[i]
    BY <1>1
  <2>. QED
    BY <2>1 DEF ToSet
<1>4. ASSUME NEW i \in 1..Len(more) PROVE more[i] \in ToSet(both)
  <2>1. Len(seq) + i \in 1..Len(both) /\ ~(Len(seq) + i <= Len(seq)) /\ (Len(seq) + i) - Len(seq) = i
    BY <1>1
  <2>2. Len(seq) + i \in DOMAIN both /\ both[Len(seq) + i] = more[i]
    BY <1>1, <2>1
  <2>. QED
    BY <2>2 DEF ToSet
<1>5. ToSet(seq) \cup ToSet(more) \subseteq ToSet(both)
  BY <1>3, <1>4 DEF ToSet
<1>. QED
  BY <1>1, <1>2, <1>5 DEF both

(* A fault is added to the earlier ones.                                     *)
LEMMA FaultsStay ==
  ASSUME NEW Kinds, NEW earlier \in Seq(Kinds), NEW kind \in Kinds
  PROVE  /\ Append(earlier, kind) \in Seq(Kinds)
         /\ ToSet(Append(earlier, kind)) = ToSet(earlier) \cup {kind}
<1>. DEFINE longer == Append(earlier, kind)
<1>1. /\ longer \in Seq(Kinds) /\ Len(longer) = Len(earlier) + 1 /\ Len(earlier) \in Nat
      /\ \A i \in 1..Len(earlier) : longer[i] = earlier[i]
      /\ longer[Len(earlier) + 1] = kind
  OBVIOUS
<1>2. DOMAIN longer = 1..(Len(earlier) + 1) /\ DOMAIN earlier = 1..Len(earlier)
  BY <1>1
<1>. HIDE DEF longer
<1>3. ASSUME NEW i \in DOMAIN longer PROVE longer[i] \in ToSet(earlier) \cup {kind}
  <2>1. CASE i = Len(earlier) + 1
    BY <1>1, <2>1
  <2>2. CASE i # Len(earlier) + 1
    <3>1. i \in DOMAIN earlier /\ longer[i] = earlier[i]
      BY <1>1, <1>2, <2>2
    <3>. QED
      BY <3>1 DEF ToSet
  <2>. QED
    BY <2>1, <2>2
<1>4. ASSUME NEW i \in DOMAIN earlier PROVE earlier[i] \in ToSet(longer)
  <2>1. i \in DOMAIN longer /\ longer[i] = earlier[i]
    BY <1>1, <1>2
  <2>. QED
    BY <2>1 DEF ToSet
<1>5. kind \in ToSet(longer)
  <2>1. Len(earlier) + 1 \in DOMAIN longer
    BY <1>1, <1>2
  <2>. QED
    BY <1>1, <2>1 DEF ToSet
<1>6. ToSet(longer) = ToSet(earlier) \cup {kind}
  <2>1. ToSet(longer) \subseteq ToSet(earlier) \cup {kind}
    BY <1>3 DEF ToSet
  <2>2. ToSet(earlier) \subseteq ToSet(longer)
    BY <1>4 DEF ToSet
  <2>. QED
    BY <1>5, <2>1, <2>2
<1>. QED
  BY <1>1, <1>6 DEF longer

-----------------------------------------------------------------------------
(***************************************************************************)
(* Saved rows stay: a table of a database only grows, and the writer of a  *)
(* locked file has read all of what it replaces, unless a read failed.     *)
(***************************************************************************)
\* How the back end keeps the table a behaviour is about.
Kept == KeepsOf(engine.backend)[engine.table]

SaverPlaces == {"idle", "lock", "load", "write", "send", "entered", "whole", "replaced",
                "reload", "done"}

SaverRow ==
  [at: SaverPlaces, key: RowKeys \cup {NoSaver}, keep: Kept \cup {NoSaver}, copy: Seq(RowKeys)]

\* What the table, the process's copy, the threads and the faults are.
RecordTypes ==
  /\ rows \in Seq(RowKeys) /\ memory \subseteq RowKeys /\ IsFiniteSet(memory)
  /\ engine.table \in RecordTables
  /\ saver \in [Savers -> SaverRow]
  /\ storeFaults \in Seq({"read", "write"})

\* What a thread is about, and the copy of the table that it will write.
SaverKnows ==
  \A s \in Savers :
    /\ saver[s].at \in {"lock", "load", "write", "send"} =>
         saver[s].key \in RowKeys /\ saver[s].keep \in Kept
    /\ saver[s].at \in {"lock", "load", "write"} => IsFile
    /\ saver[s].at = "send" => ~IsFile
    /\ saver[s].at \in {"entered", "whole", "replaced", "reload"} => Copied
    /\ saver[s].at \in {"load", "write"} /\ saver[s].keep.locks => fileLock = s
    /\ saver[s].at = "write" /\ Guarded => saver[s].copy = rows

RecordInv == RecordTypes /\ SaverKnows /\ RowsAreKept

\* The file that is guarded is one that every writer locks.
LEMMA GuardedFilesLock ==
  ASSUME IsFile, Guarded
  PROVE  ~Copied /\ \A keep \in Kept : keep.locks
<1>1. engine.backend = "json" /\ engine.table = "invoices"
  BY DEF IsFile, Guarded
<1>2. Kept = {JsonInvoices}
  BY <1>1 DEF Kept, KeepsOf, JsonKeeps
<1>3. JsonInvoices.locks
  BY DEF JsonInvoices, File
<1>. QED
  BY <1>1, <1>2, <1>3 DEF Copied

\* Faults only add up, so a table that is guarded was.
LEMMA GuardedBefore ==
  ASSUME RecordTypes, UNCHANGED engine,
         storeFaults' = storeFaults \/ Fault("read") \/ Fault("write")
  PROVE  /\ Kept' = Kept /\ IsFile' = IsFile /\ SaverRow' = SaverRow
         /\ storeFaults' \in Seq({"read", "write"})
         /\ Guarded' => Guarded
         /\ IsFile /\ Fault("read") => ~Guarded'
<1>1. ASSUME NEW kind \in {"read", "write"}, Fault(kind)
      PROVE  /\ storeFaults' \in Seq({"read", "write"})
             /\ ToSet(storeFaults') = ToSet(storeFaults) \cup {kind}
  BY <1>1, FaultsStay DEF Fault, RecordTypes
<1>2. ToSet(storeFaults) \subseteq ToSet(storeFaults') /\ storeFaults' \in Seq({"read", "write"})
  BY <1>1 DEF RecordTypes
<1>3. IsFile' = IsFile /\ Kept' = Kept
  BY DEF IsFile, Kept
<1>4. SaverRow' = SaverRow
  BY <1>3 DEF SaverRow
<1>5. Guarded' => Guarded
  BY <1>2, <1>3 DEF Guarded
<1>6. IsFile /\ Fault("read") => ~Guarded'
  BY <1>1, <1>3 DEF Guarded
<1>. QED
  BY <1>2, <1>3, <1>4, <1>5, <1>6

\* A step of one thread.
LEMMA SaverSteps ==
  ASSUME RecordTypes, UNCHANGED engine, SaverRow' = SaverRow, NEW s \in Savers, NEW row \in SaverRow,
         saver' = [saver EXCEPT ![s] = row]
  PROVE  /\ saver' \in [Savers -> SaverRow'] /\ saver'[s] = row
         /\ \A o \in Savers : o # s => saver'[o] = saver[o]
BY DEF RecordTypes

\* A thread that moves on keeps what it knows.
LEMMA SaverMovesOn ==
  ASSUME RecordTypes, UNCHANGED engine, SaverRow' = SaverRow, NEW s \in Savers,
         NEW step \in SaverPlaces, Moves(s, step)
  PROVE  /\ saver' \in [Savers -> SaverRow']
         /\ saver'[s].at = step /\ saver'[s].keep = saver[s].keep
         /\ saver'[s].key = saver[s].key /\ saver'[s].copy = saver[s].copy
         /\ \A o \in Savers : o # s => saver'[o] = saver[o]
<1>. DEFINE row == [saver[s] EXCEPT !.at = step]
<1>1. saver[s] \in SaverRow /\ saver \in [Savers -> SaverRow]
  BY DEF RecordTypes
<1>2. /\ row \in SaverRow /\ row.at = step /\ row.keep = saver[s].keep
      /\ row.key = saver[s].key /\ row.copy = saver[s].copy
  BY <1>1 DEF SaverRow
<1>3. saver' = [saver EXCEPT ![s] = row]
  BY <1>1, Zenon DEF Moves
<1>. HIDE DEF row
<1>. QED
  BY <1>2, <1>3, SaverSteps

\* Starting to save, and getting the lock of the file.
LEMMA SavingKeeps ==
  ASSUME RecordInv, NEW s \in Savers,
         (\E k \in RowKeys : SaveRow(s, k) \/ RecordEntitlement(s, k)) \/ LockFile(s)
  PROVE  RecordInv'
<1>1. UNCHANGED <<engine, rows, written, answered, missed, storeFaults>>
  BY DEF SaveRow, RecordEntitlement, LockFile
<1>2. RecordTypes /\ SaverKnows /\ RowsAreKept
  BY DEF RecordInv
<1>3. /\ Kept' = Kept /\ IsFile' = IsFile /\ SaverRow' = SaverRow /\ (Guarded' => Guarded)
      /\ storeFaults' \in Seq({"read", "write"})
  BY <1>1, <1>2, GuardedBefore
<1>4. RowsAreKept'
  BY <1>1, <1>2, <1>3 DEF RowsAreKept, Facade, Kept
<1>5. ASSUME NEW k \in RowKeys, SaveRow(s, k)
      PROVE  RecordTypes' /\ SaverKnows'
  <2>1. PICK keep \in Kept :
          saver' = [saver EXCEPT ![s] = [at |-> IF ~IsFile THEN "send"
                                               ELSE IF keep.locks THEN "lock" ELSE "load",
                                         key |-> k, keep |-> keep, copy |-> <<>>]]
    BY <1>5 DEF SaveRow, Kept
  <2>. DEFINE row == [at |-> IF ~IsFile THEN "send" ELSE IF keep.locks THEN "lock" ELSE "load",
                      key |-> k, keep |-> keep, copy |-> <<>>]
  <2>2. /\ row \in SaverRow /\ row.key \in RowKeys /\ row.keep \in Kept
        /\ row.at \in {"lock", "load"} => IsFile
        /\ row.at = "send" => ~IsFile
        /\ row.at \in {"send", "lock", "load"}
        /\ row.at = "load" => ~row.keep.locks
    BY DEF SaverRow, SaverPlaces
  <2>3. saver' = [saver EXCEPT ![s] = row]
    BY <2>1
  <2>. HIDE DEF row
  <2>4. /\ saver' \in [Savers -> SaverRow'] /\ saver'[s] = row
        /\ \A o \in Savers : o # s => saver'[o] = saver[o]
    BY <1>1, <1>2, <1>3, <2>2, <2>3, SaverSteps
  <2>5. /\ UNCHANGED fileLock /\ memory' \subseteq RowKeys
        /\ memory' = memory \cup {k} \/ memory' = memory
    BY <1>2, <1>5 DEF SaveRow, RecordTypes
  <2>6. IsFiniteSet(memory')
    BY <1>2, <2>5, FS_AddElement DEF RecordTypes
  <2>. QED
    BY <1>1, <1>2, <1>3, <2>2, <2>4, <2>5, <2>6 DEF RecordTypes, SaverKnows, Copied
<1>6. ASSUME NEW k \in RowKeys, RecordEntitlement(s, k)
      PROVE  RecordTypes' /\ SaverKnows'
  <2>1. PICK keep \in Kept :
          saver' = [saver EXCEPT ![s] = [at |-> "entered", key |-> k, keep |-> keep, copy |-> <<>>]]
    BY <1>6 DEF RecordEntitlement, Kept
  <2>. DEFINE row == [at |-> "entered", key |-> k, keep |-> keep, copy |-> <<>>]
  <2>2. row \in SaverRow /\ row.at = "entered" /\ row.key \in RowKeys /\ row.keep \in Kept
    BY DEF SaverRow, SaverPlaces
  <2>3. saver' = [saver EXCEPT ![s] = row]
    BY <2>1
  <2>. HIDE DEF row
  <2>4. /\ saver' \in [Savers -> SaverRow'] /\ saver'[s] = row
        /\ \A o \in Savers : o # s => saver'[o] = saver[o]
    BY <1>1, <1>2, <1>3, <2>2, <2>3, SaverSteps
  <2>5. engine.table = "paid_reports" /\ memory' = memory \cup {k} /\ UNCHANGED fileLock
    BY <1>6 DEF RecordEntitlement
  <2>6. IsFiniteSet(memory')
    BY <1>2, <2>5, FS_AddElement DEF RecordTypes
  <2>. QED
    BY <1>1, <1>2, <1>3, <2>2, <2>4, <2>5, <2>6 DEF RecordTypes, SaverKnows, Copied
<1>7. ASSUME LockFile(s)
      PROVE  RecordTypes' /\ SaverKnows'
  <2>1. saver[s].at = "lock" /\ fileLock = NoSaver /\ fileLock' = s /\ UNCHANGED memory
    BY <1>7 DEF LockFile, At
  <2>2. /\ saver' \in [Savers -> SaverRow']
        /\ saver'[s].at = "load" /\ saver'[s].keep = saver[s].keep /\ saver'[s].key = saver[s].key
        /\ \A o \in Savers : o # s => saver'[o] = saver[o]
    BY <1>1, <1>2, <1>3, <1>7, SaverMovesOn DEF LockFile, SaverPlaces
  <2>3. \A o \in Savers : o # NoSaver
    BY RecordAssumption
  <2>. QED
    BY <1>1, <1>2, <1>3, <2>1, <2>2, <2>3 DEF RecordTypes, SaverKnows, Copied
<1>. QED
  BY <1>4, <1>5, <1>6, <1>7 DEF RecordInv

\* The refresh begins to save the list; a copy is passed to the facade.
LEMMA PassingKeeps ==
  ASSUME RecordInv, NEW s \in Savers, RefreshPayments(s) \/ PassCopy(s)
  PROVE  RecordInv'
<1>1. /\ UNCHANGED <<engine, rows, memory, fileLock, written, answered, missed, storeFaults>>
      /\ Moves(s, "entered") \/ Moves(s, "whole")
  BY DEF RefreshPayments, PassCopy
<1>2. RecordTypes /\ SaverKnows /\ RowsAreKept
  BY DEF RecordInv
<1>3. /\ Kept' = Kept /\ IsFile' = IsFile /\ SaverRow' = SaverRow /\ (Guarded' => Guarded)
      /\ storeFaults' \in Seq({"read", "write"})
  BY <1>1, <1>2, GuardedBefore
<1>4. Copied
  BY <1>2 DEF RefreshPayments, PassCopy, SaverKnows, At, Copied
<1>5. RowsAreKept'
  BY <1>1, <1>2, <1>3 DEF RowsAreKept, Facade, Kept
<1>6. /\ saver' \in [Savers -> SaverRow'] /\ saver'[s].at \in {"entered", "whole"}
      /\ \A o \in Savers : o # s => saver'[o] = saver[o]
  BY <1>1, <1>2, <1>3, SaverMovesOn DEF SaverPlaces
<1>7. RecordTypes' /\ SaverKnows'
  BY <1>1, <1>2, <1>3, <1>4, <1>6 DEF RecordTypes, SaverKnows, Copied
<1>. QED
  BY <1>5, <1>7 DEF RecordInv

\* A file is read.
LEMMA LoadingKeeps ==
  ASSUME RecordInv, NEW s \in Savers, LoadFile(s)
  PROVE  RecordInv'
<1>1. UNCHANGED <<engine, rows, memory, fileLock, written, answered, missed>> /\ saver[s].at = "load"
  BY DEF LoadFile, At
<1>2. RecordTypes /\ SaverKnows /\ RowsAreKept
  BY DEF RecordInv
<1>3. storeFaults' = storeFaults \/ Fault("read")
  BY DEF LoadFile
<1>4. /\ Kept' = Kept /\ IsFile' = IsFile /\ SaverRow' = SaverRow /\ (Guarded' => Guarded)
      /\ storeFaults' \in Seq({"read", "write"}) /\ (IsFile /\ Fault("read") => ~Guarded')
  BY <1>1, <1>2, <1>3, GuardedBefore
<1>5. RowsAreKept'
  BY <1>1, <1>2, <1>4 DEF RowsAreKept, Facade, Kept
<1>6. \E copy \in Seq(RowKeys) :
        /\ saver' = [saver EXCEPT ![s] = [saver[s] EXCEPT !.at = "write", !.copy = copy]]
        /\ Guarded' => copy = rows
  <2>1. saver \in [Savers -> SaverRow] /\ saver[s] \in SaverRow /\ rows \in Seq(RowKeys)
    BY <1>2 DEF RecordTypes
  <2>2. CASE saver' = [saver EXCEPT ![s].at = "write", ![s].copy = rows]
    <3>1. saver' = [saver EXCEPT ![s] = [saver[s] EXCEPT !.at = "write", !.copy = rows]]
      BY <2>1, <2>2, ZenonT(30)
    <3>. QED
      BY <2>1, <3>1
  <2>3. CASE saver' = [saver EXCEPT ![s].at = "write"] /\ Fault("read")
    <3>1. IsFile
      BY <1>1, <1>2 DEF SaverKnows
    <3>2. ~Guarded'
      BY <1>4, <2>3, <3>1
    <3>3. [saver[s] EXCEPT !.at = "write", !.copy = saver[s].copy] = [saver[s] EXCEPT !.at = "write"]
          /\ saver[s].copy \in Seq(RowKeys)
      BY <2>1 DEF SaverRow
    <3>4. saver' = [saver EXCEPT ![s] = [saver[s] EXCEPT !.at = "write"]]
      BY <2>1, <2>3, ZenonT(30)
    <3>. QED
      BY <3>2, <3>3, <3>4
  <2>. QED
    BY <2>2, <2>3 DEF LoadFile
<1>7. PICK copy \in Seq(RowKeys) :
        /\ saver' = [saver EXCEPT ![s] = [saver[s] EXCEPT !.at = "write", !.copy = copy]]
        /\ Guarded' => copy = rows
  BY <1>6
<1>. DEFINE row == [saver[s] EXCEPT !.at = "write", !.copy = copy]
<1>8. /\ row \in SaverRow /\ row.at = "write" /\ row.copy = copy
      /\ row.keep = saver[s].keep /\ row.key = saver[s].key
  BY <1>2 DEF RecordTypes, SaverRow, SaverPlaces
<1>9. saver' = [saver EXCEPT ![s] = row]
  BY <1>7
<1>. HIDE DEF row
<1>10. /\ saver' \in [Savers -> SaverRow'] /\ saver'[s] = row
       /\ \A o \in Savers : o # s => saver'[o] = saver[o]
  BY <1>1, <1>2, <1>4, <1>8, <1>9, SaverSteps
<1>11. RecordTypes'
  BY <1>1, <1>2, <1>4, <1>10 DEF RecordTypes
<1>12. SaverKnows'
  BY <1>1, <1>2, <1>4, <1>7, <1>8, <1>10 DEF SaverKnows, Copied
<1>. QED
  BY <1>5, <1>11, <1>12 DEF RecordInv

\* The lock of the file is not free in time.
LEMMA TimingOutKeeps ==
  ASSUME RecordInv, NEW s \in Savers, LockTimesOut(s)
  PROVE  RecordInv'
<1>1. /\ UNCHANGED <<engine, rows, memory, fileLock, written, missed, storeFaults>>
      /\ answered' = answered \cup Unless(Facade[engine.table], s)
  BY DEF LockTimesOut
<1>2. RecordTypes /\ SaverKnows /\ RowsAreKept
  BY DEF RecordInv
<1>3. /\ Kept' = Kept /\ IsFile' = IsFile /\ SaverRow' = SaverRow /\ (Guarded' => Guarded)
      /\ storeFaults' \in Seq({"read", "write"})
  BY <1>1, <1>2, GuardedBefore
<1>4. /\ saver' \in [Savers -> SaverRow'] /\ saver'[s].at = "done"
      /\ \A o \in Savers : o # s => saver'[o] = saver[o]
  BY <1>1, <1>2, <1>3, SaverMovesOn DEF LockTimesOut, SaverPlaces
<1>5. RowsAreKept'
  BY <1>1, <1>2, <1>3 DEF RowsAreKept, Facade, Kept, Unless
<1>6. RecordTypes' /\ SaverKnows'
  BY <1>1, <1>2, <1>3, <1>4 DEF RecordTypes, SaverKnows, Copied
<1>. QED
  BY <1>5, <1>6 DEF RecordInv

\* What a copy that was passed holds.
LEMMA PassedIs ==
  ASSUME RecordTypes, NEW s \in Savers
  PROVE  IsFiniteSet(Passed(s)) /\ Passed(s) \subseteq RowKeys /\ rows \in Seq(RowKeys)
<1>1. saver[s].copy \in Seq(RowKeys) /\ rows \in Seq(RowKeys)
  BY DEF RecordTypes, SaverRow
<1>2. ToSet(saver[s].copy) \subseteq RowKeys /\ IsFiniteSet(ToSet(saver[s].copy))
  BY <1>1, ElementsOf
<1>. QED
  BY <1>1, <1>2 DEF RecordTypes, Passed

\* The process's copy is saved as a whole: a database keeps the rows it has.
LEMMA WholeKeeps ==
  ASSUME RecordInv, NEW s \in Savers, SaveWhole(s)
  PROVE  RecordInv'
<1>1. /\ UNCHANGED <<engine, memory, fileLock, missed>>
      /\ saver[s].at \in {"whole", "replaced"}
      /\ storeFaults' = storeFaults \/ Fault("write")
  BY DEF SaveWhole, At
<1>2. RecordTypes /\ SaverKnows /\ RowsAreKept
  BY DEF RecordInv
<1>3. /\ Kept' = Kept /\ IsFile' = IsFile /\ SaverRow' = SaverRow /\ (Guarded' => Guarded)
      /\ storeFaults' \in Seq({"read", "write"})
  BY <1>1, <1>2, GuardedBefore
<1>4. /\ saver' \in [Savers -> SaverRow'] /\ saver'[s].at = "done"
      /\ \A o \in Savers : o # s => saver'[o] = saver[o]
  BY <1>1, <1>2, <1>3, SaverMovesOn DEF SaveWhole, SaverPlaces
<1>5. /\ engine.table = "paid_reports" \/ Facade[engine.table] = "log"
      /\ IsFile => ~Guarded
  <2>1. Copied /\ engine.table \in RecordTables
    BY <1>1, <1>2 DEF SaverKnows, RecordTypes
  <2>. QED
    BY <2>1, GuardedFilesLock DEF Copied, Facade, FacadePayments
<1>6. /\ rows' \in Seq(RowKeys)
      /\ ~IsFile => /\ Len(rows') >= Len(rows)
                    /\ written' \subseteq ToSet(rows') \/ ~(written \subseteq ToSet(rows))
  <2>. DEFINE copy == Passed(s)
  <2>1. rows \in Seq(RowKeys) /\ IsFiniteSet(copy) /\ copy \subseteq RowKeys
    BY <1>2, PassedIs
  <2>2. CASE UNCHANGED <<rows, written>>
    BY <2>1, <2>2
  <2>3. CASE IsFile /\ rows' = SetToSeq(copy)
    <3>1. SetToSeq(copy) \in Seq(copy)
      BY <2>1, ListingOf
    <3>. QED
      BY <2>1, <2>3, <3>1
  <2>4. CASE rows' = rows \o SetToSeq(copy \ ToSet(rows)) /\ written' = written \cup copy
    <3>. DEFINE new == copy \ ToSet(rows)
    <3>1. IsFiniteSet(new) /\ new \subseteq RowKeys
      BY <2>1, FS_Subset
    <3>2. SetToSeq(new) \in Seq(new) /\ ToSet(SetToSeq(new)) = new
      BY <3>1, ListingOf
    <3>3. SetToSeq(new) \in Seq(RowKeys)
      BY <3>1, <3>2
    <3>. HIDE DEF new
    <3>4. /\ rows \o SetToSeq(new) \in Seq(RowKeys) /\ Len(rows \o SetToSeq(new)) >= Len(rows)
          /\ ToSet(rows \o SetToSeq(new)) = ToSet(rows) \cup ToSet(SetToSeq(new))
      BY <2>1, <3>3, JoinedAre
    <3>5. rows' = rows \o SetToSeq(new)
      BY <2>4 DEF new
    <3>6. ToSet(rows') = ToSet(rows) \cup copy
      BY <3>2, <3>4, <3>5 DEF new
    <3>. QED
      BY <2>4, <3>4, <3>5, <3>6
  <2>5. \/ UNCHANGED <<rows, written>>
        \/ IsFile /\ rows' = SetToSeq(copy)
        \/ rows' = rows \o SetToSeq(copy \ ToSet(rows)) /\ written' = written \cup copy
    BY DEF SaveWhole
  <2>. QED
    BY <2>2, <2>3, <2>4, <2>5
<1>7. RowsAreKept'
  <2>1. Len(rows) \in Nat /\ Len(rows') \in Nat /\ ReadAtMost \in Nat
    BY <1>2, <1>6, RecordAssumption DEF RecordTypes
  <2>2. ASSUME Guarded' PROVE written' \subseteq ToSet(rows') /\ (Len(rows') <= ReadAtMost => missed' = {})
    BY <1>1, <1>2, <1>3, <1>5, <1>6, <2>1, <2>2 DEF RowsAreKept
  <2>3. Facade' = Facade
    BY DEF Facade
  <2>. QED
    BY <1>1, <1>5, <2>2, <2>3 DEF RowsAreKept
<1>8. RecordTypes' /\ SaverKnows'
  BY <1>1, <1>2, <1>3, <1>4, <1>5, <1>6 DEF RecordTypes, SaverKnows, Copied
<1>. QED
  BY <1>7, <1>8 DEF RecordInv

\* A file is replaced, or stays: the lock's holder has what it replaces.
LEMMA WritingKeeps ==
  ASSUME RecordInv, NEW s \in Savers, WriteFile(s)
  PROVE  RecordInv'
<1>1. /\ UNCHANGED <<engine, memory, missed>> /\ saver[s].at = "write"
      /\ storeFaults' = storeFaults \/ Fault("write")
      /\ fileLock' = IF saver[s].keep.locks THEN NoSaver ELSE fileLock
  BY DEF WriteFile, At
<1>2. RecordTypes /\ SaverKnows /\ RowsAreKept
  BY DEF RecordInv
<1>3. /\ Kept' = Kept /\ IsFile' = IsFile /\ SaverRow' = SaverRow /\ (Guarded' => Guarded)
      /\ storeFaults' \in Seq({"read", "write"})
  BY <1>1, <1>2, GuardedBefore
<1>4. /\ saver' \in [Savers -> SaverRow'] /\ saver'[s].at = "done"
      /\ \A o \in Savers : o # s => saver'[o] = saver[o]
  BY <1>1, <1>2, <1>3, SaverMovesOn DEF WriteFile, SaverPlaces
<1>5. IsFile /\ saver[s].key \in RowKeys /\ saver[s].keep \in Kept /\ (Guarded => saver[s].copy = rows)
  BY <1>1, <1>2 DEF SaverKnows
<1>6. ASSUME NEW o \in Savers, o # s, saver[o].at \in {"load", "write"}, saver[s].keep.locks
      PROVE  ~saver[o].keep.locks
  BY <1>1, <1>2, <1>6 DEF SaverKnows
<1>7. /\ rows' \in Seq(RowKeys)
      /\ Guarded => /\ Len(rows') >= Len(rows)
                    /\ written \subseteq ToSet(rows) => written' \subseteq ToSet(rows')
  <2>1. rows \in Seq(RowKeys) /\ saver[s].copy \in Seq(RowKeys)
    BY <1>2 DEF RecordTypes, SaverRow
  <2>2. CASE UNCHANGED <<rows, written>>
    BY <2>1, <2>2
  <2>3. CASE rows' = With(saver[s].copy, saver[s].key) /\ written' = written \cup {saver[s].key}
    <3>1. /\ rows' \in Seq(RowKeys) /\ Len(rows') >= Len(saver[s].copy)
          /\ ToSet(rows') = ToSet(saver[s].copy) \cup {saver[s].key}
      BY <1>5, <2>1, <2>3, WithAdds
    <3>. QED
      BY <1>5, <2>3, <3>1
  <2>. QED
    BY <2>2, <2>3 DEF WriteFile
<1>8. RowsAreKept'
  <2>1. Len(rows) \in Nat /\ Len(rows') \in Nat /\ ReadAtMost \in Nat
    BY <1>2, <1>7, RecordAssumption DEF RecordTypes
  <2>2. ASSUME Guarded' PROVE written' \subseteq ToSet(rows') /\ (Len(rows') <= ReadAtMost => missed' = {})
    BY <1>1, <1>2, <1>3, <1>7, <2>1, <2>2 DEF RowsAreKept
  <2>3. \/ written' = written \cup {saver[s].key} /\ answered' = answered \cup {saver[s].key}
        \/ written' = written /\ answered' = answered \cup Unless(Facade[engine.table], s)
    BY DEF WriteFile
  <2>. QED
    BY <1>1, <1>2, <1>3, <2>2, <2>3 DEF RowsAreKept, Facade, Kept, Unless
<1>9. RecordTypes'
  BY <1>1, <1>2, <1>3, <1>4, <1>7 DEF RecordTypes
<1>10. SaverKnows'
  <2>1. ASSUME NEW o \in Savers, o # s, saver[o].at = "write", Guarded' PROVE FALSE
    <3>1. Guarded /\ saver[o].keep \in Kept
      BY <1>2, <1>3, <2>1 DEF SaverKnows
    <3>. QED
      BY <1>5, <1>6, <2>1, <3>1, GuardedFilesLock
  <2>2. ASSUME NEW o \in Savers, o # s, saver[o].at \in {"load", "write"}, saver[o].keep.locks
        PROVE  fileLock' = o
    BY <1>1, <1>2, <1>6, <2>2 DEF SaverKnows
  <2>. QED
    BY <1>1, <1>2, <1>3, <1>4, <2>1, <2>2 DEF SaverKnows, Copied
<1>. QED
  BY <1>8, <1>9, <1>10 DEF RecordInv

\* A database has one more row, or the same row again.
LEMMA UpsertKeeps ==
  ASSUME RecordInv, NEW s \in Savers, UpsertRow(s)
  PROVE  RecordInv'
<1>1. /\ UNCHANGED <<engine, memory, fileLock, missed>> /\ saver[s].at = "send"
      /\ storeFaults' = storeFaults \/ Fault("write")
  BY DEF UpsertRow, At
<1>2. RecordTypes /\ SaverKnows /\ RowsAreKept
  BY DEF RecordInv
<1>3. /\ Kept' = Kept /\ IsFile' = IsFile /\ SaverRow' = SaverRow /\ (Guarded' => Guarded)
      /\ storeFaults' \in Seq({"read", "write"})
  BY <1>1, <1>2, GuardedBefore
<1>4. /\ saver' \in [Savers -> SaverRow'] /\ saver'[s].at = "done"
      /\ \A o \in Savers : o # s => saver'[o] = saver[o]
  BY <1>1, <1>2, <1>3, SaverMovesOn DEF UpsertRow, SaverPlaces
<1>5. ~IsFile /\ saver[s].key \in RowKeys /\ saver[s].keep \in Kept
  BY <1>1, <1>2 DEF SaverKnows
<1>6. /\ rows' \in Seq(RowKeys) /\ Len(rows') >= Len(rows)
      /\ written \subseteq ToSet(rows) => written' \subseteq ToSet(rows')
  <2>1. rows \in Seq(RowKeys)
    BY <1>2 DEF RecordTypes
  <2>2. CASE UNCHANGED <<rows, written>>
    BY <2>1, <2>2
  <2>3. CASE rows' = With(rows, saver[s].key) /\ written' = written \cup {saver[s].key}
    <3>1. /\ rows' \in Seq(RowKeys) /\ Len(rows') >= Len(rows)
          /\ ToSet(rows') = ToSet(rows) \cup {saver[s].key}
      BY <1>5, <2>1, <2>3, WithAdds
    <3>. QED
      BY <2>3, <3>1
  <2>. QED
    BY <2>2, <2>3 DEF UpsertRow
<1>7. RowsAreKept'
  <2>1. Len(rows) \in Nat /\ Len(rows') \in Nat /\ ReadAtMost \in Nat
    BY <1>2, <1>6, RecordAssumption DEF RecordTypes
  <2>2. ASSUME Guarded' PROVE written' \subseteq ToSet(rows') /\ (Len(rows') <= ReadAtMost => missed' = {})
    BY <1>1, <1>2, <1>3, <1>6, <2>1, <2>2 DEF RowsAreKept
  <2>3. \/ written' = written \cup {saver[s].key} /\ answered' = answered \cup {saver[s].key}
        \/ saver[s].keep.quiet
        \/ written' = written /\ answered' = answered \cup Unless(Facade[engine.table], s)
    BY DEF UpsertRow
  <2>. QED
    BY <1>1, <1>2, <1>3, <1>5, <2>2, <2>3 DEF RowsAreKept, Facade, Kept, Unless
<1>8. RecordTypes' /\ SaverKnows'
  BY <1>1, <1>2, <1>3, <1>4, <1>5, <1>6 DEF RecordTypes, SaverKnows, Copied
<1>. QED
  BY <1>7, <1>8 DEF RecordInv

\* What a read returns is in the table, and all of it within the limit.
LEMMA ReadsRows ==
  ASSUME RecordTypes, NEW reads, NEW seen \in Visible(reads)
  PROVE  /\ Len(rows) <= ReadAtMost => seen = ToSet(rows)
         /\ seen \subseteq ToSet(rows)
<1>1. rows \in Seq(RowKeys) /\ Len(rows) \in Nat /\ ReadAtMost \in Nat \ {0}
  BY RecordAssumption DEF RecordTypes
<1>2. ASSUME NEW m \in Nat, NEW n \in Nat, m >= 1, n <= Len(rows)
      PROVE  ToSet(SubSeq(rows, m, n)) \subseteq ToSet(rows)
  <2>1. \A i \in DOMAIN SubSeq(rows, m, n) :
          SubSeq(rows, m, n)[i] = rows[m + i - 1] /\ m + i - 1 \in DOMAIN rows
    BY <1>1, <1>2
  <2>. QED
    BY <2>1 DEF ToSet
<1>3. CASE Len(rows) <= ReadAtMost \/ reads = "all"
  BY <1>3 DEF Visible
<1>4. CASE ~(Len(rows) <= ReadAtMost \/ reads = "all")
  <2>1. /\ Len(rows) - ReadAtMost + 1 \in Nat /\ Len(rows) - ReadAtMost + 1 >= 1
        /\ ReadAtMost <= Len(rows) /\ ReadAtMost \in Nat /\ 1 \in Nat /\ 1 >= 1
        /\ Len(rows) \in Nat /\ Len(rows) <= Len(rows)
    BY <1>1, <1>4
  <2>2. /\ ToSet(SubSeq(rows, Len(rows) - ReadAtMost + 1, Len(rows))) \subseteq ToSet(rows)
        /\ ToSet(SubSeq(rows, 1, ReadAtMost)) \subseteq ToSet(rows)
    BY <1>2, <2>1
  <2>3. \/ seen = ToSet(SubSeq(rows, Len(rows) - ReadAtMost + 1, Len(rows)))
        \/ seen = ToSet(SubSeq(rows, 1, ReadAtMost))
        \/ seen \subseteq ToSet(rows)
    BY <1>4 DEF Visible
  <2>. QED
    BY <1>4, <2>2, <2>3
<1>. QED
  BY <1>3, <1>4

\* A lookup finds what was written, within the limit.
LEMMA LookingKeeps ==
  ASSUME RecordInv, NEW s \in Savers, NEW k \in RowKeys, LookUp(s, k)
  PROVE  RecordInv'
<1>1. /\ UNCHANGED <<engine, rows, memory, fileLock, written, answered>> /\ k \in written
      /\ storeFaults' = storeFaults \/ Fault("read")
  BY DEF LookUp
<1>2. RecordTypes /\ SaverKnows /\ RowsAreKept
  BY DEF RecordInv
<1>3. /\ Kept' = Kept /\ IsFile' = IsFile /\ SaverRow' = SaverRow /\ (Guarded' => Guarded)
      /\ storeFaults' \in Seq({"read", "write"})
  BY <1>1, <1>2, GuardedBefore
<1>4. /\ saver' \in [Savers -> SaverRow'] /\ saver'[s].at = "done"
      /\ \A o \in Savers : o # s => saver'[o] = saver[o]
  BY <1>1, <1>2, <1>3, SaverMovesOn DEF LookUp, SaverPlaces
<1>5. ASSUME Guarded, Len(rows) <= ReadAtMost PROVE missed' = missed
  <2>1. k \in ToSet(rows)
    BY <1>1, <1>2, <1>5 DEF RowsAreKept
  <2>2. \A reads : \A seen \in Visible(reads) : k \in seen
    BY <1>2, <1>5, <2>1, ReadsRows
  <2>. QED
    BY <2>2 DEF LookUp
<1>6. RowsAreKept'
  BY <1>1, <1>2, <1>3, <1>5 DEF RowsAreKept, Facade, Kept
<1>7. RecordTypes' /\ SaverKnows'
  BY <1>1, <1>2, <1>3, <1>4 DEF RecordTypes, SaverKnows, Copied
<1>. QED
  BY <1>6, <1>7 DEF RecordInv

\* The process's copy is read again, and taken.
LEMMA ReloadingKeeps ==
  ASSUME RecordInv, NEW s \in Savers, ReloadReads(s) \/ ReloadTakes(s)
  PROVE  RecordInv'
<1>1. /\ UNCHANGED <<engine, rows, fileLock, written, answered, missed>>
      /\ storeFaults' = storeFaults \/ Fault("read")
  BY DEF ReloadReads, ReloadTakes
<1>2. RecordTypes /\ SaverKnows /\ RowsAreKept
  BY DEF RecordInv
<1>3. /\ Kept' = Kept /\ IsFile' = IsFile /\ SaverRow' = SaverRow /\ (Guarded' => Guarded)
      /\ storeFaults' \in Seq({"read", "write"})
  BY <1>1, <1>2, GuardedBefore
<1>4. RowsAreKept'
  BY <1>1, <1>2, <1>3 DEF RowsAreKept, Facade, Kept
<1>5. saver[s] \in SaverRow /\ saver \in [Savers -> SaverRow] /\ rows \in Seq(RowKeys)
  BY <1>2 DEF RecordTypes
<1>6. CASE ReloadTakes(s)
  <2>1. memory' = ToSet(saver[s].copy) /\ saver[s].copy \in Seq(RowKeys)
    BY <1>5, <1>6 DEF ReloadTakes, SaverRow
  <2>2. memory' \subseteq RowKeys /\ IsFiniteSet(memory')
    BY <2>1, ElementsOf
  <2>3. SetToSeq(memory) \in Seq(RowKeys)
    <3>1. SetToSeq(memory) \in Seq(memory) /\ memory \subseteq RowKeys
      BY <1>2, ListingOf DEF RecordTypes
    <3>. QED
      BY <3>1
  <2>4. \A o \in Savers :
          /\ saver'[o] \in SaverRow
          /\ \/ saver'[o] = saver[o]
             \/ saver'[o].at = "done"
             \/ saver[o].at = "whole" /\ saver'[o].at = "replaced"
    <3>1. ASSUME NEW o \in Savers, o = s PROVE saver'[o] \in SaverRow /\ saver'[o].at = "done"
      BY <1>5, <1>6, <3>1 DEF ReloadTakes, SaverRow, SaverPlaces
    <3>2. ASSUME NEW o \in Savers, o # s, saver[o].at = "whole"
          PROVE  saver'[o] \in SaverRow /\ saver'[o].at = "replaced"
      <4>1. saver'[o] = [saver[o] EXCEPT !.at = "replaced", !.copy = SetToSeq(memory)]
        BY <1>6, <3>2 DEF ReloadTakes, At
      <4>. QED
        BY <1>5, <2>3, <4>1 DEF SaverRow, SaverPlaces
    <3>3. ASSUME NEW o \in Savers, o # s, saver[o].at # "whole" PROVE saver'[o] = saver[o]
      BY <1>6, <3>3 DEF ReloadTakes, At
    <3>. QED
      BY <1>5, <3>1, <3>2, <3>3
  <2>5. saver' \in [Savers -> SaverRow']
    <3>1. saver' = [o \in Savers |-> saver'[o]]
      BY <1>6 DEF ReloadTakes
    <3>. QED
      BY <1>3, <2>4, <3>1
  <2>6. RecordTypes' /\ SaverKnows'
    BY <1>1, <1>2, <1>3, <2>2, <2>4, <2>5 DEF RecordTypes, SaverKnows, Copied
  <2>. QED
    BY <1>4, <2>6 DEF RecordInv
<1>7. CASE ReloadReads(s)
  <2>1. \E row \in SaverRow : row.at = "reload" /\ saver' = [saver EXCEPT ![s] = row]
    <3>1. ASSUME NEW reads, NEW seen \in Visible(reads),
                 saver' = [saver EXCEPT ![s].at = "reload", ![s].copy = SetToSeq(seen)]
          PROVE  \E row \in SaverRow : row.at = "reload" /\ saver' = [saver EXCEPT ![s] = row]
      <4>1. seen \subseteq ToSet(rows) /\ ToSet(rows) \subseteq RowKeys /\ IsFiniteSet(ToSet(rows))
        BY <1>2, <1>5, ReadsRows, ElementsOf
      <4>2. IsFiniteSet(seen)
        BY <4>1, FS_Subset
      <4>3. SetToSeq(seen) \in Seq(seen)
        BY <4>2, ListingOf
      <4>4. SetToSeq(seen) \in Seq(RowKeys)
        BY <4>1, <4>3
      <4>. DEFINE row == [saver[s] EXCEPT !.at = "reload", !.copy = SetToSeq(seen)]
      <4>5. row \in SaverRow /\ row.at = "reload"
        BY <1>5, <4>4 DEF SaverRow, SaverPlaces
      <4>6. saver' = [saver EXCEPT ![s] = row]
        BY <1>5, <3>1, ZenonT(30)
      <4>. HIDE DEF row
      <4>. QED
        BY <4>5, <4>6
    <3>2. CASE saver' = [saver EXCEPT ![s].at = "reload"]
      <4>. DEFINE row == [saver[s] EXCEPT !.at = "reload"]
      <4>1. row \in SaverRow /\ row.at = "reload"
        BY <1>5 DEF SaverRow, SaverPlaces
      <4>2. saver' = [saver EXCEPT ![s] = row]
        BY <1>5, <3>2, ZenonT(30)
      <4>. HIDE DEF row
      <4>. QED
        BY <4>1, <4>2
    <3>. QED
      BY <1>7, <3>1, <3>2 DEF ReloadReads
  <2>2. PICK row \in SaverRow : row.at = "reload" /\ saver' = [saver EXCEPT ![s] = row]
    BY <2>1
  <2>3. /\ saver' \in [Savers -> SaverRow'] /\ saver'[s].at = "reload"
        /\ \A o \in Savers : o # s => saver'[o] = saver[o]
    BY <1>1, <1>2, <1>3, <2>2, SaverSteps
  <2>4. UNCHANGED memory /\ Copied
    BY <1>7 DEF ReloadReads
  <2>5. RecordTypes' /\ SaverKnows'
    BY <1>1, <1>2, <1>3, <2>3, <2>4 DEF RecordTypes, SaverKnows, Copied
  <2>. QED
    BY <1>4, <2>5 DEF RecordInv
<1>. QED
  BY <1>6, <1>7

\* Every step keeps the invariant.
LEMMA RecordStep == RecordInv /\ [RecNext]_recVars => RecordInv'
<1>. SUFFICES ASSUME RecordInv, [RecNext]_recVars PROVE RecordInv'
  OBVIOUS
<1>1. CASE UNCHANGED recVars
  BY <1>1 DEF recVars, RecordInv, RecordTypes, SaverKnows, RowsAreKept, SaverRow, Kept, IsFile,
              Guarded, Facade, Copied
<1>2. ASSUME NEW s \in Savers, NEW k \in RowKeys, SaveRow(s, k) \/ RecordEntitlement(s, k)
      PROVE  RecordInv'
  BY <1>2, SavingKeeps
<1>3. ASSUME NEW s \in Savers, LockFile(s)
      PROVE  RecordInv'
  BY <1>3, SavingKeeps
<1>. QED
  BY <1>1, <1>2, <1>3, PassingKeeps, LoadingKeeps, TimingOutKeeps, WholeKeeps, WritingKeeps, UpsertKeeps, LookingKeeps,
     ReloadingKeeps DEF RecNext

\* While no reload and no save of a replaced list is under way, the list in
\* memory has every payment written and every payment being saved; and what a
\* reload has read, or a replaced list holds, has those that did not race.
Steady == written \ raced

ListInv ==
  Listed =>
    /\ Steady \subseteq ToSet(rows) /\ Steady \subseteq memory
    /\ \A o \in Savers : saver[o].at \in {"reload", "replaced"} => Steady \subseteq ToSet(saver[o].copy)
    /\ Reloading => Saving \subseteq raced
    /\ Saving \ raced \subseteq memory
    /\ \A o \in Savers : saver[o].at = "write" => saver[o].copy = rows

\* The file of the payments has one way to be kept: under its lock.
LEMMA ListedLocks ==
  ASSUME RecordInv, Listed
  PROVE  /\ engine.table = "payment_events" /\ IsFile
         /\ Kept = {JsonPayments} /\ JsonPayments.locks /\ JsonPayments.reads = "all"
         /\ \A o \in Savers : saver[o].at \in {"load", "write"} => fileLock = o
<1>1. engine.backend = "json" /\ engine.table = "payment_events" /\ IsFile
  BY DEF Listed, IsFile
<1>2. Kept = {JsonPayments} /\ JsonPayments.locks /\ JsonPayments.reads = "all"
  BY <1>1 DEF Kept, KeepsOf, JsonKeeps, JsonPayments, File
<1>. QED
  BY <1>1, <1>2 DEF RecordInv, SaverKnows

\* A list was one of payments without a failed read before the step, too.
LEMMA ListedBefore ==
  ASSUME RecordTypes, UNCHANGED engine, Listed',
         storeFaults' = storeFaults \/ Fault("read") \/ Fault("write")
  PROVE  Listed /\ ~Fault("read") /\ IsFile /\ engine.table = "payment_events"
<1>1. ASSUME NEW kind \in {"read", "write"}, Fault(kind)
      PROVE  ToSet(storeFaults') = ToSet(storeFaults) \cup {kind}
  BY <1>1, FaultsStay DEF Fault, RecordTypes
<1>2. IsFile' = IsFile
  BY DEF IsFile
<1>. QED
  BY <1>1, <1>2 DEF Listed

\* The steps that leave the list, the file and the notes on it as they are.
LEMMA ListStays ==
  ASSUME RecordInv, ListInv, UNCHANGED <<engine, rows, memory, written, raced>>,
         storeFaults' = storeFaults \/ Fault("read") \/ Fault("write"), NEW s \in Savers,
         \A o \in Savers : o # s => saver'[o] = saver[o],
         saver'[s].key = saver[s].key,
         \/ saver'[s].at \in {"entered", "whole", "done"}
         \/ saver[s].at = "lock" /\ saver'[s].at = "load"
         \/ saver[s].at = "load" /\ saver'[s].at = "write" /\ (saver'[s].copy = rows \/ Fault("read"))
  PROVE  ListInv'
<1>. SUFFICES ASSUME Listed' PROVE ListInv'
  BY DEF ListInv
<1>1. Listed /\ ~Fault("read")
  BY ListedBefore DEF RecordInv
<1>2. Saving' \subseteq Saving
  BY DEF Saving
<1>3. Reloading' => Reloading
  BY DEF Reloading
<1>. QED
  BY <1>1, <1>2, <1>3 DEF ListInv, Steady

\* A payment is appended to the list, before it is saved.
LEMMA PaymentAppendingKeeps ==
  ASSUME RecordInv, ListInv, NEW s \in Savers, NEW k \in RowKeys, SaveRow(s, k)
  PROVE  ListInv'
<1>. SUFFICES ASSUME Listed' PROVE ListInv'
  BY DEF ListInv
<1>1. UNCHANGED <<engine, rows, fileLock, written, storeFaults>> /\ At(s, "idle")
  BY DEF SaveRow
<1>2. Listed /\ IsFile /\ engine.table = "payment_events"
  BY <1>1, ListedBefore DEF RecordInv
<1>3. memory' = memory \cup {k} /\ raced' = (IF Reloading THEN raced \cup {k} ELSE raced)
  BY <1>2 DEF SaveRow, Races
<1>4. /\ saver'[s].at \in {"lock", "load"} /\ saver'[s].key = k
      /\ \A o \in Savers : o # s => saver'[o] = saver[o]
  <2>1. PICK keep \in Kept :
          saver' = [saver EXCEPT ![s] = [at |-> IF keep.locks THEN "lock" ELSE "load",
                                         key |-> k, keep |-> keep, copy |-> <<>>]]
    BY <1>2 DEF SaveRow, Kept
  <2>. QED
    BY <2>1 DEF RecordInv, RecordTypes
<1>5. Saving' \subseteq Saving \cup {k}
  BY <1>4 DEF Saving
<1>6. Reloading' => Reloading
  BY <1>1, <1>4 DEF Reloading
<1>. QED
  BY <1>1, <1>2, <1>3, <1>4, <1>5, <1>6 DEF ListInv, Steady

\* The list is saved as a whole, or one that a reload has replaced.
LEMMA WholeListKeeps ==
  ASSUME RecordInv, ListInv, NEW s \in Savers, SaveWhole(s)
  PROVE  ListInv'
<1>. SUFFICES ASSUME Listed' PROVE ListInv'
  BY DEF ListInv
<1>1. /\ UNCHANGED <<engine, memory, fileLock>> /\ saver[s].at \in {"whole", "replaced"}
      /\ IsFile => fileLock = NoSaver
      /\ storeFaults' = storeFaults \/ Fault("write")
  BY DEF SaveWhole
<1>2. Listed /\ IsFile /\ engine.table = "payment_events"
  BY <1>1, ListedBefore DEF RecordInv
<1>3. /\ saver'[s].at = "done" /\ saver'[s].key = saver[s].key
      /\ \A o \in Savers : o # s => saver'[o] = saver[o]
  BY SaverMovesOn, GuardedBefore, <1>1 DEF SaveWhole, RecordInv, SaverPlaces
<1>4. \A o \in Savers : saver[o].at # "write"
  BY <1>1, <1>2, ListedLocks, RecordAssumption
<1>5. CASE UNCHANGED <<rows, written, raced>>
  BY <1>1, <1>3, <1>5, ListStays
<1>6. CASE /\ rows' = SetToSeq(Passed(s)) /\ written' = written \cup Passed(s)
           /\ Races(Passed(s) \ written)
  <2>. DEFINE copy == Passed(s)
  <2>1. ToSet(rows') = copy
    BY <1>6, PassedIs, ListingOf DEF RecordInv
  <2>2. Steady \subseteq copy
    BY <1>1, <1>2 DEF Passed, At, ListInv
  <2>3. raced' = (IF Reloading THEN raced \cup (copy \ written) ELSE raced)
    BY <1>2, <1>6 DEF Races
  <2>4. saver[s].at = "replaced" => Reloading
    BY DEF Reloading
  <2>5. saver[s].at = "whole" => copy = memory
    BY DEF Passed, At
  <2>6. Steady' \subseteq copy /\ Steady' \subseteq memory /\ (Reloading => Steady' \subseteq Steady)
    BY <1>1, <1>2, <1>6, <2>2, <2>3, <2>4, <2>5 DEF ListInv, Steady
  <2>. HIDE DEF copy
  <2>7. Saving' \subseteq Saving
    BY <1>3 DEF Saving
  <2>8. Reloading' => Reloading
    BY <1>3 DEF Reloading
  <2>9. \A o \in Savers : saver'[o].at \in {"reload", "replaced"} => saver'[o] = saver[o] /\ Reloading
    BY <1>3 DEF Reloading
  <2>10. \A o \in Savers : saver'[o].at # "write"
    BY <1>3, <1>4
  <2>11. raced \subseteq raced'
    BY <2>3
  <2>. QED
    BY <1>1, <1>2, <2>1, <2>6, <2>7, <2>8, <2>9, <2>10, <2>11 DEF ListInv
<1>. QED
  BY <1>1, <1>2, <1>5, <1>6 DEF SaveWhole

\* One payment is written into the file.
LEMMA PaymentWritingKeeps ==
  ASSUME RecordInv, ListInv, NEW s \in Savers, WriteFile(s)
  PROVE  ListInv'
<1>. SUFFICES ASSUME Listed' PROVE ListInv'
  BY DEF ListInv
<1>1. /\ UNCHANGED <<engine, memory, raced>> /\ saver[s].at = "write"
      /\ storeFaults' = storeFaults \/ Fault("write")
  BY DEF WriteFile, At
<1>2. Listed /\ IsFile /\ engine.table = "payment_events"
  BY <1>1, ListedBefore DEF RecordInv
<1>3. /\ saver'[s].at = "done" /\ saver'[s].key = saver[s].key
      /\ \A o \in Savers : o # s => saver'[o] = saver[o]
  BY SaverMovesOn, GuardedBefore, <1>1 DEF WriteFile, RecordInv, SaverPlaces
<1>4. \A o \in Savers : o # s => saver[o].at # "write"
  BY <1>1, <1>2, ListedLocks
<1>5. CASE UNCHANGED <<rows, written>>
  BY <1>1, <1>3, <1>5, ListStays
<1>6. CASE rows' = With(saver[s].copy, saver[s].key) /\ written' = written \cup {saver[s].key}
  <2>1. saver[s].copy = rows /\ rows \in Seq(RowKeys) /\ saver[s].key \in RowKeys
    BY <1>1, <1>2 DEF ListInv, RecordInv, RecordTypes, SaverKnows
  <2>2. ToSet(rows') = ToSet(rows) \cup {saver[s].key}
    BY <1>6, <2>1, WithAdds
  <2>3. saver[s].key \in Saving
    BY <1>1 DEF Saving
  <2>4. saver[s].key \in raced \/ (saver[s].key \in memory /\ ~Reloading)
    BY <1>2, <2>3 DEF ListInv
  <2>5. Saving' \subseteq Saving
    BY <1>3 DEF Saving
  <2>6. Reloading' => Reloading
    BY <1>3 DEF Reloading
  <2>7. \A o \in Savers : saver'[o].at \in {"reload", "replaced"} => saver'[o] = saver[o] /\ Reloading
    BY <1>3 DEF Reloading
  <2>8. \A o \in Savers : saver'[o].at # "write"
    BY <1>3, <1>4
  <2>9. Steady' \subseteq Steady \cup {saver[s].key} /\ (Reloading => Steady' \subseteq Steady)
    BY <1>1, <1>6, <2>4 DEF Steady
  <2>10. /\ Steady' \subseteq ToSet(rows')
         /\ Steady' \subseteq memory'
    BY <1>1, <1>2, <1>6, <2>2, <2>4 DEF ListInv, Steady
  <2>. QED
    BY <1>1, <1>2, <2>5, <2>6, <2>7, <2>8, <2>9, <2>10 DEF ListInv
<1>. QED
  BY <1>5, <1>6 DEF WriteFile

\* The list is read again, and takes the place of the one in memory.
LEMMA ListReloadingKeeps ==
  ASSUME RecordInv, ListInv, NEW s \in Savers, ReloadReads(s) \/ ReloadTakes(s)
  PROVE  ListInv'
<1>. SUFFICES ASSUME Listed' PROVE ListInv'
  BY DEF ListInv
<1>1. UNCHANGED <<engine, rows, written>> /\ (storeFaults' = storeFaults \/ Fault("read"))
  BY DEF ReloadReads, ReloadTakes
<1>2. Listed /\ ~Fault("read") /\ IsFile /\ engine.table = "payment_events"
  BY <1>1, ListedBefore DEF RecordInv
<1>3. saver \in [Savers -> SaverRow] /\ rows \in Seq(RowKeys) /\ memory \subseteq RowKeys /\ IsFiniteSet(memory)
  BY DEF RecordInv, RecordTypes
<1>4. CASE ReloadReads(s)
  <2>1. raced' = raced \cup Saving /\ UNCHANGED memory
    BY <1>2, <1>4 DEF ReloadReads
  <2>2. saver' = [saver EXCEPT ![s].at = "reload", ![s].copy = SetToSeq(ToSet(rows))]
    <3>1. PICK keep \in Kept : \E seen \in Visible(keep.reads) :
            saver' = [saver EXCEPT ![s].at = "reload", ![s].copy = SetToSeq(seen)]
      BY <1>2, <1>4 DEF ReloadReads, Kept
    <3>2. keep.reads = "all"
      BY <1>2, ListedLocks
    <3>3. Visible(keep.reads) = {ToSet(rows)}
      BY <3>2 DEF Visible
    <3>. QED
      BY <3>1, <3>3
  <2>3. ToSet(SetToSeq(ToSet(rows))) = ToSet(rows)
    <3>1. IsFiniteSet(ToSet(rows))
      BY <1>3, ElementsOf
    <3>. QED
      BY <3>1, ListingOf
  <2>4. /\ saver'[s].at = "reload" /\ ToSet(saver'[s].copy) = ToSet(rows)
        /\ \A o \in Savers : o # s => saver'[o] = saver[o]
    BY <1>3, <2>2, <2>3 DEF SaverRow
  <2>5. Saving' \subseteq Saving
    BY <2>4 DEF Saving
  <2>6. Steady' \subseteq Steady
    BY <1>1, <2>1 DEF Steady
  <2>. QED
    BY <1>1, <1>2, <2>1, <2>4, <2>5, <2>6 DEF ListInv
<1>5. CASE ReloadTakes(s)
  <2>1. /\ saver[s].at = "reload" /\ memory' = ToSet(saver[s].copy) /\ raced' = raced
        /\ saver' = [o \in Savers |->
             IF o = s THEN [saver[o] EXCEPT !.at = "done"]
             ELSE IF saver[o].at = "whole"
                  THEN [saver[o] EXCEPT !.at = "replaced", !.copy = SetToSeq(memory)]
                  ELSE saver[o]]
    BY <1>5 DEF ReloadTakes, At
  <2>2. Reloading /\ Steady' = Steady
    BY <1>1, <2>1 DEF Reloading, Steady
  <2>3. ToSet(SetToSeq(memory)) = memory
    BY <1>3, ListingOf
  <2>4. \A o \in Savers :
          \/ saver'[o].at = "done"
          \/ saver'[o].at = "replaced" /\ ToSet(saver'[o].copy) = memory
          \/ saver'[o] = saver[o]
    BY <1>3, <2>1, <2>3 DEF SaverRow
  <2>5. Saving' \subseteq Saving
    BY <2>4 DEF Saving
  <2>6. Saving \subseteq raced /\ Steady \subseteq memory /\ Steady \subseteq memory'
    BY <1>2, <2>1, <2>2 DEF ListInv
  <2>. QED
    BY <1>1, <1>2, <2>1, <2>2, <2>4, <2>5, <2>6 DEF ListInv
<1>. QED
  BY <1>4, <1>5

\* Every step keeps the list and what is said of it.
LEMMA ListStep == RecordInv /\ ListInv /\ [RecNext]_recVars => ListInv'
<1>. SUFFICES ASSUME RecordInv, ListInv, [RecNext]_recVars, Listed' PROVE ListInv'
  BY DEF ListInv
<1>1. CASE UNCHANGED recVars
  BY <1>1 DEF recVars, ListInv, Listed, IsFile, Steady, Reloading, Saving
<1>2. ASSUME NEW s \in Savers, NEW k \in RowKeys, RecordEntitlement(s, k) PROVE ListInv'
  BY <1>2 DEF RecordEntitlement, Listed
<1>3. ASSUME NEW s \in Savers, UpsertRow(s) PROVE ListInv'
  <2>1. UNCHANGED engine /\ ~IsFile
    BY <1>3 DEF UpsertRow, At, RecordInv, SaverKnows
  <2>. QED
    BY <2>1 DEF Listed, IsFile
<1>4. ASSUME NEW s \in Savers,
             \/ \E k \in RowKeys : LookUp(s, k)
             \/ RefreshPayments(s) \/ PassCopy(s) \/ LockFile(s) \/ LockTimesOut(s)
      PROVE  ListInv'
  <2>1. /\ UNCHANGED <<engine, rows, memory, written, raced>>
        /\ storeFaults' = storeFaults \/ Fault("read")
    BY <1>4 DEF LookUp, RefreshPayments, PassCopy, LockFile, LockTimesOut
  <2>2. SaverRow' = SaverRow /\ RecordTypes
    BY <2>1, GuardedBefore DEF RecordInv
  <2>3. \/ saver[s].at = "lock" /\ Moves(s, "load")
        \/ Moves(s, "entered") \/ Moves(s, "whole") \/ Moves(s, "done")
    BY <1>4 DEF LookUp, RefreshPayments, PassCopy, LockFile, LockTimesOut, At
  <2>4. \A step \in {"load", "entered", "whole", "done"} : Moves(s, step) =>
          /\ saver'[s].at = step /\ saver'[s].key = saver[s].key
          /\ \A o \in Savers : o # s => saver'[o] = saver[o]
    BY <2>1, <2>2, SaverMovesOn DEF SaverPlaces
  <2>. QED
    BY <2>1, <2>3, <2>4, ListStays
<1>5. ASSUME NEW s \in Savers, LoadFile(s) PROVE ListInv'
  <2>1. /\ UNCHANGED <<engine, rows, memory, written, raced>> /\ saver[s].at = "load"
        /\ storeFaults' = storeFaults \/ Fault("read")
    BY <1>5 DEF LoadFile, At
  <2>2. saver \in [Savers -> SaverRow]
    BY DEF RecordInv, RecordTypes
  <2>3. /\ saver'[s].at = "write" /\ saver'[s].key = saver[s].key
        /\ saver'[s].copy = rows \/ Fault("read")
        /\ \A o \in Savers : o # s => saver'[o] = saver[o]
    BY <1>5, <2>2 DEF LoadFile, SaverRow
  <2>. QED
    BY <2>1, <2>3, ListStays
<1>. QED
  BY <1>1, <1>2, <1>3, <1>4, <1>5, PaymentAppendingKeeps, WholeListKeeps, PaymentWritingKeeps,
     ListReloadingKeeps DEF RecNext

\* A row that was written stays and is found by every lookup within its limit,
\* whoever else saves, in a database and in the file of the invoices while no
\* read fails; a payment in its file, which is replaced by the list in memory,
\* unless its save ran beside a reload of the list or the save of a replaced
\* one; and who was told that a row is saved can rely on it, unless failures
\* are only logged (repositories/storage.py, json_store.py, circle_client.py).
THEOREM RowsStay == RecSpec => []SavedRowsStay
<1>1. RecInit => RecordInv /\ ListInv
  <2>. SUFFICES ASSUME RecInit PROVE RecordInv /\ ListInv
    OBVIOUS
  <2>1. RecordTypes
    BY FS_EmptySet DEF RecInit, RecordTypes, NoRow, SaverRow, SaverPlaces
  <2>2. SaverKnows /\ RowsAreKept
    BY DEF RecInit, SaverKnows, RowsAreKept, NoRow
  <2>3. Steady = {} /\ Saving = {} /\ \A o \in Savers : saver[o].at = "idle"
    BY DEF RecInit, Steady, Saving, NoRow
  <2>4. ListInv
    BY <2>3 DEF ListInv
  <2>. QED
    BY <2>1, <2>2, <2>4 DEF RecordInv
<1>2. RecordInv /\ ListInv => SavedRowsStay
  BY DEF RecordInv, ListInv, Steady, PaymentsAreKept, SavedRowsStay
<1>. QED
  BY <1>1, <1>2, RecordStep, ListStep, PTL DEF RecSpec

-----------------------------------------------------------------------------
(***************************************************************************)
(* Request limits.  While no more keys are busy than buckets are kept and  *)
(* no restart has emptied them, the bucket of a key holds all of its       *)
(* requests that still count.                                              *)
(***************************************************************************)
(* More keys than are kept were busy in the window that ends then.           *)
BusyAt(u) ==
  Cardinality(KeysWithin(IF u < LimitWindow THEN 0 ELSE u - LimitWindow, u)) > BucketsMax
Crowded(t) == \E u \in t..(t + LimitWindow) : BusyAt(u)

(* The windows in which a bucket was lost.                                   *)
Excused(t) == RestartedIn(t, t + LimitWindow) \/ Crowded(t)

(* The requests of a key since a time, and in the window that begins then.   *)
Since(k, t) == {r \in served : r.key = k /\ r.time >= t}
InWindow(k, t) == {r \in Within(t, t + LimitWindow) : r.key = k}

(* What requests and buckets are; a key has one bucket.                      *)
BucketTypes ==
  /\ limitClock \in Nat /\ IsFiniteSet(served) /\ IsFiniteSet(buckets)
  /\ \A r \in served : r.key \in LimitKeys /\ r.time \in 0..limitClock
  /\ \A b \in buckets : b.requests \subseteq served /\ \A r \in b.requests : r.key = b.key
  /\ \A b, c \in buckets : b.key = c.key => b = c

(* What was let through in a window that has not ended is in the bucket.     *)
BucketsHold ==
  \A t \in Nat, k \in LimitKeys :
    limitClock <= t + LimitWindow /\ ~Excused(t) =>
      Since(k, t) \subseteq UNION {b.requests : b \in Own(k)}

(* In every window, ended or not, a key stays within its limit.              *)
KeysLimited ==
  \A t \in Nat, k \in LimitKeys :
    ~Excused(t) => Cardinality(InWindow(k, t)) <= PerWindow[k[1]]

RequestsInv == BucketTypes /\ BucketsHold /\ KeysLimited

LEMMA KeysHaveLimits ==
  ASSUME NEW k \in LimitKeys
  PROVE  PerWindow[k[1]] \in Nat
BY LimitAssumption DEF LimitKeys, KeyOf

(* A time that was crowded remains so: the requests let through only grow.   *)
LEMMA CrowdsStay ==
  ASSUME IsFiniteSet(served'), served \subseteq served', NEW t, Crowded(t)
  PROVE  Crowded(t)'
<1>1. PICK u \in t..(t + LimitWindow) : BusyAt(u)
  BY DEF Crowded
<1>. DEFINE from == IF u < LimitWindow THEN 0 ELSE u - LimitWindow
<1>2. KeysWithin(from, u) \subseteq KeysWithin(from, u)'
  BY DEF KeysWithin, Within
<1>3. IsFiniteSet(Within(from, u)')
  BY FS_Subset DEF Within
<1>4. IsFiniteSet(KeysWithin(from, u)')
  <2>1. PICK R : R = Within(from, u)'
    OBVIOUS
  <2>2. PICK K : K = {r.key : r \in R}
    OBVIOUS
  <2>3. [r \in R |-> r.key] \in Surjection(R, K)
    BY <2>2 DEF Surjection
  <2>4. IsFiniteSet(K)
    BY <1>3, <2>1, <2>3, FS_Surjection
  <2>. QED
    BY <2>1, <2>2, <2>4 DEF KeysWithin
<1>5. /\ Cardinality(KeysWithin(from, u)) <= Cardinality(KeysWithin(from, u)')
      /\ Cardinality(KeysWithin(from, u)) \in Nat /\ Cardinality(KeysWithin(from, u)') \in Nat
  <2>1. PICK K : K = KeysWithin(from, u)
    OBVIOUS
  <2>2. PICK L : L = KeysWithin(from, u)'
    OBVIOUS
  <2>3. IsFiniteSet(L) /\ K \subseteq L
    BY <1>2, <1>4, <2>1, <2>2
  <2>4. IsFiniteSet(K) /\ Cardinality(K) <= Cardinality(L)
    BY <2>3, FS_Subset
  <2>5. Cardinality(K) \in Nat /\ Cardinality(L) \in Nat
    BY <2>3, <2>4, FS_CardinalityType
  <2>. QED
    BY <2>1, <2>2, <2>4, <2>5
<1>6. Cardinality(KeysWithin(from, u)) > BucketsMax
  BY <1>1 DEF BusyAt
<1>. HIDE DEF from
<1>7. Cardinality(KeysWithin(from, u)') > BucketsMax
  BY <1>5, <1>6, LimitAssumption
<1>8. BusyAt(u)'
  BY <1>7 DEF BusyAt, from
<1>. QED
  BY <1>1, <1>8 DEF Crowded

(* A bucket with an entry that counts is dropped only in a crowd.            *)
LEMMA DroppedInACrowd ==
  ASSUME NEW all, IsFiniteSet(all), limitClock \in Nat, limitClock' = limitClock,
         IsFiniteSet(served'),
         \A r \in served' : r.time \in 0..limitClock,
         \A b \in all : b.requests \subseteq served' /\ \A r \in b.requests : r.key = b.key,
         \A b, c \in all : b.key = c.key => b = c,
         NEW b \in all, b \notin Trimmed(all), ~Stale(b)
  PROVE  BusyAt(limitClock)'
<1>. DEFINE kept == {c \in all : ~Stale(c)}
            later == {c \in kept : c.since >= b.since}
            keys == {c.key : c \in kept}
            from == IF limitClock < LimitWindow THEN 0 ELSE limitClock - LimitWindow
<1>1. ~(Cardinality(later) <= BucketsMax)
  BY DEF Trimmed
<1>2. IsFiniteSet(kept) /\ IsFiniteSet(later)
  BY FS_Subset
<1>3. Cardinality(later) <= Cardinality(kept)
  <2>1. later \subseteq kept
    OBVIOUS
  <2>. HIDE DEF later, kept
  <2>. QED
    BY <1>2, <2>1, FS_Subset
<1>4. IsFiniteSet(keys) /\ Cardinality(keys) = Cardinality(kept)
  <2>. DEFINE f == [c \in kept |-> c.key]
  <2>1. f \in Bijection(kept, keys)
    BY DEF Bijection, Injection, Surjection, IsInjective
  <2>. HIDE DEF f, kept, keys
  <2>2. ExistsBijection(kept, keys)
    BY <2>1 DEF ExistsBijection
  <2>. QED
    BY <1>2, <2>2, FS_Bijection
<1>5. keys \subseteq KeysWithin(from, limitClock)'
  <2>. SUFFICES ASSUME NEW c \in kept PROVE c.key \in KeysWithin(from, limitClock)'
    OBVIOUS
  <2>1. PICK r \in c.requests : ~(limitClock - r.time > LimitWindow)
    BY DEF Stale
  <2>2. r \in served' /\ r.key = c.key /\ r.time \in 0..limitClock
    OBVIOUS
  <2>3. r.time \in from..limitClock
    BY <2>1, <2>2, LimitAssumption
  <2>. QED
    BY <2>2, <2>3 DEF KeysWithin, Within
<1>6. IsFiniteSet(KeysWithin(from, limitClock)')
  <2>1. PICK R : R = Within(from, limitClock)'
    OBVIOUS
  <2>2. PICK K : K = {r.key : r \in R}
    OBVIOUS
  <2>3. [r \in R |-> r.key] \in Surjection(R, K)
    BY <2>2 DEF Surjection
  <2>4. IsFiniteSet(R)
    BY <2>1, FS_Subset DEF Within
  <2>5. IsFiniteSet(K)
    BY <2>3, <2>4, FS_Surjection
  <2>. QED
    BY <2>1, <2>2, <2>5 DEF KeysWithin
<1>7. PICK K : K = KeysWithin(from, limitClock)'
  OBVIOUS
<1>. HIDE DEF kept, later, keys, from
<1>8. Cardinality(keys) <= Cardinality(K)
  BY <1>5, <1>6, <1>7, FS_Subset
<1>9. Cardinality(later) \in Nat /\ Cardinality(kept) \in Nat /\ Cardinality(K) \in Nat
  BY <1>2, <1>6, <1>7, FS_CardinalityType
<1>10. Cardinality(K) > BucketsMax
  BY <1>1, <1>3, <1>4, <1>8, <1>9, LimitAssumption
<1>. QED
  BY <1>7, <1>10 DEF BusyAt, from

(* The buckets after one was pruned or counted a request.                    *)
LEMMA BucketsAre ==
  ASSUME RequestsInv, NEW k, NEW requests
  PROVE  LET all == WithRequests(k, requests)
         IN /\ IsFiniteSet(all)
            /\ \E b \in all : b.key = k /\ b.requests = requests
            /\ \A b \in buckets : b.key # k => b \in all
            /\ \A b \in all : b.key = k => b.requests = requests
            /\ \A b \in all : b.key # k => b \in buckets
            /\ \A b, c \in all : b.key = c.key => b = c
<1>. DEFINE since == IF Own(k) = {} THEN NextNumber ELSE (CHOOSE b \in Own(k) : TRUE).since
            bucket == [key |-> k, since |-> since, requests |-> requests]
<1>1. WithRequests(k, requests) = (buckets \ Own(k)) \cup {bucket}
  BY DEF WithRequests
<1>2. bucket.key = k /\ bucket.requests = requests
  OBVIOUS
<1>. HIDE DEF since, bucket
<1>3. IsFiniteSet((buckets \ Own(k)) \cup {bucket})
  <2>1. IsFiniteSet(buckets \ Own(k))
    BY FS_Subset DEF RequestsInv, BucketTypes
  <2>. QED
    BY <2>1, FS_AddElement
<1>. QED
  BY <1>1, <1>2, <1>3 DEF Own, RequestsInv, BucketTypes

(* A request that is let through.                                            *)
LEMMA LettingThroughKeeps ==
  ASSUME RequestsInv, NEW a \in Addresses, NEW p \in Paths, AskPath(a, p),
         ~(Cardinality(CountedFor(KeyOf(a, p))) >= PerWindow[ScopeOf[p]])
  PROVE  RequestsInv'
<1>. DEFINE k == KeyOf(a, p)
            entered == [key |-> k, time |-> limitClock, number |-> NextNumber]
            counted == CountedFor(k)
            all == WithRequests(k, counted \cup {entered})
<1>1. /\ buckets' = Trimmed(all) /\ served' = served \cup {entered} /\ limitClock' = limitClock
      /\ restartedAt' = restartedAt
      /\ entered.key = k /\ entered.time = limitClock
  BY DEF AskPath
<1>2. k \in LimitKeys /\ k[1] = ScopeOf[p]
  BY DEF LimitKeys, KeyOf
<1>3. /\ counted \subseteq served /\ \A r \in counted : r.key = k
      /\ \A r \in served : limitClock <= r.time + LimitWindow
           /\ r \in UNION {b.requests : b \in Own(k)} => r \in counted
  BY LimitAssumption DEF CountedFor, StillCounted, Own, RequestsInv, BucketTypes
<1>. HIDE DEF k, entered, counted
<1>4. /\ IsFiniteSet(all)
      /\ \E b \in all : b.key = k /\ b.requests = counted \cup {entered}
      /\ \A b \in buckets : b.key # k => b \in all
      /\ \A b \in all : b.key = k => b.requests = counted \cup {entered}
      /\ \A b \in all : b.key # k => b \in buckets
      /\ \A b, c \in all : b.key = c.key => b = c
  BY BucketsAre
<1>. HIDE DEF all
<1>5. /\ limitClock \in Nat /\ IsFiniteSet(served')
      /\ \A r \in served' : r.key \in LimitKeys /\ r.time \in 0..limitClock
  <2>1. IsFiniteSet(served \cup {entered})
    BY FS_AddElement DEF RequestsInv, BucketTypes
  <2>. QED
    BY <1>1, <1>2, <2>1 DEF RequestsInv, BucketTypes
<1>6. \A b \in all : b.requests \subseteq served' /\ \A r \in b.requests : r.key = b.key
  BY <1>1, <1>3, <1>4 DEF RequestsInv, BucketTypes
<1>7. Trimmed(all) \subseteq all
  BY DEF Trimmed
<1>8. BucketTypes'
  <2>1. IsFiniteSet(buckets')
    BY <1>1, <1>4, <1>7, FS_Subset
  <2>. QED
    BY <1>1, <1>4, <1>5, <1>6, <1>7, <2>1 DEF BucketTypes
<1>9. \A t : ~Excused(t)' => ~Excused(t)
  BY <1>1, <1>5, CrowdsStay DEF Excused, RestartedIn
<1>10. ASSUME NEW t \in Nat, limitClock <= t + LimitWindow, t <= limitClock, ~Excused(t)'
       PROVE  \A b \in all : b \in buckets' \/ Stale(b)
  <2>1. limitClock \in t..(t + LimitWindow)
    BY <1>5, <1>10, LimitAssumption
  <2>2. ~BusyAt(limitClock)'
    BY <1>1, <1>10, <2>1 DEF Excused, Crowded
  <2>. QED
    BY <1>1, <1>4, <1>5, <1>6, <2>2, DroppedInACrowd
<1>11. BucketsHold'
  <2>. SUFFICES ASSUME NEW t \in Nat, NEW j \in LimitKeys,
                       (limitClock <= t + LimitWindow)', ~Excused(t)',
                       NEW r \in Since(j, t)'
                PROVE  r \in UNION {b.requests : b \in Own(j)'}
    BY DEF BucketsHold, LimitKeys, KeyOf
  <2>1. /\ r \in served' /\ r.key = j /\ r.time >= t /\ r.time \in 0..limitClock
        /\ t <= limitClock /\ limitClock <= t + LimitWindow
    BY <1>1, <1>5 DEF Since
  <2>2. PICK b \in all : b.key = j /\ r \in b.requests
    <3>1. CASE r = entered
      BY <1>1, <1>4, <2>1, <3>1
    <3>2. CASE r # entered
      <4>1. r \in Since(j, t)
        BY <1>1, <2>1, <3>2 DEF Since
      <4>2. ~Excused(t)
        BY <1>9
      <4>3. r \in UNION {b.requests : b \in Own(j)}
        BY <2>1, <4>1, <4>2 DEF RequestsInv, BucketsHold
      <4>4. CASE j = k
        <5>1. limitClock <= r.time + LimitWindow
          BY <1>5, <2>1, LimitAssumption
        <5>2. r \in served
          BY <4>1 DEF Since
        <5>3. r \in counted
          BY <1>3, <4>3, <4>4, <5>1, <5>2
        <5>. QED
          BY <1>4, <4>4, <5>3
      <4>5. CASE j # k
        BY <1>4, <4>3, <4>5 DEF Own
      <4>. QED
        BY <4>4, <4>5
    <3>. QED
      BY <3>1, <3>2
  <2>3. ~Stale(b)
    BY <1>5, <2>1, <2>2, LimitAssumption DEF Stale
  <2>4. b \in buckets'
    BY <1>10, <2>1, <2>3
  <2>. QED
    BY <2>2, <2>4 DEF Own
<1>12. KeysLimited'
  <2>. SUFFICES ASSUME NEW t \in Nat, NEW j \in LimitKeys, ~Excused(t)'
                PROVE  Cardinality(InWindow(j, t)') <= PerWindow[j[1]]
    BY DEF KeysLimited, LimitKeys, KeyOf
  <2>1. Cardinality(InWindow(j, t)) <= PerWindow[j[1]]
    BY <1>9 DEF RequestsInv, KeysLimited
  <2>2. CASE j # k \/ ~(limitClock \in t..(t + LimitWindow))
    <3>1. InWindow(j, t)' = InWindow(j, t)
      BY <1>1, <2>2 DEF InWindow, Within
    <3>. QED
      BY <2>1, <3>1
  <2>3. CASE j = k /\ limitClock \in t..(t + LimitWindow)
    <3>1. limitClock <= t + LimitWindow /\ t <= limitClock
      BY <1>5, <2>3, LimitAssumption
    <3>2. Since(k, t) \subseteq counted
      <4>1. Since(k, t) \subseteq UNION {b.requests : b \in Own(k)}
        BY <1>2, <1>9, <3>1 DEF RequestsInv, BucketsHold
      <4>2. \A r \in Since(k, t) : r \in served /\ limitClock <= r.time + LimitWindow
        BY <1>5, <3>1, LimitAssumption DEF Since, RequestsInv, BucketTypes
      <4>. QED
        BY <1>3, <4>1, <4>2
    <3>3. InWindow(j, t)' \subseteq counted \cup {entered}
      BY <1>1, <2>3, <3>2 DEF InWindow, Within, Since
    <3>4. IsFiniteSet(counted)
      BY <1>3, FS_Subset DEF RequestsInv, BucketTypes
    <3>5. /\ IsFiniteSet(counted \cup {entered}) /\ Cardinality(counted) \in Nat
          /\ Cardinality(counted \cup {entered}) <= Cardinality(counted) + 1
          /\ Cardinality(counted \cup {entered}) \in Nat
      <4>1. IsFiniteSet(counted \cup {entered})
        BY <3>4, FS_AddElement
      <4>2. Cardinality(counted \cup {entered}) =
              IF entered \in counted THEN Cardinality(counted) ELSE Cardinality(counted) + 1
        BY <3>4, FS_AddElement
      <4>. QED
        BY <3>4, <4>1, <4>2, FS_CardinalityType
    <3>6. PICK W : W = InWindow(j, t)'
      OBVIOUS
    <3>7. Cardinality(W) <= Cardinality(counted \cup {entered}) /\ Cardinality(W) \in Nat
      BY <3>3, <3>5, <3>6, FS_Subset, FS_CardinalityType
    <3>8. ~(Cardinality(counted) >= PerWindow[k[1]]) /\ PerWindow[k[1]] \in Nat
      BY <1>2, KeysHaveLimits DEF counted, k
    <3>. QED
      BY <2>3, <3>5, <3>6, <3>7, <3>8
  <2>. QED
    BY <2>2, <2>3
<1>. QED
  BY <1>8, <1>11, <1>12 DEF RequestsInv

(* A request that is refused: the bucket is pruned only.                     *)
LEMMA RefusingKeeps ==
  ASSUME RequestsInv, NEW a \in Addresses, NEW p \in Paths, AskPath(a, p),
         Cardinality(CountedFor(KeyOf(a, p))) >= PerWindow[ScopeOf[p]]
  PROVE  RequestsInv'
<1>. DEFINE k == KeyOf(a, p)
            counted == CountedFor(k)
            all == WithRequests(k, counted)
<1>1. /\ buckets' = all /\ served' = served /\ limitClock' = limitClock
      /\ restartedAt' = restartedAt
  BY DEF AskPath
<1>2. /\ counted \subseteq served /\ \A r \in counted : r.key = k
      /\ \A r \in served : limitClock <= r.time + LimitWindow
           /\ r \in UNION {b.requests : b \in Own(k)} => r \in counted
  BY LimitAssumption DEF CountedFor, StillCounted, Own, RequestsInv, BucketTypes
<1>. HIDE DEF k, counted
<1>3. /\ IsFiniteSet(all)
      /\ \E b \in all : b.key = k /\ b.requests = counted
      /\ \A b \in buckets : b.key # k => b \in all
      /\ \A b \in all : b.key = k => b.requests = counted
      /\ \A b \in all : b.key # k => b \in buckets
      /\ \A b, c \in all : b.key = c.key => b = c
  BY BucketsAre
<1>. HIDE DEF all
<1>4. BucketTypes'
  BY <1>1, <1>2, <1>3 DEF RequestsInv, BucketTypes
<1>5. \A t : Excused(t)' <=> Excused(t)
  BY <1>1 DEF Excused, RestartedIn, Crowded, BusyAt, KeysWithin, Within
<1>6. BucketsHold'
  <2>. SUFFICES ASSUME NEW t \in Nat, NEW j \in LimitKeys,
                       (limitClock <= t + LimitWindow)', ~Excused(t)',
                       NEW r \in Since(j, t)'
                PROVE  r \in UNION {b.requests : b \in Own(j)'}
    BY DEF BucketsHold, LimitKeys, KeyOf
  <2>1. r \in Since(j, t) /\ limitClock <= t + LimitWindow /\ ~Excused(t)
    BY <1>1, <1>5 DEF Since
  <2>2. r \in UNION {b.requests : b \in Own(j)}
    BY <2>1 DEF RequestsInv, BucketsHold
  <2>3. r \in served /\ limitClock <= r.time + LimitWindow
    BY <2>1, LimitAssumption DEF Since, RequestsInv, BucketTypes
  <2>4. CASE j = k
    BY <1>1, <1>2, <1>3, <2>2, <2>3, <2>4 DEF Own
  <2>5. CASE j # k
    BY <1>1, <1>3, <2>2, <2>5 DEF Own
  <2>. QED
    BY <2>4, <2>5
<1>7. KeysLimited'
  <2>1. \A t, j : InWindow(j, t)' = InWindow(j, t)
    BY <1>1 DEF InWindow, Within
  <2>. SUFFICES ASSUME NEW t \in Nat, NEW j \in LimitKeys, ~Excused(t)'
                PROVE  Cardinality(InWindow(j, t)') <= PerWindow[j[1]]
    BY DEF KeysLimited, LimitKeys, KeyOf
  <2>. QED
    BY <1>5, <2>1 DEF RequestsInv, KeysLimited
<1>. QED
  BY <1>4, <1>6, <1>7 DEF RequestsInv

(* Every step of the specification keeps the requests within their limits.   *)
LEMMA RequestsStep ==
  ASSUME RequestsInv, [LimitNext]_limitVars
  PROVE  RequestsInv'
<1>1. CASE UNCHANGED <<limitClock, restartedAt, requestVars>>
  <2>1. limitClock' = limitClock /\ buckets' = buckets /\ served' = served /\ restartedAt' = restartedAt
    BY <1>1 DEF requestVars
  <2>2. BucketTypes'
    BY <2>1 DEF RequestsInv, BucketTypes, LimitKeys
  <2>3. \A t : Excused(t)' <=> Excused(t)
    BY <2>1 DEF Excused, RestartedIn, Crowded, BusyAt, KeysWithin, Within
  <2>4. \A t, k : Since(k, t)' = Since(k, t) /\ InWindow(k, t)' = InWindow(k, t) /\ Own(k)' = Own(k)
    BY <2>1 DEF Since, InWindow, Within, Own
  <2>. HIDE DEF Excused
  <2>5. BucketsHold'
    BY <2>1, <2>3, <2>4 DEF RequestsInv, BucketsHold, LimitKeys, KeyOf
  <2>6. KeysLimited'
    BY <2>3, <2>4 DEF RequestsInv, KeysLimited, LimitKeys, KeyOf
  <2>. QED
    BY <2>2, <2>5, <2>6 DEF RequestsInv
<1>2. CASE LimitTick
  <2>1. limitClock' = limitClock + 1 /\ buckets' = buckets /\ served' = served /\ restartedAt' = restartedAt
    BY <1>2 DEF LimitTick, requestVars
  <2>2. BucketTypes'
    BY <2>1 DEF RequestsInv, BucketTypes, LimitKeys
  <2>3. \A t : Excused(t)' <=> Excused(t)
    BY <2>1 DEF Excused, RestartedIn, Crowded, BusyAt, KeysWithin, Within
  <2>4. \A t, k : Since(k, t)' = Since(k, t) /\ InWindow(k, t)' = InWindow(k, t) /\ Own(k)' = Own(k)
    BY <2>1 DEF Since, InWindow, Within, Own
  <2>5. BucketsHold'
    <3>. SUFFICES ASSUME NEW t \in Nat, NEW k \in LimitKeys,
                         (limitClock <= t + LimitWindow)', ~Excused(t)'
                  PROVE  Since(k, t)' \subseteq UNION {b.requests : b \in Own(k)'}
      BY DEF BucketsHold, LimitKeys, KeyOf
    <3>1. limitClock <= t + LimitWindow
      BY <2>1, LimitAssumption DEF RequestsInv, BucketTypes
    <3>. QED
      BY <2>3, <2>4, <3>1 DEF RequestsInv, BucketsHold
  <2>6. KeysLimited'
    BY <2>3, <2>4 DEF RequestsInv, KeysLimited, LimitKeys, KeyOf
  <2>. QED
    BY <2>2, <2>5, <2>6 DEF RequestsInv
<1>3. ASSUME NEW a \in Addresses, NEW p \in Paths, AskPath(a, p) PROVE RequestsInv'
  BY <1>3, LettingThroughKeeps, RefusingKeeps
<1>4. CASE LimitRestart
  <2>1. /\ limitClock' = limitClock /\ buckets' = {} /\ served' = served
        /\ restartedAt' = restartedAt \cup {limitClock}
    BY <1>4 DEF LimitRestart
  <2>2. BucketTypes'
    BY <2>1, FS_EmptySet DEF RequestsInv, BucketTypes, LimitKeys
  <2>3. \A t : Excused(t) => Excused(t)'
    BY <2>1 DEF Excused, RestartedIn, Crowded, BusyAt, KeysWithin, Within
  <2>4. \A t, k : Since(k, t)' = Since(k, t) /\ InWindow(k, t)' = InWindow(k, t)
    BY <2>1 DEF Since, InWindow, Within
  <2>5. BucketsHold'
    <3>. SUFFICES ASSUME NEW t \in Nat, NEW k \in LimitKeys,
                         limitClock <= t + LimitWindow, ~Excused(t)', NEW r \in Since(k, t)
                  PROVE  FALSE
      BY <2>1, <2>4 DEF BucketsHold, LimitKeys, KeyOf
    <3>1. limitClock \in t..(t + LimitWindow)
      BY LimitAssumption DEF Since, RequestsInv, BucketTypes
    <3>. QED
      BY <2>1, <3>1 DEF Excused, RestartedIn
  <2>6. KeysLimited'
    BY <2>3, <2>4 DEF RequestsInv, KeysLimited, LimitKeys, KeyOf
  <2>. QED
    BY <2>2, <2>5, <2>6 DEF RequestsInv
<1>5. RelayNext => LimitTick \/ LimitRestart \/ UNCHANGED <<limitClock, restartedAt, requestVars>>
  BY DEF RelayNext, SubmitWithdraw, RelayTransfer, RelayMint, RelayFails, RelayAnswered
<1>. QED
  BY <1>1, <1>2, <1>3, <1>4, <1>5 DEF LimitNext, AskNext, limitVars, requestVars

(***************************************************************************)
(* Relayed withdrawals.  A withdrawal that began alone was let through when*)
(* all that had been relayed in the day before, since the last restart,    *)
(* were counted, and no other that began alone is relayed before it is.    *)
(***************************************************************************)
RelayPlaces == {"new", "sent", "taken", "minted", "failed", "lost", "done"}

(* What withdrawals and the records of relays are.                           *)
RelayTypes ==
  /\ limitClock \in Nat /\ restartedAt \subseteq 0..limitClock
  /\ IsFiniteSet(relayed) /\ \A r \in relayed : r.of \in Withdrawals /\ r.time \in 0..limitClock
  /\ withdrawal \in [Withdrawals -> [at: RelayPlaces, alone: BOOLEAN, minted: SUBSET Nat]]
  /\ \A w \in Withdrawals : withdrawal[w].at \in {"minted", "done"} =>
       \E m \in 0..limitClock : withdrawal[w].minted = {m}

(* Only one of those that are out began alone.                               *)
OneAloneOut ==
  \A v, w \in Withdrawals :
    Out(v) /\ Out(w) /\ withdrawal[v].alone /\ withdrawal[w].alone => v = w

(* The withdrawals the limit is about, and those of them that are over.      *)
Regular(w) == withdrawal[w].at \in {"minted", "done"} /\ withdrawal[w].alone
Over(w) == withdrawal[w].at = "done" /\ withdrawal[w].alone

(* Those that were minted from a time on, or within a day of it.             *)
OverSince(t) == {w \in Withdrawals : Over(w) /\ \E m \in withdrawal[w].minted : m >= t}
RegularWithin(t) ==
  {w \in Withdrawals : Regular(w) /\ \E m \in withdrawal[w].minted : m >= t /\ m <= t + Day}

RestartedSince(t) == \E c \in restartedAt : c >= t

(* A withdrawal that is over is on record until its day has passed, or the   *)
(* process restarts.                                                         *)
RelaysRemembered ==
  \A w \in Withdrawals : Over(w) =>
    \A m \in withdrawal[w].minted :
      m + Day < limitClock \/ RestartedSince(m) \/ \E r \in relayed : r.of = w /\ r.time >= m

(* There is room for the one that is out.                                    *)
RoomForOne ==
  \A w \in Withdrawals : Out(w) /\ withdrawal[w].alone =>
    \A t \in Nat : t + Day >= limitClock /\ ~RestartedSince(t) =>
      Cardinality(OverSince(t)) < RelaysPerDay

DaysLimited ==
  \A t \in Nat : ~RestartedIn(t, t + Day) => Cardinality(RegularWithin(t)) <= RelaysPerDay

RelaysInv == RelayTypes /\ OneAloneOut /\ RelaysRemembered /\ RoomForOne /\ DaysLimited

(* A set of withdrawals within another has no more elements.                 *)
LEMMA FewerWithdrawals ==
  ASSUME NEW S, NEW T, T \subseteq Withdrawals, S \subseteq T
  PROVE  /\ Cardinality(S) <= Cardinality(T)
         /\ Cardinality(S) \in Nat /\ Cardinality(T) \in Nat
<1>1. IsFiniteSet(T)
  BY LimitAssumption, FS_Subset
<1>2. IsFiniteSet(S) /\ Cardinality(S) <= Cardinality(T)
  BY <1>1, FS_Subset
<1>. QED
  BY <1>1, <1>2, FS_CardinalityType

(* A step that begins, mints and ends nothing, or ends what was not counted. *)
LEMMA QuietRelays ==
  ASSUME RelaysInv, RelayTypes', limitClock' = limitClock \/ limitClock' = limitClock + 1,
         \A w \in Withdrawals : Out(w)' /\ withdrawal[w].alone' => Out(w) /\ withdrawal[w].alone,
         \A w \in Withdrawals :
           Over(w)' => Over(w) /\ withdrawal'[w].minted = withdrawal[w].minted,
         \A w \in Withdrawals :
           Regular(w)' => Regular(w) /\ withdrawal'[w].minted = withdrawal[w].minted,
         restartedAt \subseteq restartedAt',
         \A r \in relayed : r \in relayed' \/ limitClock - r.time > Day \/ RestartedSince(r.time)'
  PROVE  RelaysInv'
<1>1. limitClock \in Nat /\ limitClock' \in Nat /\ limitClock <= limitClock' /\ Day \in Nat
  BY LimitAssumption DEF RelaysInv, RelayTypes
<1>2. OneAloneOut'
  BY DEF RelaysInv, OneAloneOut
<1>3. RelaysRemembered'
  <2>. SUFFICES ASSUME NEW w \in Withdrawals, Over(w)', NEW m \in withdrawal'[w].minted,
                       ~(m + Day < limitClock'), ~RestartedSince(m)'
                PROVE  \E r \in relayed' : r.of = w /\ r.time >= m
    BY DEF RelaysRemembered
  <2>1. Over(w) /\ m \in withdrawal[w].minted /\ m \in Nat
    BY DEF RelaysInv, RelayTypes
  <2>2. PICK r \in relayed : r.of = w /\ r.time >= m
    BY <1>1, <2>1 DEF RelaysInv, RelaysRemembered, RestartedSince
  <2>3. r.time \in Nat
    BY DEF RelaysInv, RelayTypes
  <2>4. ~(limitClock - r.time > Day)
    BY <1>1, <2>1, <2>2, <2>3
  <2>5. ~RestartedSince(r.time)'
    <3>1. restartedAt' \subseteq Nat
      BY <1>1 DEF RelayTypes
    <3>2. \A c \in restartedAt' : ~(c >= m)
      BY DEF RestartedSince
    <3>3. ASSUME NEW c \in restartedAt' PROVE ~(c >= r.time)
      <4>. DEFINE at == r.time
      <4>1. c \in Nat /\ ~(c >= m) /\ at \in Nat /\ at >= m /\ m \in Nat
        BY <2>1, <2>2, <2>3, <3>1, <3>2
      <4>. HIDE DEF at
      <4>2. ~(c >= at)
        BY <4>1
      <4>. QED
        BY <4>2 DEF at
    <3>. QED
      BY <3>3 DEF RestartedSince
  <2>. QED
    BY <2>2, <2>4, <2>5
<1>4. RoomForOne'
  <2>. SUFFICES ASSUME NEW w \in Withdrawals, Out(w)', withdrawal'[w].alone,
                       NEW t \in Nat, t + Day >= limitClock', ~RestartedSince(t)'
                PROVE  Cardinality(OverSince(t)') < RelaysPerDay
    BY DEF RoomForOne
  <2>1. Cardinality(OverSince(t)) < RelaysPerDay
    BY <1>1 DEF RelaysInv, RoomForOne, RestartedSince
  <2>2. OverSince(t)' \subseteq OverSince(t)
    BY DEF OverSince
  <2>3. OverSince(t) \subseteq Withdrawals
    BY DEF OverSince
  <2>4. Cardinality(OverSince(t)') <= Cardinality(OverSince(t))
        /\ Cardinality(OverSince(t)') \in Nat /\ Cardinality(OverSince(t)) \in Nat
    BY <2>2, <2>3, FewerWithdrawals
  <2>. QED
    BY <2>1, <2>4, LimitAssumption
<1>5. DaysLimited'
  <2>. SUFFICES ASSUME NEW t \in Nat, ~RestartedIn(t, t + Day)'
                PROVE  Cardinality(RegularWithin(t)') <= RelaysPerDay
    BY DEF DaysLimited, RestartedIn
  <2>1. Cardinality(RegularWithin(t)) <= RelaysPerDay
    BY DEF RelaysInv, DaysLimited, RestartedIn
  <2>2. RegularWithin(t)' \subseteq RegularWithin(t)
    BY DEF RegularWithin
  <2>3. RegularWithin(t) \subseteq Withdrawals
    BY DEF RegularWithin
  <2>4. Cardinality(RegularWithin(t)') <= Cardinality(RegularWithin(t))
        /\ Cardinality(RegularWithin(t)') \in Nat /\ Cardinality(RegularWithin(t)) \in Nat
    BY <2>2, <2>3, FewerWithdrawals
  <2>. QED
    BY <2>1, <2>4, LimitAssumption
<1>. QED
  BY <1>2, <1>3, <1>4, <1>5 DEF RelaysInv

(* A withdrawal that is let through: those of the day before are counted.    *)
LEMMA SubmittingKeeps ==
  ASSUME RelaysInv, NEW w \in Withdrawals, SubmitWithdraw(w)
  PROVE  RelaysInv'
<1>1. /\ withdrawal[w].at = "new" /\ limitClock' = limitClock /\ restartedAt' = restartedAt
      /\ relayed' = {r \in relayed : limitClock - r.time <= Day}
  BY DEF SubmitWithdraw, PrunesRelays, StillCounted
<1>2. limitClock \in Nat /\ Day \in Nat /\ RelaysPerDay \in Nat /\ \A r \in relayed : r.time \in Nat
  BY LimitAssumption DEF RelaysInv, RelayTypes
<1>3. IsFiniteSet(relayed')
  BY <1>1, FS_Subset DEF RelaysInv, RelayTypes
<1>4. \A r \in relayed : r \in relayed' \/ limitClock - r.time > Day
  BY <1>1, <1>2
<1>5. CASE ~MayRelay
  <2>1. withdrawal' = withdrawal
    BY <1>5 DEF SubmitWithdraw
  <2>2. RelayTypes'
    BY <1>1, <1>3, <2>1 DEF RelaysInv, RelayTypes
  <2>. QED
    BY <1>1, <1>4, <2>1, <2>2, QuietRelays DEF Out, Over, Regular
<1>6. CASE MayRelay
  <2>. DEFINE begun == [withdrawal[w] EXCEPT !.at = "sent", !.alone = ~\E v \in Withdrawals : Out(v)]
  <2>1. withdrawal' = [withdrawal EXCEPT ![w].at = "sent", ![w].alone = ~\E v \in Withdrawals : Out(v)]
    BY <1>6 DEF SubmitWithdraw
  <2>2. withdrawal[w] \in [at: RelayPlaces, alone: BOOLEAN, minted: SUBSET Nat]
        /\ DOMAIN withdrawal = Withdrawals
    BY DEF RelaysInv, RelayTypes
  <2>3. withdrawal' = [withdrawal EXCEPT ![w] = begun]
    BY <2>1, <2>2, ZenonT(30)
  <2>4. begun \in [at: RelayPlaces, alone: BOOLEAN, minted: SUBSET Nat]
        /\ begun.at = "sent" /\ (begun.alone <=> ~\E v \in Withdrawals : Out(v))
    BY <2>2 DEF RelayPlaces
  <2>. HIDE DEF begun
  <2>5. \A v \in Withdrawals : withdrawal'[v] = IF v = w THEN begun ELSE withdrawal[v]
    BY <2>2, <2>3
  <2>6. RelayTypes'
    BY <1>1, <1>3, <2>3, <2>4, <2>5 DEF RelaysInv, RelayTypes
  <2>7. \A v \in Withdrawals : (Out(v)' <=> (v = w \/ Out(v))) /\ (v # w => withdrawal'[v].alone = withdrawal[v].alone)
    BY <2>4, <2>5 DEF Out
  <2>8. OneAloneOut'
    BY <2>4, <2>5, <2>7 DEF RelaysInv, OneAloneOut
  <2>9. \A v \in Withdrawals : /\ (Over(v)' <=> Over(v)) /\ (Regular(v)' <=> Regular(v))
                               /\ Regular(v) => withdrawal'[v].minted = withdrawal[v].minted
                               /\ Over(v) => Regular(v)
    BY <1>1, <2>4, <2>5 DEF Over, Regular
  <2>10. RelaysRemembered'
    <3>. SUFFICES ASSUME NEW v \in Withdrawals, Over(v)', NEW m \in withdrawal'[v].minted,
                         ~(m + Day < limitClock), ~RestartedSince(m)
                  PROVE  \E r \in relayed' : r.of = v /\ r.time >= m
      BY <1>1 DEF RelaysRemembered, RestartedSince
    <3>1. Over(v) /\ m \in withdrawal[v].minted /\ m \in Nat
      BY <2>9 DEF RelaysInv, RelayTypes
    <3>2. PICK r \in relayed : r.of = v /\ r.time >= m
      BY <3>1 DEF RelaysInv, RelaysRemembered
    <3>3. ~(limitClock - r.time > Day)
      BY <1>2, <3>1, <3>2
    <3>. QED
      BY <1>4, <3>2, <3>3
  <2>11. \A t \in Nat : OverSince(t)' = OverSince(t) /\ RegularWithin(t)' = RegularWithin(t)
    BY <2>9 DEF OverSince, RegularWithin
  <2>12. ASSUME NEW t \in Nat, t + Day >= limitClock, ~RestartedSince(t)
         PROVE  Cardinality(OverSince(t)) < RelaysPerDay
    <3>. DEFINE f == [r \in relayed' |-> r.of]
                names == {r.of : r \in relayed'}
    <3>1. f \in Surjection(relayed', names)
      BY DEF Surjection
    <3>2. OverSince(t) \subseteq names
      <4>. SUFFICES ASSUME NEW v \in OverSince(t) PROVE v \in names
        OBVIOUS
      <4>1. PICK m \in withdrawal[v].minted : m >= t
        BY DEF OverSince
      <4>2. Over(v) /\ m \in Nat /\ ~(m + Day < limitClock)
        BY <1>2, <2>12, <4>1 DEF OverSince, RelaysInv, RelayTypes
      <4>3. PICK r \in relayed : r.of = v /\ r.time >= m
        BY <1>2, <2>12, <4>1, <4>2 DEF RelayTypes, RestartedSince, OverSince, RelaysInv, RelaysRemembered
      <4>4. ~(limitClock - r.time > Day)
        BY <1>2, <4>2, <4>3
      <4>. QED
        BY <1>4, <4>3, <4>4
    <3>. HIDE DEF f, names
    <3>3. IsFiniteSet(names) /\ Cardinality(names) <= Cardinality(relayed')
      BY <1>3, <3>1, FS_Surjection
    <3>4. PICK O : O = OverSince(t)
      OBVIOUS
    <3>5. Cardinality(O) <= Cardinality(names) /\ IsFiniteSet(O)
      BY <3>2, <3>3, <3>4, FS_Subset
    <3>6. Cardinality(O) \in Nat /\ Cardinality(names) \in Nat /\ Cardinality(relayed') \in Nat
      BY <1>3, <3>3, <3>5, FS_CardinalityType
    <3>7. Cardinality(relayed') < RelaysPerDay
      BY <1>6 DEF MayRelay
    <3>. QED
      BY <1>2, <3>3, <3>4, <3>5, <3>6, <3>7
  <2>13. RoomForOne'
    <3>. SUFFICES ASSUME NEW v \in Withdrawals, NEW t \in Nat, t + Day >= limitClock,
                         ~RestartedSince(t)
                  PROVE  Cardinality(OverSince(t)') < RelaysPerDay
      BY <1>1 DEF RoomForOne, RestartedSince
    <3>. QED
      BY <2>11, <2>12
  <2>14. DaysLimited'
    <3>. SUFFICES ASSUME NEW t \in Nat, ~RestartedIn(t, t + Day)
                  PROVE  Cardinality(RegularWithin(t)') <= RelaysPerDay
      BY <1>1 DEF DaysLimited, RestartedIn
    <3>. QED
      BY <2>11 DEF RelaysInv, DaysLimited
  <2>. QED
    BY <2>6, <2>8, <2>10, <2>13, <2>14 DEF RelaysInv
<1>. QED
  BY <1>5, <1>6

(* A withdrawal moves and is not minted.                                     *)
LEMMA NotMintingKeeps ==
  ASSUME RelaysInv, NEW w \in Withdrawals, NEW after,
         after \in [at: RelayPlaces, alone: BOOLEAN, minted: SUBSET Nat],
         after.at \notin {"minted", "done"}, after.alone = withdrawal[w].alone, Out(w),
         withdrawal' = [withdrawal EXCEPT ![w] = after],
         limitClock' = limitClock, relayed' = relayed, restartedAt' = restartedAt
  PROVE  RelaysInv'
<1>1. \A v \in Withdrawals : withdrawal'[v] = IF v = w THEN after ELSE withdrawal[v]
  BY DEF RelaysInv, RelayTypes
<1>2. RelayTypes'
  BY <1>1 DEF RelaysInv, RelayTypes
<1>. QED
  BY <1>1, <1>2, QuietRelays DEF Out, Over, Regular

(* A mint: the withdrawal joins those of the day.                            *)
LEMMA MintingKeeps ==
  ASSUME RelaysInv, NEW w \in Withdrawals, withdrawal[w].at = "taken",
         withdrawal' = [withdrawal EXCEPT ![w].at = "minted", ![w].minted = {limitClock}],
         limitClock' = limitClock, relayed' = relayed, restartedAt' = restartedAt
  PROVE  RelaysInv'
<1>. DEFINE minted == [withdrawal[w] EXCEPT !.at = "minted", !.minted = {limitClock}]
<1>1. /\ withdrawal[w] \in [at: RelayPlaces, alone: BOOLEAN, minted: SUBSET Nat]
      /\ DOMAIN withdrawal = Withdrawals /\ limitClock \in Nat /\ Day \in Nat
      /\ RelaysPerDay \in Nat
  BY LimitAssumption DEF RelaysInv, RelayTypes
<1>2. withdrawal' = [withdrawal EXCEPT ![w] = minted]
  BY <1>1, ZenonT(30)
<1>3. minted \in [at: RelayPlaces, alone: BOOLEAN, minted: SUBSET Nat]
      /\ minted.at = "minted" /\ minted.minted = {limitClock} /\ minted.alone = withdrawal[w].alone
  BY <1>1 DEF RelayPlaces
<1>. HIDE DEF minted
<1>4. \A v \in Withdrawals : withdrawal'[v] = IF v = w THEN minted ELSE withdrawal[v]
  BY <1>1, <1>2
<1>5. RelayTypes'
  BY <1>1, <1>2, <1>3, <1>4 DEF RelaysInv, RelayTypes
<1>6. \A v \in Withdrawals : /\ (Out(v)' <=> Out(v)) /\ withdrawal'[v].alone = withdrawal[v].alone
                             /\ (Over(v)' <=> Over(v))
                             /\ v # w => (Regular(v)' <=> Regular(v))
                             /\ v # w => withdrawal'[v].minted = withdrawal[v].minted
  BY <1>3, <1>4 DEF Out, Over, Regular
<1>7. Out(w) /\ ~Over(w)
  BY DEF Out, Over
<1>8. OneAloneOut'
  BY <1>6 DEF RelaysInv, OneAloneOut
<1>9. RelaysRemembered'
  BY <1>6, <1>7 DEF RelaysInv, RelaysRemembered, RestartedSince
<1>10. \A t \in Nat : OverSince(t)' = OverSince(t)
  BY <1>6, <1>7 DEF OverSince
<1>11. RoomForOne'
  BY <1>6, <1>10 DEF RelaysInv, RoomForOne, RestartedSince
<1>12. DaysLimited'
  <2>. SUFFICES ASSUME NEW t \in Nat, ~RestartedIn(t, t + Day)
                PROVE  Cardinality(RegularWithin(t)') <= RelaysPerDay
    BY DEF DaysLimited, RestartedIn
  <2>1. Cardinality(RegularWithin(t)) <= RelaysPerDay
    BY DEF RelaysInv, DaysLimited
  <2>2. RegularWithin(t) \subseteq Withdrawals /\ OverSince(t) \subseteq Withdrawals
    BY DEF RegularWithin, OverSince
  <2>3. CASE ~(withdrawal[w].alone /\ limitClock >= t /\ limitClock <= t + Day)
    <3>1. w \notin RegularWithin(t)'
      BY <1>3, <1>4, <2>3 DEF RegularWithin, Regular
    <3>2. RegularWithin(t)' \subseteq RegularWithin(t)
      BY <1>6, <3>1 DEF RegularWithin
    <3>3. Cardinality(RegularWithin(t)') <= Cardinality(RegularWithin(t))
          /\ Cardinality(RegularWithin(t)') \in Nat /\ Cardinality(RegularWithin(t)) \in Nat
      BY <2>2, <3>2, FewerWithdrawals
    <3>. QED
      BY <1>1, <2>1, <3>3
  <2>4. CASE withdrawal[w].alone /\ limitClock >= t /\ limitClock <= t + Day
    <3>0. ~RestartedSince(t)
      BY <1>1, <2>4 DEF RestartedSince, RestartedIn, RelaysInv, RelayTypes
    <3>1. Cardinality(OverSince(t)) < RelaysPerDay
      BY <1>7, <2>4, <3>0 DEF RelaysInv, RoomForOne
    <3>2. RegularWithin(t)' \subseteq OverSince(t) \cup {w}
      <4>. SUFFICES ASSUME NEW v \in RegularWithin(t)', v # w PROVE v \in OverSince(t)
        OBVIOUS
      <4>1. /\ v \in Withdrawals /\ Regular(v)
            /\ \E m \in withdrawal[v].minted : m >= t
        BY <1>6 DEF RegularWithin
      <4>2. ~Out(v)
        BY <1>7, <2>4, <4>1 DEF RelaysInv, OneAloneOut, Regular
      <4>3. Over(v)
        BY <4>1, <4>2 DEF Regular, Out, Over
      <4>. QED
        BY <4>1, <4>3 DEF OverSince
    <3>3. PICK O : O = OverSince(t)
      OBVIOUS
    <3>4. IsFiniteSet(O)
      BY <2>2, <3>3, LimitAssumption, FS_Subset
    <3>5. Cardinality(O \cup {w}) <= Cardinality(O) + 1 /\ Cardinality(O) \in Nat
      <4>1. Cardinality(O \cup {w}) = IF w \in O THEN Cardinality(O) ELSE Cardinality(O) + 1
        BY <3>4, FS_AddElement
      <4>. QED
        BY <3>4, <4>1, FS_CardinalityType
    <3>6. /\ Cardinality(RegularWithin(t)') <= Cardinality(O \cup {w})
          /\ Cardinality(RegularWithin(t)') \in Nat /\ Cardinality(O \cup {w}) \in Nat
      BY <2>2, <3>2, <3>3, FewerWithdrawals
    <3>. QED
      BY <1>1, <3>1, <3>3, <3>5, <3>6
  <2>. QED
    BY <2>3, <2>4
<1>. QED
  BY <1>5, <1>8, <1>9, <1>11, <1>12 DEF RelaysInv

(* The answer: the withdrawal is put on record.                              *)
LEMMA AnsweringKeeps ==
  ASSUME RelaysInv, NEW w \in Withdrawals, RelayAnswered(w)
  PROVE  RelaysInv'
<1>. DEFINE over == [withdrawal[w] EXCEPT !.at = "done"]
            entry == [of |-> w, time |-> limitClock]
<1>1. /\ withdrawal[w] \in [at: RelayPlaces, alone: BOOLEAN, minted: SUBSET Nat]
      /\ DOMAIN withdrawal = Withdrawals /\ limitClock \in Nat /\ Day \in Nat
      /\ RelaysPerDay \in Nat
  BY LimitAssumption DEF RelaysInv, RelayTypes
<1>2. /\ withdrawal[w].at = "minted" /\ limitClock' = limitClock /\ restartedAt' = restartedAt
      /\ relayed' = relayed \cup {entry}
  BY DEF RelayAnswered
<1>3. withdrawal' = [withdrawal EXCEPT ![w] = over]
  BY <1>1, ZenonT(30) DEF RelayAnswered
<1>4. over \in [at: RelayPlaces, alone: BOOLEAN, minted: SUBSET Nat]
      /\ over.at = "done" /\ over.minted = withdrawal[w].minted /\ over.alone = withdrawal[w].alone
  BY <1>1 DEF RelayPlaces
<1>5. entry.of = w /\ entry.time = limitClock
  OBVIOUS
<1>. HIDE DEF over, entry
<1>6. \A v \in Withdrawals : withdrawal'[v] = IF v = w THEN over ELSE withdrawal[v]
  BY <1>1, <1>3
<1>7. PICK m \in 0..limitClock : withdrawal[w].minted = {m}
  BY <1>2 DEF RelaysInv, RelayTypes
<1>8. RelayTypes'
  <2>1. IsFiniteSet(relayed \cup {entry})
    BY FS_AddElement DEF RelaysInv, RelayTypes
  <2>2. withdrawal' \in [Withdrawals -> [at: RelayPlaces, alone: BOOLEAN, minted: SUBSET Nat]]
    BY <1>3, <1>4 DEF RelaysInv, RelayTypes
  <2>. QED
    BY <1>1, <1>2, <1>4, <1>5, <1>6, <2>1, <2>2 DEF RelaysInv, RelayTypes
<1>9. \A v \in Withdrawals : /\ (Out(v)' <=> (v # w /\ Out(v)))
                             /\ withdrawal'[v].alone = withdrawal[v].alone
                             /\ withdrawal'[v].minted = withdrawal[v].minted
                             /\ v # w => (Over(v)' <=> Over(v))
                             /\ (Regular(v)' <=> Regular(v))
  BY <1>2, <1>4, <1>6 DEF Out, Over, Regular
<1>10. OneAloneOut'
  BY <1>9 DEF RelaysInv, OneAloneOut
<1>11. RelaysRemembered'
  <2>. SUFFICES ASSUME NEW v \in Withdrawals, Over(v)', NEW n \in withdrawal'[v].minted,
                       ~(n + Day < limitClock), ~RestartedSince(n)
                PROVE  \E r \in relayed' : r.of = v /\ r.time >= n
    BY <1>2 DEF RelaysRemembered, RestartedSince
  <2>1. CASE v = w
    BY <1>2, <1>5, <1>7, <1>9, <2>1
  <2>2. CASE v # w
    BY <1>2, <1>9, <2>2 DEF RelaysInv, RelaysRemembered
  <2>. QED
    BY <2>1, <2>2
<1>12. RoomForOne'
  <2>. SUFFICES ASSUME NEW v \in Withdrawals, Out(v)', withdrawal'[v].alone,
                       NEW t \in Nat, t + Day >= limitClock, ~RestartedSince(t)
                PROVE  Cardinality(OverSince(t)') < RelaysPerDay
    BY <1>2 DEF RoomForOne, RestartedSince
  <2>1. v # w /\ Out(v) /\ withdrawal[v].alone
    BY <1>9
  <2>2. ~withdrawal[w].alone
    BY <1>2, <2>1 DEF RelaysInv, OneAloneOut, Out
  <2>3. OverSince(t)' = OverSince(t)
    BY <1>2, <1>9, <2>2 DEF OverSince, Over
  <2>. QED
    BY <2>1, <2>3 DEF RelaysInv, RoomForOne
<1>13. DaysLimited'
  <2>1. \A t \in Nat : RegularWithin(t)' = RegularWithin(t)
    BY <1>9 DEF RegularWithin
  <2>. QED
    BY <1>2, <2>1 DEF RelaysInv, DaysLimited, RestartedIn
<1>. QED
  BY <1>8, <1>10, <1>11, <1>12, <1>13 DEF RelaysInv

LEMMA RelaysStep ==
  ASSUME RelaysInv, [LimitNext]_limitVars
  PROVE  RelaysInv'
<1>1. CASE UNCHANGED <<limitClock, restartedAt, relayVars>> \/ LimitTick
  <2>1. /\ limitClock' = limitClock \/ limitClock' = limitClock + 1
        /\ relayed' = relayed /\ withdrawal' = withdrawal /\ restartedAt' = restartedAt
    BY <1>1 DEF LimitTick, relayVars
  <2>2. RelayTypes'
    BY <2>1 DEF RelaysInv, RelayTypes
  <2>. QED
    BY <2>1, <2>2, QuietRelays DEF Out, Over, Regular
<1>2. ASSUME NEW w \in Withdrawals, RelayTransfer(w) PROVE RelaysInv'
  <2>1. PICK end \in {"taken", "failed"} : withdrawal' = [withdrawal EXCEPT ![w].at = end]
    BY <1>2 DEF RelayTransfer
  <2>. DEFINE after == [withdrawal[w] EXCEPT !.at = end]
  <2>2. withdrawal[w] \in [at: RelayPlaces, alone: BOOLEAN, minted: SUBSET Nat]
        /\ DOMAIN withdrawal = Withdrawals
    BY DEF RelaysInv, RelayTypes
  <2>3. after \in [at: RelayPlaces, alone: BOOLEAN, minted: SUBSET Nat]
        /\ after.at = end /\ after.alone = withdrawal[w].alone
    BY <2>2 DEF RelayPlaces
  <2>4. withdrawal' = [withdrawal EXCEPT ![w] = after]
    BY <2>1, <2>2, ZenonT(30)
  <2>. HIDE DEF after
  <2>5. Out(w) /\ limitClock' = limitClock /\ relayed' = relayed /\ restartedAt' = restartedAt
    BY <1>2 DEF RelayTransfer, Out
  <2>. QED
    BY <2>3, <2>4, <2>5, NotMintingKeeps
<1>3. ASSUME NEW w \in Withdrawals, RelayMint(w) PROVE RelaysInv'
  <2>1. PICK end \in {"minted", "failed"} :
          withdrawal' = [withdrawal EXCEPT ![w].at = end, ![w].minted = {limitClock}]
    BY <1>3 DEF RelayMint
  <2>2. withdrawal[w].at = "taken" /\ limitClock' = limitClock /\ relayed' = relayed /\ restartedAt' = restartedAt
    BY <1>3 DEF RelayMint
  <2>3. CASE end = "minted"
    BY <2>1, <2>2, <2>3, MintingKeeps
  <2>4. CASE end = "failed"
    <3>. DEFINE after == [withdrawal[w] EXCEPT !.at = "failed", !.minted = {limitClock}]
    <3>1. withdrawal[w] \in [at: RelayPlaces, alone: BOOLEAN, minted: SUBSET Nat]
          /\ DOMAIN withdrawal = Withdrawals /\ limitClock \in Nat
      BY DEF RelaysInv, RelayTypes
    <3>2. after \in [at: RelayPlaces, alone: BOOLEAN, minted: SUBSET Nat]
          /\ after.at = "failed" /\ after.alone = withdrawal[w].alone
      BY <3>1 DEF RelayPlaces
    <3>3. withdrawal' = [withdrawal EXCEPT ![w] = after]
      BY <2>1, <2>4, <3>1, ZenonT(30)
    <3>. HIDE DEF after
    <3>. QED
      BY <2>2, <3>2, <3>3, NotMintingKeeps DEF Out
  <2>. QED
    BY <2>1, <2>3, <2>4
<1>4. ASSUME NEW w \in Withdrawals, RelayFails(w) PROVE RelaysInv'
  <2>. DEFINE after == [withdrawal[w] EXCEPT !.at = "lost"]
  <2>1. withdrawal[w] \in [at: RelayPlaces, alone: BOOLEAN, minted: SUBSET Nat]
        /\ DOMAIN withdrawal = Withdrawals
    BY DEF RelaysInv, RelayTypes
  <2>2. after \in [at: RelayPlaces, alone: BOOLEAN, minted: SUBSET Nat]
        /\ after.at = "lost" /\ after.alone = withdrawal[w].alone
    BY <2>1 DEF RelayPlaces
  <2>3. withdrawal' = [withdrawal EXCEPT ![w] = after]
    BY <1>4, <2>1, ZenonT(30) DEF RelayFails
  <2>. HIDE DEF after
  <2>4. Out(w) /\ limitClock' = limitClock /\ relayed' = relayed /\ restartedAt' = restartedAt
    BY <1>4 DEF RelayFails
  <2>. QED
    BY <2>2, <2>3, <2>4, NotMintingKeeps
<1>5. ASSUME NEW a \in Addresses, NEW p \in Paths, AskPath(a, p)
      PROVE  UNCHANGED <<limitClock, restartedAt, relayVars>>
  BY <1>5 DEF AskPath
<1>6. CASE LimitRestart
  <2>1. /\ limitClock' = limitClock /\ relayed' = {} /\ restartedAt' = restartedAt \cup {limitClock}
        /\ withdrawal' = [w \in Withdrawals |->
             IF Out(w) THEN [withdrawal[w] EXCEPT !.at = "lost"] ELSE withdrawal[w]]
    BY <1>6 DEF LimitRestart
  <2>2. \A w \in Withdrawals :
          /\ withdrawal[w] \in [at: RelayPlaces, alone: BOOLEAN, minted: SUBSET Nat]
          /\ withdrawal'[w] \in [at: RelayPlaces, alone: BOOLEAN, minted: SUBSET Nat]
          /\ Out(w) => withdrawal'[w].at = "lost"
          /\ ~Out(w) => withdrawal'[w] = withdrawal[w]
    BY <2>1 DEF RelaysInv, RelayTypes, RelayPlaces
  <2>3. \A r \in relayed : RestartedSince(r.time)'
    <3>1. \A r \in relayed : limitClock >= r.time
      BY DEF RelaysInv, RelayTypes
    <3>. QED
      BY <2>1, <3>1 DEF RestartedSince
  <2>4. RelayTypes'
    <3>1. withdrawal' \in [Withdrawals -> [at: RelayPlaces, alone: BOOLEAN, minted: SUBSET Nat]]
      BY <2>1, <2>2
    <3>2. \A w \in Withdrawals : withdrawal'[w].at \in {"minted", "done"} =>
            \E m \in 0..limitClock : withdrawal'[w].minted = {m}
      BY <2>2 DEF RelaysInv, RelayTypes
    <3>3. restartedAt' \subseteq 0..limitClock /\ limitClock \in Nat
      BY <2>1 DEF RelaysInv, RelayTypes
    <3>. QED
      BY <2>1, <3>1, <3>2, <3>3, FS_EmptySet DEF RelayTypes
  <2>5. \A w \in Withdrawals : /\ ~Out(w)' /\ (Over(w)' => Over(w) /\ withdrawal'[w] = withdrawal[w])
                               /\ Regular(w)' => Regular(w) /\ withdrawal'[w] = withdrawal[w]
    BY <2>2 DEF Out, Over, Regular
  <2>. QED
    BY <2>1, <2>3, <2>4, <2>5, QuietRelays
<1>. QED
  BY <1>1, <1>2, <1>3, <1>4, <1>5, <1>6, SubmittingKeeps, AnsweringKeeps
     DEF LimitNext, AskNext, RelayNext, limitVars, relayVars

(* LimitsHold (qma_rate_limit_middleware, enforce_withdraw_relay_policy): in *)
(* every window a key is let through no more often than its limit, unless    *)
(* the process restarted in it or more keys than are kept were busy at about *)
(* that time; and of the withdrawals that began while no other was out and   *)
(* were answered, no more than the limit are relayed in any day in which the *)
(* process did not restart.                                                  *)
THEOREM LimitsStand == LimitSpec => []LimitsHold
<1>1. LimitInit => RequestsInv /\ RelaysInv
  <2>. SUFFICES ASSUME LimitInit PROVE RequestsInv /\ RelaysInv
    OBVIOUS
  <2>1. RequestsInv
    <3>1. served = {} /\ buckets = {} /\ limitClock = 0
      BY DEF LimitInit
    <3>2. BucketTypes
      BY <3>1, FS_EmptySet DEF BucketTypes
    <3>3. BucketsHold
      BY <3>1 DEF BucketsHold, Since
    <3>4. KeysLimited
      <4>. SUFFICES ASSUME NEW t \in Nat, NEW k \in LimitKeys
                    PROVE  Cardinality(InWindow(k, t)) <= PerWindow[k[1]]
        BY DEF KeysLimited
      <4>1. InWindow(k, t) = {}
        BY <3>1 DEF InWindow, Within
      <4>2. Cardinality(InWindow(k, t)) = 0
        BY <4>1, FS_EmptySet
      <4>. QED
        BY <4>2, KeysHaveLimits
    <3>. QED
      BY <3>2, <3>3, <3>4 DEF RequestsInv
  <2>2. RelaysInv
    <3>1. /\ relayed = {} /\ limitClock = 0 /\ restartedAt = {}
          /\ withdrawal = [w \in Withdrawals |-> [at |-> "new", alone |-> TRUE, minted |-> {}]]
      BY DEF LimitInit
    <3>2. RelayTypes
      BY <3>1, FS_EmptySet DEF RelayTypes, RelayPlaces
    <3>3. \A w \in Withdrawals : ~Out(w) /\ ~Regular(w) /\ ~Over(w)
      BY <3>1 DEF Out, Regular, Over
    <3>4. DaysLimited
      <4>. SUFFICES ASSUME NEW t \in Nat PROVE Cardinality(RegularWithin(t)) <= RelaysPerDay
        BY DEF DaysLimited
      <4>1. RegularWithin(t) = {}
        BY <3>3 DEF RegularWithin
      <4>2. Cardinality(RegularWithin(t)) = 0
        BY <4>1, FS_EmptySet
      <4>. QED
        BY <4>2, LimitAssumption
    <3>. QED
      BY <3>2, <3>3, <3>4 DEF RelaysInv, OneAloneOut, RelaysRemembered, RoomForOne
  <2>. QED
    BY <2>1, <2>2
<1>2. RequestsInv /\ RelaysInv /\ [LimitNext]_limitVars => (RequestsInv /\ RelaysInv)'
  BY RequestsStep, RelaysStep
<1>3. RequestsInv /\ RelaysInv => LimitsHold
  <2>. SUFFICES ASSUME RequestsInv, RelaysInv PROVE RequestsAreLimited /\ RelaysAreLimited
    BY DEF LimitsHold
  <2>1. RequestsAreLimited
    <3>. SUFFICES ASSUME NEW r \in served,
                         Cardinality({q \in Within(r.time, r.time + LimitWindow) : q.key = r.key})
                           > PerWindow[r.key[1]],
                         ~Excused(r.time)
                  PROVE  FALSE
      BY DEF RequestsAreLimited, Excused, Crowded, BusyAt
    <3>1. r.time \in Nat /\ r.key \in LimitKeys
      BY DEF RequestsInv, BucketTypes
    <3>2. Cardinality(InWindow(r.key, r.time)) <= PerWindow[r.key[1]]
      BY <3>1 DEF RequestsInv, KeysLimited
    <3>3. Cardinality(InWindow(r.key, r.time)) \in Nat /\ PerWindow[r.key[1]] \in Nat
      <4>1. PICK W : W = InWindow(r.key, r.time)
        OBVIOUS
      <4>2. IsFiniteSet(W)
        BY <4>1, FS_Subset DEF InWindow, Within, RequestsInv, BucketTypes
      <4>. QED
        BY <3>1, <4>1, <4>2, FS_CardinalityType, KeysHaveLimits
    <3>4. Cardinality(InWindow(r.key, r.time)) > PerWindow[r.key[1]]
      BY DEF InWindow
    <3>. QED
      BY <3>2, <3>3, <3>4
  <2>2. RelaysAreLimited
    <3>. DEFINE regular == {w \in Withdrawals :
                   withdrawal[w].at \in {"minted", "done"} /\ withdrawal[w].alone}
    <3>. SUFFICES ASSUME NEW v \in regular, NEW t \in withdrawal[v].minted,
                         ~RestartedIn(t, t + Day)
                  PROVE  Cardinality({w \in regular : withdrawal[w].minted \cap t..(t + Day) # {}})
                           <= RelaysPerDay
      BY DEF RelaysAreLimited
    <3>1. t \in Nat /\ Day \in Nat /\ \A w \in Withdrawals : withdrawal[w].minted \subseteq Nat
      BY LimitAssumption DEF RelaysInv, RelayTypes
    <3>2. {w \in regular : withdrawal[w].minted \cap t..(t + Day) # {}} = RegularWithin(t)
      <4>1. \A w \in Withdrawals : withdrawal[w].minted \cap t..(t + Day) # {} <=>
              \E m \in withdrawal[w].minted : m >= t /\ m <= t + Day
        BY <3>1
      <4>. QED
        BY <4>1 DEF RegularWithin, Regular
    <3>. QED
      BY <3>1, <3>2 DEF RelaysInv, DaysLimited
  <2>. QED
    BY <2>1, <2>2
<1>. QED
  BY <1>1, <1>2, <1>3, PTL DEF LimitSpec
=============================================================================
