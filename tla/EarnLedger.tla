---------------------------- MODULE EarnLedger -----------------------------
(* The position of the treasury in an Earn vault as services/earn_kit.py     *)
(* keeps it: a copy in process memory and a row of the storage back end.     *)
(* Mutations hold _EARN_LOCK; get_position reads the row without it.         *)
EXTENDS Integers

CONSTANTS EarnStores,   \* back ends: "postgres" or "json"
          EarnCalls,    \* calls of deposit and withdraw
          EarnReaders,  \* calls of get_position and get_all_positions
          EarnAmounts,  \* what a call moves
          MaxEarnFaults \* bound on failed saves and failed reads

ASSUME EarnAssumption ==
  /\ EarnStores \subseteq {"postgres", "json"}
  /\ EarnAmounts \subseteq Nat \ {0} /\ MaxEarnFaults \in Nat

VARIABLES earnStore,     \* the back end of this deployment
          earnHeld,      \* _EARN_POSITIONS: {p}, or {} without an entry
          earnRow,       \* the stored position, the same way
          earnCalls,     \* where each call stands
          earnSnap,      \* what a reader has read and not yet merged: {p}, or {}
          earnIn,        \* answered deposits
          earnOut,       \* answered withdrawals
          earnFaults     \* saves and reads that failed

earnVars == <<earnStore, earnHeld, earnRow, earnCalls, earnSnap, earnIn, earnOut, earnFaults>>

NoMove == [at |-> "idle", amount |-> 0]
Principal(p) == IF p = {} THEN 0 ELSE CHOOSE n \in p: TRUE

EarnTypeOK ==
  /\ earnStore \in EarnStores /\ {earnIn, earnOut} \subseteq Nat /\ earnFaults \in 0..MaxEarnFaults
  /\ {earnHeld, earnRow} \subseteq SUBSET Nat /\ earnSnap \in [EarnReaders -> SUBSET Nat]
  /\ earnCalls \in [EarnCalls -> [at: {"idle", "checked", "over"}, amount: {0} \union EarnAmounts]]

EarnInit ==
  /\ earnStore \in EarnStores /\ earnHeld = {} /\ earnRow = {} /\ earnIn = 0 /\ earnOut = 0
  /\ earnCalls = [c \in EarnCalls |-> NoMove]
  /\ earnSnap = [r \in EarnReaders |-> {}] /\ earnFaults = 0

(* load_earn_vault_positions: a failed read of a database is an empty        *)
(* answer, and an empty answer is not merged.                                *)
EarnReadFails == earnStore # "json" /\ earnFaults < MaxEarnFaults
MergedInto(copy, read) == IF read = {} THEN copy ELSE read

(* Mutant: the positions are not read again.                                 *)
EarnCopy(fails) == earnHeld

(* _refresh_positions_from_db does nothing unless the back end is PostgreSQL.*)
(* fails: whether this read fails.                                           *)
EarnRefreshed(fails) ==
  IF earnStore = "postgres" /\ ~fails THEN MergedInto(earnHeld, earnRow) ELSE earnHeld

(* save_earn_vault_position of the databases logs a failure and goes on.     *)
SavesPosition(p, fails) ==
  /\ earnHeld' = {p}
  /\ \/ earnRow' = {p} /\ earnFaults' = IF fails THEN earnFaults + 1 ELSE earnFaults
     \/ /\ earnStore # "json" /\ ~fails /\ earnFaults < MaxEarnFaults
        /\ earnRow' = earnRow /\ earnFaults' = earnFaults + 1

(* One critical section of deposit, with the amount known.                   *)
DepositEarn(c) ==
  /\ earnCalls[c].at = "idle"
  /\ \E a \in EarnAmounts: \E fails \in {FALSE} \union {EarnReadFails}:
       /\ SavesPosition(Principal(EarnRefreshed(fails)) + a, fails)
       /\ earnIn' = earnIn + a
  /\ earnCalls' = [earnCalls EXCEPT ![c].at = "over"]
  /\ UNCHANGED <<earnStore, earnSnap, earnOut>>

(* withdraw checks the shares in one critical section ...                    *)
CheckWithdrawal(c) ==
  /\ earnCalls[c].at = "idle"
  /\ \E a \in EarnAmounts: \E fails \in {FALSE} \union {EarnReadFails}:
       LET current == EarnRefreshed(fails) IN
       /\ earnHeld' = current
       /\ earnFaults' = IF fails THEN earnFaults + 1 ELSE earnFaults
       /\ earnCalls' = [earnCalls EXCEPT ![c] =
            [at |-> IF Principal(current) < a THEN "over" ELSE "checked", amount |-> a]]
  /\ UNCHANGED <<earnStore, earnRow, earnSnap, earnIn, earnOut>>

(* ... and subtracts in another.                                             *)
SubtractWithdrawal(c) ==
  /\ earnCalls[c].at = "checked"
  /\ \E fails \in {FALSE} \union {EarnReadFails}:
       LET left == Principal(EarnRefreshed(fails)) - earnCalls[c].amount IN
       SavesPosition(IF left < 0 THEN 0 ELSE left, fails)
  /\ earnOut' = earnOut + earnCalls[c].amount
  /\ earnCalls' = [earnCalls EXCEPT ![c].at = "over"]
  /\ UNCHANGED <<earnStore, earnSnap, earnIn>>

(* get_position: the row is read before the lock is taken, and merged under  *)
(* it whatever happened since.                                               *)
ReadPosition(r) ==
  /\ earnSnap[r] = {} /\ earnRow # {}
  /\ earnSnap' = [earnSnap EXCEPT ![r] = earnRow]
  /\ UNCHANGED <<earnStore, earnHeld, earnRow, earnCalls, earnIn, earnOut, earnFaults>>

MergePosition(r) ==
  /\ earnSnap[r] # {}
  /\ earnHeld' = MergedInto(earnHeld, earnSnap[r])
  /\ earnSnap' = [earnSnap EXCEPT ![r] = {}]
  /\ UNCHANGED <<earnStore, earnRow, earnCalls, earnIn, earnOut, earnFaults>>

(* A new process loads the rows (_load_positions).                           *)
EarnRestart ==
  /\ earnHeld' = earnRow
  /\ earnCalls' = [c \in EarnCalls |-> IF earnCalls[c].at = "checked"
                                       THEN [earnCalls[c] EXCEPT !.at = "over"] ELSE earnCalls[c]]
  /\ earnSnap' = [r \in EarnReaders |-> {}]
  /\ UNCHANGED <<earnStore, earnRow, earnIn, earnOut, earnFaults>>

EarnNext ==
  \/ \E c \in EarnCalls: DepositEarn(c) \/ CheckWithdrawal(c) \/ SubtractWithdrawal(c)
  \/ \E r \in EarnReaders: ReadPosition(r) \/ MergePosition(r)
  \/ EarnRestart

EarnSpec == EarnInit /\ [][EarnNext]_earnVars

----------------------------------------------------------------------------
(* earn_kit.py, _refresh_positions_from_db: the positions are read again     *)
(* under the lock, "so a stale in-process copy never overwrites another      *)
(* instance's update".  On PostgreSQL, while its reads and saves succeed,    *)
(* the stored position covers every answered deposit that was not withdrawn, *)
(* whatever readers merge into the copy between two calls.                   *)
NoDepositIsLost ==
  earnStore = "postgres" /\ earnFaults = 0 => Principal(earnRow) >= earnIn - earnOut
=============================================================================
