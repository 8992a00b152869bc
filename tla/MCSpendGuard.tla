--------------------------- MODULE MCSpendGuard ---------------------------
(* Small instances of SpendGuard for TLC. *)
EXTENDS SpendGuard

CONSTANTS r1, r2, r3, r4

\* Two small reservations, one that is worth as much as the whole cap, and one
\* whose amount is above max_single_tx.
MCRes == {r1, r2, r3, r4}
MCAmount == [r \in MCRes |-> CASE r = r3 -> 2 [] r = r4 -> 3 [] OTHER -> 1]

Untouched(r) == outcome[r] = "unused" /\ ledger[r] = {}

(***************************************************************************)
(* Three questions put to the guard in one state space: the daily cap,     *)
(* with lost SPEND and RELEASE events and a breaker that never sees a      *)
(* failure; the same with an unlocked read of the ledger under way, and    *)
(* the two small reservations; and the breaker, with lost TRIP and RESET   *)
(* events, one payment that can be made, one that is too large, and a      *)
(* longer clock.                                                           *)
(***************************************************************************)
CapOnly ==
  /\ failures = {} /\ {trippedAt, lastTrip, lastReset} = {Never}
  /\ Untouched(r4) /\ now <= 6
  /\ reading # {} \/ overtaken # {} => Untouched(r3) /\ now <= 5
BreakerOnly ==
  /\ Untouched(r2) /\ Untouched(r3)
  /\ outcome[r1] = "committed" => "SPEND" \in ledger[r1]
  /\ outcome[r1] = "released" => "RELEASE" \in ledger[r1]
  /\ overtaken = {}
OneQuestion == CapOnly \/ BreakerOnly
============================================================================
