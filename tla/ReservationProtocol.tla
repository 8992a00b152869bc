------------------------ MODULE ReservationProtocol ------------------------
(***************************************************************************)
(* What the spend guard expects of its callers, and what they expect of    *)
(* it: the life of a reservation, from its making to its end, as           *)
(* services/swap_executor.py is to drive it.  SpendGuard keeps the daily   *)
(* cap for every caller that follows it; SwapExecution says when the       *)
(* executor does.                                                          *)
(***************************************************************************)
CONSTANT Res   \* reservation ids

VARIABLE outcome
  \* "unused", "open", "pinned", "committed", "released", or "abandoned" when
  \* the process that made it died before it pinned it

Outcomes == {"unused", "open", "abandoned", "pinned", "committed", "released"}

Moves(r, from, to) ==
  /\ outcome[r] \in from
  /\ outcome' = [outcome EXCEPT ![r] = to]

Made(r)      == Moves(r, {"unused"}, "open")
\* Pinned before anything is broadcast, so that it cannot expire meanwhile.
Pinned(r)    == Moves(r, {"open"}, "pinned")
\* Only what was pinned is ever spent; a retry may commit it again.
Committed(r) == Moves(r, {"pinned", "committed"}, "committed")
\* What is released was not spent, and will not be.
Released(r)  == Moves(r, {"open", "pinned", "released"}, "released")
\* A crash: the threads that had only reserved are gone.
Forgotten ==
  outcome' = [r \in Res |-> IF outcome[r] = "open" THEN "abandoned" ELSE outcome[r]]

ProtocolInit == outcome = [r \in Res |-> "unused"]

ProtocolNext ==
  \/ \E r \in Res : Made(r) \/ Pinned(r) \/ Committed(r) \/ Released(r)
  \/ Forgotten

ProtocolSpec == ProtocolInit /\ [][ProtocolNext]_outcome
=============================================================================
