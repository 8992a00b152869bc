---------------------------- MODULE SplitPayment ----------------------------
(***************************************************************************)
(* An invoice paid in legs, one transfer to the creator and one to the     *)
(* platform: the split-leg route of the sidecar, the three endpoints of    *)
(* the back end it calls (reserve, record, release), verify_split_payment  *)
(* and the status poll.                                                    *)
(*                                                                         *)
(* Each endpoint runs under the split_leg locks and is one action; between *)
(* them the sidecar's requests interleave, their answers may be lost, and  *)
(* a reservation lapses after two minutes.  The settlement a request makes *)
(* is named after the request.                                             *)
(***************************************************************************)
EXTENDS Naturals, FiniteSets

CONSTANTS
  Legs,         \* the required legs
  Requests,     \* GET /qma-access/split-leg with a payment signature
  MaxLosses     \* bound: answers that are lost

VARIABLES
  leg,          \* invoice.split.legs: status and settlement of each
  held,         \* legs whose processing_until lies ahead
  splitStatus,  \* the invoice's status
  verdict,      \* GenLayer's verdict on its report
  needsVerdict, \* verification_required
  late,         \* the invoice's expiry has passed
  req,          \* the sidecar's requests: where each is, and its leg
  charged,      \* requests whose settlement moved the buyer's money
  unsure,       \* legs let go while the outcome of a settlement was open
  losses        \* answers lost so far

splitVars == <<leg, held, splitStatus, verdict, needsVerdict, late,
               req, charged, unsure, losses>>
invoiceVars == <<splitStatus, verdict, needsVerdict, late>>

Unpaid == [status |-> "pending", sid |-> "none"]

SplitInit ==
  /\ leg = [l \in Legs |-> Unpaid]
  /\ held = {}
  /\ splitStatus = "pending" /\ verdict = "none"
  /\ needsVerdict \in BOOLEAN
  /\ late = FALSE
  /\ req \in {[r \in Requests |-> [at |-> "look", leg |-> f[r]]] : f \in [Requests -> Legs]}
  /\ charged = {} /\ unsure = {} /\ losses = 0

PaidLegs(lg) == {l \in Legs : lg[l].status = "paid"}

\* refresh_split_invoice_status
Refreshed(lg) ==
  CASE verdict = "INVALID" -> "verification_rejected"
    [] verdict # "INVALID" /\ PaidLegs(lg) = Legs ->
         IF needsVerdict /\ verdict # "VALID" THEN "verification_pending" ELSE "paid"
    [] verdict # "INVALID" /\ PaidLegs(lg) # Legs ->
         IF late THEN "expired" ELSE IF PaidLegs(lg) = {} THEN "pending" ELSE "partial_paid"

Refresh == splitStatus' = Refreshed(leg')

Goes(r, at) == req' = [req EXCEPT ![r].at = at]
\* The buyer is answered, with a receipt or an error.
Tells(r) == Goes(r, "end")
Lost == losses < MaxLosses /\ losses' = losses + 1

\* The signed URL and the lookup of invoice and leg.
Look(r) ==
  /\ req[r].at = "look"
  /\ UNCHANGED leg /\ Refresh
  /\ IF late \/ splitStatus' = "paid" \/ leg[req[r].leg].status = "paid"
       THEN Tells(r)
       ELSE Goes(r, "reserve")
  /\ UNCHANGED <<held, verdict, needsVerdict, late, charged, unsure, losses>>

\* Mutant: a leg another request is paying for is not taken.
TakenPaid(l) == Refreshed(leg) \in {"paid", "expired"} \/ leg[l].status = "paid"

\* reserve_internal_split_leg: what keeps it from reserving.
Taken(l) ==
  \/ Refreshed(leg) \in {"paid", "expired"}
  \/ leg[l].status = "paid"
  \/ leg[l].status = "processing" /\ l \in held

ReserveRefused(r) ==
  /\ req[r].at = "reserve" /\ Taken(req[r].leg)
  /\ UNCHANGED leg /\ Refresh
  /\ Tells(r)
  /\ UNCHANGED <<held, verdict, needsVerdict, late, charged, unsure, losses>>

\* The answer may be lost; the request then ends and the leg stays reserved.
ReserveLeg(r) ==
  LET l == req[r].leg IN
  /\ req[r].at = "reserve" /\ ~Taken(l)
  /\ leg' = [leg EXCEPT ![l].status = "processing"]
  /\ Refresh
  /\ held' = held \cup {l}
  /\ \/ Goes(r, "settle") /\ UNCHANGED losses
     \/ Tells(r) /\ Lost
  /\ UNCHANGED <<verdict, needsVerdict, late, charged, unsure>>

\* facilitator.verify and settle; a refusal is followed by a release.
SettleRefused(r) ==
  /\ req[r].at = "settle"
  /\ Goes(r, "release")
  /\ UNCHANGED <<leg, held, invoiceVars, charged, unsure, losses>>

\* The transfer is looked up by its id before the leg is recorded; if that
\* fails the leg is not released.  A settlement whose answer is lost has no id,
\* so its leg is released.
SettleLeg(r) ==
  /\ req[r].at = "settle"
  /\ charged' = charged \cup {r}
  /\ \/ Goes(r, "record") /\ UNCHANGED <<unsure, losses>>
     \/ Tells(r) /\ Lost /\ UNCHANGED unsure
     \/ Goes(r, "release") /\ Lost /\ unsure' = unsure \cup {req[r].leg}
  /\ UNCHANGED <<leg, held, invoiceVars>>

\* record_internal_split_leg, asked a second time when the first is answered
\* with an error or not at all.
AfterError(r) ==
  IF req[r].at = "record" THEN Goes(r, "retry") ELSE Tells(r)

RecordRefused(r) ==
  /\ req[r].at \in {"record", "retry"}
  /\ leg[req[r].leg].status = "paid"
  /\ AfterError(r)
  /\ UNCHANGED <<leg, held, invoiceVars, charged, unsure, losses>>

RecordLeg(r) ==
  LET l == req[r].leg IN
  /\ req[r].at \in {"record", "retry"}
  /\ leg[l].status # "paid"
  /\ leg' = [leg EXCEPT ![l] = [status |-> "paid", sid |-> r]]
  /\ held' = held \ {l}
  /\ Refresh
  /\ \/ Tells(r) /\ UNCHANGED losses
     \/ AfterError(r) /\ Lost
  /\ UNCHANGED <<verdict, needsVerdict, late, charged, unsure>>

\* Mutant: the status of the leg is not looked at.
ReleaseLegAny(r) ==
  LET l == req[r].leg IN
  /\ req[r].at = "release"
  /\ leg' = [leg EXCEPT ![l] = Unpaid]
  /\ held' = held \ {l}
  /\ Refresh
  /\ Tells(r)
  /\ UNCHANGED <<verdict, needsVerdict, late, charged, unsure, losses>>

\* release_internal_split_leg: it does not ask whose reservation it is.
ReleaseLeg(r) ==
  LET l == req[r].leg IN
  /\ req[r].at = "release"
  /\ leg' = [leg EXCEPT ![l] = IF @.status = "processing" THEN Unpaid ELSE @]
  /\ held' = IF leg[l].status = "processing" THEN held \ {l} ELSE held
  /\ Refresh
  /\ Tells(r)
  /\ UNCHANGED <<verdict, needsVerdict, late, charged, unsure, losses>>

\* 120 seconds after the reservation, whatever the request is doing.
Lapse(l) ==
  /\ l \in held
  /\ held' = held \ {l}
  /\ unsure' = unsure \cup
       {k \in {l} : \E r \in Requests : req[r].leg = l /\
          (r \in charged \/ req[r].at \in {"settle", "record", "retry", "release"})}
  /\ UNCHANGED <<leg, invoiceVars, req, charged, losses>>

\* GenLayer answers, or the verification ends without a verdict.
Verified(lg) ==
  \/ /\ verdict' = "VALID" /\ splitStatus' = "paid"
  \/ /\ verdict' = "INVALID" /\ splitStatus' = "verification_rejected"
  \/ /\ UNCHANGED verdict
     /\ splitStatus' = IF needsVerdict THEN "verification_pending" ELSE Refreshed(lg)

\* verify_split_payment.  The buyer holds receipts of recorded legs only, so
\* what is submitted agrees with what is recorded.
VerifySplit ==
  /\ verdict # "INVALID"
  /\ UNCHANGED leg
  /\ IF \/ Refreshed(leg) = "expired"
        \/ Refreshed(leg) = "paid" /\ verdict = "VALID"
        \/ \E l \in Legs : leg[l].sid = "none"
       THEN Refresh /\ UNCHANGED verdict
       ELSE Verified(leg)
  /\ UNCHANGED <<held, needsVerdict, late, req, charged, unsure, losses>>

\* get_payment_invoice_status
PollSplit ==
  /\ UNCHANGED leg
  /\ IF Refreshed(leg) = "verification_pending"
       THEN Verified(leg)
       ELSE Refresh /\ UNCHANGED verdict
  /\ UNCHANGED <<held, needsVerdict, late, req, charged, unsure, losses>>

ExpireSplit ==
  /\ ~late /\ late' = TRUE
  /\ UNCHANGED <<leg, held, splitStatus, verdict, needsVerdict, req, charged, unsure, losses>>

SplitNext ==
  \/ \E r \in Requests :
       \/ Look(r) \/ ReserveRefused(r) \/ ReserveLeg(r)
       \/ SettleRefused(r) \/ SettleLeg(r)
       \/ RecordRefused(r) \/ RecordLeg(r) \/ ReleaseLeg(r)
  \/ \E l \in Legs : Lapse(l)
  \/ VerifySplit \/ PollSplit \/ ExpireSplit

SplitSpec == SplitInit /\ [][SplitNext]_splitVars

SplitTypeOK ==
  /\ leg \in [Legs -> [status: {"pending", "processing", "paid"}, sid: Requests \cup {"none"}]]
  /\ held \subseteq Legs /\ unsure \subseteq Legs /\ charged \subseteq Requests
  /\ splitStatus \in {"pending", "partial_paid", "expired", "verification_pending",
                      "verification_rejected", "paid"}
  /\ verdict \in {"none", "VALID", "INVALID"}
  /\ needsVerdict \in BOOLEAN /\ late \in BOOLEAN
  /\ req \in [Requests -> [at: {"look", "reserve", "settle", "record", "retry", "release", "end"},
                           leg: Legs]]
  /\ losses \in 0..MaxLosses

\* A paid leg keeps its settlement: no late release, second reservation or
\* record of another request takes it back.
PaidLegKeepsSettlement ==
  [][\A l \in Legs : leg[l].status = "paid" => leg'[l] = leg[l]]_splitVars

\* A buyer is charged once for a leg, however often it is asked for, unless its
\* reservation was let go before the outcome of a settlement was known; and the
\* report is unlocked, or handed to GenLayer for its verdict, only when every
\* leg is paid by a settlement that charged the buyer for that leg.
ChargedOnce ==
  /\ \A l \in Legs \ unsure : Cardinality({r \in charged : req[r].leg = l}) <= 1
  /\ splitStatus \in {"paid", "verification_pending"} =>
       \A l \in Legs : \E r \in charged :
         leg[l] = [status |-> "paid", sid |-> r] /\ req[r].leg = l
============================================================================
