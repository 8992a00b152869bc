--------------------------- MODULE EmergencyHalt ---------------------------
(* The emergency halt of the treasury: a runtime flag and a field of the     *)
(* stored policy, written by updates of the policy that run in threads of    *)
(* one process, gated by open P1 incidents, and read before money moves      *)
(* (core/config.py, services/usyc_treasury.py, services/incident_engine.py). *)
(* A request is POST /api/v1/treasury/policy with treasury_halted set or     *)
(* not; an update of another field leaves it unset, which is a lift.         *)
EXTENDS Naturals, FiniteSets

CONSTANTS Requests,      \* updates of the policy
          Halting,       \* the requests with treasury_halted = true
          Acknowledging, \* lifts with acknowledge_active_incidents = true
          MaxFaults      \* calls of the storage that may fail

ASSUME HaltAssumption ==
  Halting \subseteq Requests /\ Acknowledging \subseteq Requests \ Halting /\ MaxFaults \in Nat

VARIABLES flag,     \* qma_runtime_flags.EMERGENCY_HALT
          policy,   \* treasury_halted in the stored policy
          syncing,  \* the request that holds _syncing_halt
          incident, \* a P1 incident is open
          request,  \* where each request stands
          gated,    \* requests that came in while the incident was open
          faults,   \* calls of the storage that failed
          alone,    \* the request that has run alone since it came in
          overlap,  \* two requests have run at once
          stands,   \* a halt was answered, alone, and no request came in since
          mover,    \* how far one movement of money is past its look at the halt
          sure,     \* that look began while a halt stood that still stands
          moved,    \* money moved although the look began while a halt stood
          ungated   \* requests that lifted a halt past the open incident

haltStores == <<flag, policy>>
haltNotes == <<gated, alone, overlap>>
movement == <<mover, sure, moved>>
haltVars == <<haltStores, syncing, incident, request, haltNotes, faults, stands, movement, ungated>>

HaltTypeOK ==
  /\ flag \in BOOLEAN /\ policy \in BOOLEAN /\ incident \in BOOLEAN
  /\ stands \in BOOLEAN /\ overlap \in BOOLEAN /\ moved \in BOOLEAN
  /\ syncing \subseteq Requests /\ Cardinality(syncing) <= 1
  /\ request \in [Requests -> {"idle", "compare", "write", "sync", "save", "over"}]
  /\ gated \subseteq Requests /\ alone \subseteq Requests /\ ungated \subseteq Requests
  /\ faults \in 0..MaxFaults
  /\ mover \in {"idle", "unflagged", "cleared"} /\ sure \in BOOLEAN

HaltInit ==
  /\ flag = FALSE /\ policy = FALSE /\ syncing = {} /\ incident = FALSE
  /\ request = [r \in Requests |-> "idle"] /\ gated = {} /\ alone = {} /\ overlap = FALSE
  /\ faults = 0 /\ stands = FALSE /\ ungated = {}
  /\ mover = "idle" /\ sure = FALSE /\ moved = FALSE

----------------------------------------------------------------------------
Halts(r) == r \in Halting
Disagrees(r) == Halts(r) # flag

(* A lift that does not acknowledge it is refused while a P1 incident is     *)
(* open (set_emergency_halt).                                                *)
RefusedLift(r) == ~Halts(r) /\ r \notin Acknowledging /\ incident

UnderWay == {r \in Requests: request[r] \notin {"idle", "over"}}
HaltGoes(r, place) == request' = [request EXCEPT ![r] = place]
Works == UNCHANGED faults
Breaks == faults < MaxFaults /\ faults' = faults + 1

(* r turned the halt off although it came in with the incident open.         *)
Judges(r) ==
  ungated' = IF (flag \/ policy) /\ ~(flag' \/ policy') /\ incident
                /\ r \in gated \ Acknowledging
             THEN ungated \union {r} ELSE ungated

(* set_policy: a request that finds _syncing_halt set, by whatever thread,   *)
(* skips the flag and goes on to save its policy.                            *)
SetPolicy(r) ==
  /\ request[r] = "idle"
  /\ IF syncing = {} THEN HaltGoes(r, "compare") /\ syncing' = {r}
     ELSE HaltGoes(r, "save") /\ UNCHANGED syncing
  /\ gated' = IF incident THEN gated \union {r} ELSE gated
  /\ alone' = IF UnderWay = {} THEN {r} ELSE {}
  /\ overlap' = (overlap \/ UnderWay # {})
  /\ stands' = FALSE /\ sure' = FALSE
  /\ UNCHANGED <<haltStores, incident, faults, mover, moved, ungated>>

CompareFlag(r) ==
  /\ request[r] = "compare"
  /\ \/ /\ Works /\ ~Disagrees(r)
        /\ HaltGoes(r, "save") /\ syncing' = {}
     \/ /\ Works /\ Disagrees(r) /\ RefusedLift(r)
        /\ HaltGoes(r, "over") /\ syncing' = {}
     \/ /\ Works /\ Disagrees(r) /\ ~RefusedLift(r)
        /\ HaltGoes(r, "write") /\ UNCHANGED syncing
     \/ /\ Breaks                     \* the flag cannot be read: the update fails
        /\ HaltGoes(r, "over") /\ syncing' = {}
     \/ /\ Breaks /\ Disagrees(r) /\ ~Halts(r)
        /\ HaltGoes(r, "write")       \* the incidents cannot: their check is skipped
        /\ UNCHANGED syncing
  /\ UNCHANGED <<haltStores, incident, haltNotes, stands, movement, ungated>>

(* set_emergency_halt: a flag that cannot be written is only logged.         *)
WriteFlag(r) ==
  /\ request[r] = "write"
  /\ (Works /\ flag' = Halts(r)) \/ (Breaks /\ UNCHANGED flag)
  /\ HaltGoes(r, "sync")
  /\ UNCHANGED policy /\ Judges(r)
  /\ UNCHANGED <<syncing, incident, haltNotes, stands, movement>>

(* It saves the policy it re-reads when that policy disagrees.  A read that  *)
(* fails gives the default policy, which is not halted; a save that fails is *)
(* only logged.                                                              *)
SyncPolicy(r) ==
  /\ request[r] = "sync"
  /\ \/ Works /\ policy' = Halts(r)
     \/ Breaks /\ policy' \in {policy, policy \/ Halts(r)}
  /\ HaltGoes(r, "save") /\ syncing' = {}
  /\ UNCHANGED flag /\ Judges(r)
  /\ UNCHANGED <<incident, haltNotes, stands, movement>>

(* set_policy saves the policy of the request, and answers either way.       *)
SavePolicy(r) ==
  /\ request[r] = "save"
  /\ (Works /\ policy' = Halts(r)) \/ (Breaks /\ UNCHANGED policy)
  /\ HaltGoes(r, "over")
  /\ stands' = (Halts(r) /\ alone = {r})
  /\ UNCHANGED flag /\ Judges(r)
  /\ UNCHANGED <<syncing, incident, haltNotes, movement>>

(* record_incident and resolve_incident, for a P1 incident.                  *)
OpenIncident ==
  /\ ~incident /\ incident' = TRUE
  /\ UNCHANGED <<haltStores, syncing, request, haltNotes, faults, stands, movement, ungated>>

ResolveIncident ==
  /\ incident /\ incident' = FALSE /\ gated' = {}
  /\ UNCHANGED <<haltStores, syncing, request, alone, overlap, faults, stands, movement, ungated>>

(* One movement of money: a sweep, a redemption, a swap, a payout or a       *)
(* withdrawal, which looks at the halt at its start.  is_treasury_halted     *)
(* reads the flag, and one that cannot be read halts it;                     *)
CheckFlag ==
  /\ mover = "idle" /\ ~flag /\ Works
  /\ mover' = "unflagged" /\ sure' = stands
  /\ UNCHANGED <<haltStores, syncing, incident, request, haltNotes, stands, moved, ungated>>

(* Mutant: only the flag is looked at.                                       *)
PolicyIgnored == Works

(* then the policy, and one that cannot be read is the default one.          *)
PolicyLets == (Works /\ ~policy) \/ Breaks

CheckPolicy ==
  /\ mover = "unflagged" /\ PolicyLets
  /\ mover' = "cleared"
  /\ UNCHANGED <<haltStores, syncing, incident, request, haltNotes, stands, sure, moved, ungated>>

(* It reads balances, may approve and wait for the receipt, and only then    *)
(* sends the money: updates of the policy come in between, and it does not   *)
(* look again.                                                               *)
MoveMoney ==
  /\ mover = "cleared"
  /\ mover' = "idle" /\ sure' = FALSE
  /\ moved' = (moved \/ sure)
  /\ UNCHANGED <<haltStores, syncing, incident, request, haltNotes, faults, stands, ungated>>

(* The policy halts it, or it fails at one of the steps before the money.    *)
GiveUp ==
  /\ mover # "idle"
  /\ mover' = "idle" /\ sure' = FALSE
  /\ UNCHANGED <<haltStores, syncing, incident, request, haltNotes, faults, stands, moved, ungated>>

HaltNext ==
  \/ \E r \in Requests: \/ SetPolicy(r) \/ CompareFlag(r) \/ WriteFlag(r)
                        \/ SyncPolicy(r) \/ SavePolicy(r)
  \/ OpenIncident \/ ResolveIncident
  \/ CheckFlag \/ CheckPolicy \/ MoveMoney \/ GiveUp

HaltSpec == HaltInit /\ [][HaltNext]_haltVars

----------------------------------------------------------------------------
(* The flag and the policy back each other up: with one call of the storage  *)
(* failing, no movement that looks at the halt after one was answered sends  *)
(* its money, for as long as no other update ran beside that halt or after   *)
(* it (config.py, set_emergency_halt and is_treasury_halted); one that       *)
(* looked before may still send it.  Without failures and with one update at *)
(* a time, an open P1 incident keeps the halt on until an update             *)
(* acknowledges it (config.py:233).                                          *)
HaltHolds ==
  /\ faults <= 1 => ~moved
  /\ faults = 0 /\ ~overlap => ungated = {}
=============================================================================
