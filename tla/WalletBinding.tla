--------------------------- MODULE WalletBinding ---------------------------
(* The agent wallet of one owner (endpoints/sessions.py): create_session     *)
(* reuses or provisions it, the agent_wallets registry and the session rows  *)
(* remember it, delete_session must not forget one that holds USDC.          *)
EXTENDS Naturals

CONSTANTS SessionIds,   \* uuids of the owner's sessions
          AgentWallets, \* wallets the gateway can provision
          Creators,     \* concurrent create_session calls
          Deleters,     \* delete_session calls
          FaultPlaces,  \* the storage calls that may fail
          MaxBindFaults \* how many of them do

ASSUME BindingAssumption ==
  /\ FaultPlaces \subseteq {"list", "row", "upsert", "insert", "registry", "others", "delete"}
  /\ MaxBindFaults \in Nat

VARIABLES bound,     \* session id -> the wallets its row got (at most one)
          rowIds,    \* ids with a row
          registry,  \* the wallets of the owner's agent_wallets row (at most one)
          funded,    \* wallets that hold USDC
          creating,  \* Creators -> [phase, sessions, wallets, id]
          deleting,  \* Deleters -> [phase, id, sawEmpty]
          opsLock,   \* the deleters inside owner_ops_lock (at most one)
          bindFaults,
          doubtful,  \* a creation ran beside another, or failed to read the registry
          replaced   \* another wallet was registered over the registered one

bindingVars == <<bound, rowIds, registry, funded, creating, deleting, opsLock, bindFaults,
                 doubtful, replaced>>
notes == <<doubtful, replaced>>

FewWallets == {{}} \union {{w}: w \in AgentWallets}

BindingTypeOK ==
  /\ bound \in [SessionIds -> FewWallets] /\ rowIds \subseteq SessionIds
  /\ registry \in FewWallets /\ funded \subseteq AgentWallets
  /\ creating \in [Creators -> [phase: {"idle", "listed", "chosen", "registered"},
                                listed: SUBSET AgentWallets, wallet: FewWallets]]
  /\ deleting \in [Deleters -> [phase: {"idle", "loaded", "others", "funds", "delete"},
                                id: SUBSET SessionIds, sawEmpty: BOOLEAN]]
  /\ opsLock \in {{}} \union {{d}: d \in Deleters} /\ bindFaults \in 0..MaxBindFaults
  /\ doubtful \in BOOLEAN /\ replaced \in BOOLEAN

BindingInit ==
  /\ bound = [s \in SessionIds |-> {}] /\ rowIds = {} /\ registry = {} /\ funded = {}
  /\ creating = [c \in Creators |-> [phase |-> "idle", listed |-> {}, wallet |-> {}]]
  /\ deleting = [d \in Deleters |-> [phase |-> "idle", id |-> {}, sawEmpty |-> FALSE]]
  /\ opsLock = {} /\ bindFaults = 0 /\ doubtful = FALSE /\ replaced = FALSE

BoundByRows(rows) == UNION {bound[s]: s \in rows}
Bound(w) == w \in registry \union BoundByRows(rowIds)
Provisioned == registry \union UNION {bound[s]: s \in SessionIds}
                 \union UNION {creating[c].wallet: c \in Creators} \union funded

(* A storage call either answers or, while faults are left, fails.           *)
Answers == UNCHANGED bindFaults
Faulty(place) == /\ place \in FaultPlaces /\ bindFaults < MaxBindFaults
                 /\ bindFaults' = bindFaults + 1

----------------------------------------------------------------------------
(* create_session: not under owner_ops_lock.                                 *)

(* The owner's sessions; a failed read counts as none.                       *)
ListSessions(c) ==
  /\ creating[c].phase = "idle" /\ \E s \in SessionIds: bound[s] = {}
  /\ \E found \in {BoundByRows(rowIds), {}}:
       /\ IF found = BoundByRows(rowIds) THEN Answers ELSE Faulty("list")
       /\ creating' = [creating EXCEPT ![c] = [phase |-> "listed", listed |-> found, wallet |-> {}]]
  /\ doubtful' = (doubtful \/ \E o \in Creators: creating[o].phase # "idle")
  /\ UNCHANGED <<bound, rowIds, registry, funded, deleting, opsLock, replaced>>

(* The registry row, then any session, then a fresh wallet of the gateway.   *)
ChooseWallet(c) ==
  LET call == creating[c] IN
  /\ call.phase = "listed"
  /\ \E row \in {registry, {}}:
       /\ IF row = registry THEN Answers ELSE Faulty("row")
       /\ doubtful' = (doubtful \/ row # registry)
       /\ \E w \in IF row # {} THEN row ELSE IF call.listed # {} THEN call.listed
                   ELSE AgentWallets \ Provisioned:
            creating' = [creating EXCEPT ![c].phase = "chosen", ![c].wallet = {w}]
  /\ UNCHANGED <<bound, rowIds, registry, funded, deleting, opsLock, replaced>>

(* upsert_owner_agent_wallet_row: an error is ignored.                       *)
RegisterWallet(c) ==
  /\ creating[c].phase = "chosen"
  /\ \/ registry' = creating[c].wallet /\ Answers
     \/ UNCHANGED registry /\ Faulty("upsert")
  /\ creating' = [creating EXCEPT ![c].phase = "registered"]
  /\ replaced' = (replaced \/ registry \notin {{}, registry'})
  /\ UNCHANGED <<bound, rowIds, funded, deleting, opsLock, doubtful>>

InsertSession(c) ==
  /\ creating[c].phase = "registered"
  /\ \E s \in {t \in SessionIds: bound[t] = {}}:
       \/ rowIds' = rowIds \union {s} /\ bound' = [bound EXCEPT ![s] = creating[c].wallet] /\ Answers
       \/ UNCHANGED <<rowIds, bound>> /\ Faulty("insert")
  /\ creating' = [creating EXCEPT ![c] = [phase |-> "idle", listed |-> {}, wallet |-> {}]]
  /\ UNCHANGED <<registry, funded, deleting, opsLock, notes>>

(* The gateway or the storage refuses: the call ends.                        *)
CreateFails(c) ==
  /\ creating[c].phase \in {"listed", "registered"}
  /\ creating' = [creating EXCEPT ![c] = [phase |-> "idle", listed |-> {}, wallet |-> {}]]
  /\ UNCHANGED <<bound, rowIds, registry, funded, deleting, opsLock, bindFaults, notes>>

----------------------------------------------------------------------------
(* delete_session with guard_delete_preserves_last_wallet_binding.           *)

WalletOf(d) == UNION {bound[s]: s \in deleting[d].id}
At(d, phase) == deleting' = [deleting EXCEPT ![d].phase = phase]
Leave(d) ==
  /\ deleting' = [deleting EXCEPT ![d] = [phase |-> "idle", id |-> {}, sawEmpty |-> FALSE]]
  /\ opsLock' = {}

LoadSession(d) ==
  /\ deleting[d].phase = "idle"
  /\ \E s \in rowIds: deleting' = [deleting EXCEPT ![d] = [phase |-> "loaded", id |-> {s}, sawEmpty |-> FALSE]]
  /\ UNCHANGED <<bound, rowIds, registry, funded, creating, opsLock, bindFaults, notes>>

(* Under the lock: the registry has the wallet, or the other rows are asked. *)
CheckRegistry(d) ==
  /\ deleting[d].phase = "loaded" /\ opsLock = {} /\ opsLock' = {d}
  /\ \/ Answers /\ At(d, IF WalletOf(d) \subseteq registry THEN "delete" ELSE "others")
     \/ Faulty("registry") /\ At(d, "others")
  /\ UNCHANGED <<bound, rowIds, registry, funded, creating, notes>>

CheckOthers(d) ==
  /\ deleting[d].phase = "others"
  /\ \/ Answers /\ At(d, IF WalletOf(d) \subseteq BoundByRows(rowIds \ deleting[d].id) THEN "delete" ELSE "funds")
     \/ Faulty("others") /\ At(d, "funds")
  /\ UNCHANGED <<bound, rowIds, registry, funded, creating, opsLock, notes>>

(* Mutant: the balance is not looked at.                                     *)
CheckNothing(d) ==
  /\ deleting[d].phase = "funds" /\ At(d, "delete")
  /\ UNCHANGED <<bound, rowIds, registry, funded, creating, opsLock, bindFaults, notes>>

(* agent_wallet_may_hold_funds: an unreachable balance counts as funds.      *)
CheckFunds(d) ==
  /\ deleting[d].phase = "funds"
  /\ \/ /\ WalletOf(d) \cap funded = {}
        /\ deleting' = [deleting EXCEPT ![d].phase = "delete", ![d].sawEmpty = TRUE]
        /\ UNCHANGED opsLock
     \/ Leave(d)
  /\ UNCHANGED <<bound, rowIds, registry, funded, creating, bindFaults, notes>>

(* PostgresStorage._request takes no filter from the path: it deletes nothing *)
(* and the call still answers "deleted".                                     *)
DeleteRow(d) ==
  /\ deleting[d].phase = "delete"
  /\ \/ rowIds' \in {rowIds, rowIds \ deleting[d].id} /\ Answers
     \/ UNCHANGED rowIds /\ Faulty("delete")
  /\ Leave(d)
  /\ UNCHANGED <<bound, registry, funded, creating, notes>>

----------------------------------------------------------------------------
(* The owner funds a wallet a session shows; withdraw_funds empties the one  *)
(* of the registry or, without a row, of a session.                          *)
FundWallet ==
  /\ \E w \in BoundByRows(rowIds) \ funded: funded' = funded \union {w}
  /\ UNCHANGED <<bound, rowIds, registry, creating, deleting, opsLock, bindFaults, notes>>

EmptyWallet ==
  /\ opsLock = {}
  /\ \E w \in IF registry # {} THEN registry ELSE BoundByRows(rowIds):
       w \in funded /\ funded' = funded \ {w}
  /\ UNCHANGED <<bound, rowIds, registry, creating, deleting, opsLock, bindFaults, notes>>

(* A restart ends the calls in flight and frees the lock.                    *)
BindingRestart ==
  /\ creating' = [c \in Creators |-> [phase |-> "idle", listed |-> {}, wallet |-> {}]]
  /\ deleting' = [d \in Deleters |-> [phase |-> "idle", id |-> {}, sawEmpty |-> FALSE]]
  /\ opsLock' = {}
  /\ UNCHANGED <<bound, rowIds, registry, funded, bindFaults, notes>>

BindingNext ==
  \/ \E c \in Creators: \/ ListSessions(c) \/ ChooseWallet(c) \/ RegisterWallet(c)
                        \/ InsertSession(c) \/ CreateFails(c)
  \/ \E d \in Deleters: \/ LoadSession(d) \/ CheckRegistry(d) \/ CheckOthers(d)
                        \/ CheckFunds(d) \/ DeleteRow(d)
  \/ FundWallet \/ EmptyWallet \/ BindingRestart

BindingSpec == BindingInit /\ [][BindingNext]_bindingVars

----------------------------------------------------------------------------
(* sessions.py:119: the registry keeps one wallet per owner "so the binding  *)
(* (and any USDC the wallet holds) survives session deletion".  Unless       *)
(* another wallet was registered over it, a wallet that holds USDC loses its *)
(* last binding only to a deletion that found it empty before the USDC       *)
(* arrived; and another is registered over one only if two creations ran at  *)
(* once or one failed to read the registry.                                  *)
FundsStayBound ==
  [][/\ ~replaced' => \A w \in funded: Bound(w) =>
          \/ Bound(w)'
          \/ \E d \in Deleters: deleting[d].sawEmpty /\ w \in WalletOf(d)
     /\ replaced' => doubtful']_bindingVars
=============================================================================
