---------------------------- MODULE RecordStores ----------------------------
(***************************************************************************)
(* The tables of records behind repositories/storage.py: the facade that    *)
(* the backend calls, and the back ends it wraps.  JsonStorage reads a      *)
(* whole file, changes one row and replaces the file, with or without the   *)
(* lock of that file; PostgresStorage and SupabaseStorage upsert one row.   *)
(* Threads save rows of one table and look rows up.  Of payment events and  *)
(* paid reports the process has a copy (core/state.py), which is replaced   *)
(* by what a reload has read, and saved as a whole.  Fabricated             *)
(* settlements, which the facade hides, are left out.                       *)
(***************************************************************************)
EXTENDS Integers, Sequences, FiniteSets, SequencesExt

CONSTANTS RecordBackends,  \* "json", "postgres" or "supabase"
          RecordTables,    \* the tables a behaviour may be about
          Savers,          \* threads, each of which does one thing
          RowKeys,         \* rows
          ReadAtMost,      \* how many rows a limited read returns
          MaxStoreFaults   \* failed reads, writes and requests

NoSaver == "none"

ASSUME RecordAssumption ==
  /\ RecordBackends \subseteq {"json", "postgres", "supabase"} /\ NoSaver \notin Savers
  /\ ReadAtMost \in Nat \ {0} /\ MaxStoreFaults \in Nat

VARIABLES engine,       \* the back end and the table
          rows,         \* the rows in the table, oldest first
          memory,       \* the rows of the process's copy of it (core/state.py)
          fileLock,     \* the saver that holds the lock of the file
          saver,        \* the threads
          written,      \* rows the back end has written
          answered,     \* rows whose saver was told nothing else
          missed,       \* written rows that a lookup did not find
          raced,        \* payments saved while a reload or the save of a list
                        \* that a reload has replaced was under way
          storeFaults   \* the faults so far: "read" or "write"

recVars == <<engine, rows, memory, fileLock, saver, written, answered, missed, raced,
             storeFaults>>

-----------------------------------------------------------------------------
(* How a back end keeps a table.  locks: its file is replaced under a lock; *)
(* quiet: a failed write is logged and the call returns; reads: which rows  *)
(* a read returns when there are more than its limit.                       *)

File(locks, reads) == [locks |-> locks, quiet |-> FALSE, reads |-> reads]

Upserts(quiet, reads) == [locks |-> FALSE, quiet |-> quiet, reads |-> reads]

JsonPayments     == File(TRUE, "all")
JsonReports      == File(TRUE, "all")
\* Mutant: the file of the invoices is replaced without its lock.
JsonInvoicesUnlocked == File(FALSE, "all")
JsonInvoices     == File(TRUE, "all")
JsonApplications == File(FALSE, "all")
JsonWithdrawals  == File(FALSE, "all")
JsonIncidents    == File(FALSE, "all")
JsonPositions    == File(FALSE, "all")
JsonAudit        == File(FALSE, "newest")
JsonSpendEvents  == File(FALSE, "all")
\* _request and _upsert replace the file of the sessions without the lock
\* that rpc takes.
JsonRequest      == File(FALSE, "oldest")
JsonRpc          == File(TRUE, "all")

JsonKeeps ==
  [payment_events |-> {JsonPayments}, paid_reports |-> {JsonReports},
   invoices |-> {JsonInvoices}, creator_applications |-> {JsonApplications},
   withdrawals |-> {JsonWithdrawals}, incidents |-> {JsonIncidents},
   vault_positions |-> {JsonPositions}, audit_trail |-> {JsonAudit},
   spend_events |-> {JsonSpendEvents}, agent_sessions |-> {JsonRequest, JsonRpc}]

PostgresPayments     == Upserts(FALSE, "newest")
PostgresReports      == Upserts(FALSE, "newest")
PostgresInvoices     == Upserts(FALSE, "newest")
PostgresApplications == Upserts(FALSE, "newest")
PostgresControls     == Upserts(FALSE, "some")
PostgresWithdrawals  == Upserts(TRUE, "all")
PostgresIncidents    == Upserts(FALSE, "oldest")
PostgresPositions    == Upserts(TRUE, "all")
PostgresAudit        == Upserts(FALSE, "newest")
PostgresSpendEvents  == Upserts(TRUE, "all")
PostgresRequest      == Upserts(FALSE, "some")
PostgresRpc          == Upserts(FALSE, "all")

PostgresKeeps ==
  [payment_events |-> {PostgresPayments}, paid_reports |-> {PostgresReports},
   invoices |-> {PostgresInvoices}, creator_applications |-> {PostgresApplications},
   provider_controls |-> {PostgresControls}, withdrawals |-> {PostgresWithdrawals},
   incidents |-> {PostgresIncidents}, vault_positions |-> {PostgresPositions},
   audit_trail |-> {PostgresAudit}, spend_events |-> {PostgresSpendEvents},
   agent_sessions |-> {PostgresRequest, PostgresRpc}]

SupabaseReports      == Upserts(FALSE, "newest")
SupabaseInvoices     == Upserts(FALSE, "newest")
SupabaseApplications == Upserts(FALSE, "newest")
SupabaseControls     == Upserts(FALSE, "some")
SupabaseWithdrawals  == Upserts(TRUE, "all")
SupabaseIncidents    == Upserts(FALSE, "oldest")
SupabasePositions    == Upserts(TRUE, "some")
SupabaseAudit        == Upserts(FALSE, "newest")
SupabaseSpendEvents  == Upserts(TRUE, "all")

\* Its save of payment events calls event_key, which the module does not
\* import: nothing is ever written there.
SupabaseKeeps ==
  [paid_reports |-> {SupabaseReports}, invoices |-> {SupabaseInvoices},
   creator_applications |-> {SupabaseApplications},
   provider_controls |-> {SupabaseControls}, withdrawals |-> {SupabaseWithdrawals},
   incidents |-> {SupabaseIncidents}, vault_positions |-> {SupabasePositions},
   audit_trail |-> {SupabaseAudit}, spend_events |-> {SupabaseSpendEvents}]

KeepsOf(backend) == CASE backend = "json" -> JsonKeeps
                      [] backend = "postgres" -> PostgresKeeps
                      [] OTHER -> SupabaseKeeps

\* What the facade does when the back end raises: "raise" on, "log" and
\* return, or "answer" FALSE.
FacadePayments     == "log"
FacadeReports      == "raise"
FacadeInvoices     == "raise"
FacadeApplications == "answer"
FacadeControls     == "answer"
FacadePositions    == "log"
FacadeAudit        == "log"
FacadeIncidents    == "log"

Facade ==
  [t \in RecordTables |->
     CASE t = "payment_events" -> FacadePayments [] t = "paid_reports" -> FacadeReports
       [] t = "invoices" -> FacadeInvoices
       [] t = "creator_applications" -> FacadeApplications
       [] t = "provider_controls" -> FacadeControls
       [] t = "vault_positions" -> FacadePositions [] t = "audit_trail" -> FacadeAudit
       [] t = "incidents" -> FacadeIncidents
       [] OTHER -> "raise"]                  \* called without the facade

IsFile == engine.backend = "json"

-----------------------------------------------------------------------------
NoRow == [at |-> "idle", key |-> NoSaver, keep |-> NoSaver, copy |-> <<>>]

RecInit ==
  /\ \E b \in RecordBackends : \E t \in RecordTables \cap DOMAIN KeepsOf(b) :
       engine = [backend |-> b, table |-> t]
  /\ rows = <<>> /\ memory = {} /\ fileLock = NoSaver
  /\ saver = [s \in Savers |-> NoRow]
  /\ written = {} /\ answered = {} /\ missed = {} /\ raced = {} /\ storeFaults = <<>>

At(s, step) == saver[s].at = step

Moves(s, step) == saver' = [saver EXCEPT ![s].at = step]

\* One more row, or the same row again in its place.
With(seq, k) == IF k \in ToSet(seq) THEN seq ELSE Append(seq, k)

\* The rows a read of the table may return.
Visible(reads) ==
  IF Len(rows) <= ReadAtMost \/ reads = "all" THEN {ToSet(rows)}
  ELSE CASE reads = "newest" -> {ToSet(SubSeq(rows, Len(rows) - ReadAtMost + 1, Len(rows)))}
         [] reads = "oldest" -> {ToSet(SubSeq(rows, 1, ReadAtMost))}
         [] OTHER -> {r \in SUBSET ToSet(rows) : Cardinality(r) = ReadAtMost}

FaultLeft == Len(storeFaults) < MaxStoreFaults

Fault(kind) == FaultLeft /\ storeFaults' = Append(storeFaults, kind)

\* The tables of which the process has a copy that is saved as a whole.
Copied == engine.table \in {"payment_events", "paid_reports"}

\* A copy of the list of payments is held that another list is to replace, or
\* has replaced.
Reloading == \E o \in Savers : saver[o].at \in {"reload", "replaced"}

Races(keys) ==
  raced' = IF IsFile /\ engine.table = "payment_events" /\ Reloading THEN raced \cup keys ELSE raced

-----------------------------------------------------------------------------
\* A saver calls the facade for one row.  A payment is first appended to the
\* process's list; the row of a verified report goes to a dict that main.py
\* bound before the state was loaded, not to the memory.
SaveRow(s, k) ==
  /\ At(s, "idle") /\ k \notin {saver[o].key : o \in Savers}
  /\ memory' = IF engine.table = "payment_events" THEN memory \cup {k} ELSE memory
  /\ \E keep \in KeepsOf(engine.backend)[engine.table] :
       saver' = [saver EXCEPT ![s] = [at |-> IF ~IsFile THEN "send"
                                             ELSE IF keep.locks THEN "lock" ELSE "load",
                                      key |-> k, keep |-> keep, copy |-> <<>>]]
  /\ Races({k})
  /\ UNCHANGED <<engine, rows, fileLock, written, answered, missed, storeFaults>>

\* run_paid_provider_report: the entitlement enters the process's copy, which
\* is then to be saved as a whole.
RecordEntitlement(s, k) ==
  /\ engine.table = "paid_reports" /\ At(s, "idle")
  /\ k \notin {saver[o].key : o \in Savers}
  /\ memory' = memory \cup {k}
  /\ \E keep \in KeepsOf(engine.backend)[engine.table] :
       saver' = [saver EXCEPT ![s] = [at |-> "entered", key |-> k, keep |-> keep,
                                      copy |-> <<>>]]
  /\ UNCHANGED <<engine, rows, fileLock, written, answered, missed, raced, storeFaults>>

\* refresh_unresolved_payment_events, in one thread of the process: Circle
\* tells something new of a payment of the list, which is then to be saved.
RefreshPayments(s) ==
  /\ engine.table = "payment_events" /\ At(s, "idle") /\ memory # {}
  /\ \A o \in Savers : saver[o].at \notin {"entered", "whole", "replaced"}
  /\ Moves(s, "entered")
  /\ UNCHANGED <<engine, rows, memory, fileLock, written, answered, missed, raced, storeFaults>>

\* The process's copy at that moment is passed to the facade.
PassCopy(s) ==
  /\ At(s, "entered")
  /\ Moves(s, "whole")
  /\ UNCHANGED <<engine, rows, memory, fileLock, written, answered, missed, raced, storeFaults>>

\* What the copy that s passed has in it: others go on adding to it, until a
\* reload has put another in its place.
Passed(s) == IF At(s, "whole") THEN memory ELSE ToSet(saver[s].copy)

\* The whole copy: a file becomes what it holds, in a database its rows are
\* upserted.  The lock of the file is free at that moment.
SaveWhole(s) ==
  /\ saver[s].at \in {"whole", "replaced"} /\ (IsFile => fileLock = NoSaver)
  /\ \/ /\ rows' = IF IsFile THEN SetToSeq(Passed(s))
                  ELSE rows \o SetToSeq(Passed(s) \ ToSet(rows))
        /\ written' = written \cup Passed(s)
        /\ answered' = answered \cup ({saver[s].key} \ {NoSaver})
        /\ Races(Passed(s) \ written)
        /\ UNCHANGED storeFaults
     \/ Fault("write") /\ UNCHANGED <<rows, written, answered, raced>>
  /\ Moves(s, "done")
  /\ UNCHANGED <<engine, memory, fileLock, missed>>

\* cross_process_lock on the file's name; a wait of 15 s ends in an error.
LockFile(s) ==
  /\ At(s, "lock") /\ fileLock = NoSaver
  /\ fileLock' = s /\ Moves(s, "load")
  /\ UNCHANGED <<engine, rows, memory, written, answered, missed, raced, storeFaults>>

\* What the facade's caller takes for saved after the back end raised.
Unless(kind, s) == IF kind = "log" THEN {saver[s].key} \ {NoSaver} ELSE {}

LockTimesOut(s) ==
  /\ saver[s].at \in {"lock", "whole", "replaced"} /\ fileLock # NoSaver
  /\ answered' = answered \cup Unless(Facade[engine.table], s)
  /\ Moves(s, "done")
  /\ UNCHANGED <<engine, rows, memory, fileLock, written, missed, raced, storeFaults>>

\* _load_json: a file that cannot be read is taken for an empty one.
LoadFile(s) ==
  /\ At(s, "load")
  /\ \/ saver' = [saver EXCEPT ![s].at = "write", ![s].copy = rows]
        /\ UNCHANGED storeFaults
     \/ saver' = [saver EXCEPT ![s].at = "write"] /\ Fault("read")
  /\ UNCHANGED <<engine, rows, memory, fileLock, written, answered, missed, raced>>

\* _save_json: a temporary file replaces the file, or an error leaves it.
WriteFile(s) ==
  /\ At(s, "write")
  /\ \/ /\ rows' = With(saver[s].copy, saver[s].key)
        /\ written' = written \cup {saver[s].key}
        /\ answered' = answered \cup {saver[s].key}
        /\ UNCHANGED storeFaults
     \/ /\ Fault("write")
        /\ answered' = answered \cup Unless(Facade[engine.table], s)
        /\ UNCHANGED <<rows, written>>
  /\ fileLock' = IF saver[s].keep.locks THEN NoSaver ELSE fileLock
  /\ Moves(s, "done")
  /\ UNCHANGED <<engine, memory, missed, raced>>

\* One statement or request; Supabase repeats a request that timed out, which
\* changes nothing when it was carried out.
UpsertRow(s) ==
  /\ At(s, "send")
  /\ \/ /\ rows' = With(rows, saver[s].key)
        /\ written' = written \cup {saver[s].key}
        /\ answered' = answered \cup {saver[s].key}
        /\ UNCHANGED storeFaults
     \/ /\ Fault("write")
        /\ answered' = answered \cup (IF saver[s].keep.quiet THEN {saver[s].key}
                                      ELSE Unless(Facade[engine.table], s))
        /\ UNCHANGED <<rows, written>>
  /\ Moves(s, "done")
  /\ UNCHANGED <<engine, memory, fileLock, missed, raced>>

\* A lookup of a row, which reads the table once.
LookUp(s, k) ==
  /\ At(s, "idle") /\ k \in written
  /\ \E keep \in KeepsOf(engine.backend)[engine.table] :
       \/ /\ \E seen \in Visible(keep.reads) :
               missed' = IF k \in seen THEN missed ELSE missed \cup {k}
          /\ UNCHANGED storeFaults
       \/ Fault("read") /\ UNCHANGED missed
  /\ Moves(s, "done")
  /\ UNCHANGED <<engine, rows, memory, fileLock, written, answered, raced>>

\* The payments whose saves are under way.
Saving == {saver[o].key : o \in {q \in Savers : saver[q].at \in {"lock", "load", "write"}}}

\* reload_persistent_state: the table is read, and then takes the place of
\* the process's copy, which a whole save that has it goes on using.  The
\* facade turns a failed read into an empty table.
ReloadReads(s) ==
  /\ Copied /\ At(s, "idle")
  /\ \E keep \in KeepsOf(engine.backend)[engine.table] :
       \/ /\ \E seen \in Visible(keep.reads) :
               saver' = [saver EXCEPT ![s].at = "reload", ![s].copy = SetToSeq(seen)]
          /\ UNCHANGED storeFaults
       \/ saver' = [saver EXCEPT ![s].at = "reload"] /\ Fault("read")
  /\ raced' = IF IsFile /\ engine.table = "payment_events" THEN raced \cup Saving ELSE raced
  /\ UNCHANGED <<engine, rows, memory, fileLock, written, answered, missed>>

ReloadTakes(s) ==
  /\ At(s, "reload")
  /\ memory' = ToSet(saver[s].copy)
  /\ saver' = [o \in Savers |->
       IF o = s THEN [saver[o] EXCEPT !.at = "done"]
       ELSE IF At(o, "whole") THEN [saver[o] EXCEPT !.at = "replaced", !.copy = SetToSeq(memory)]
       ELSE saver[o]]
  /\ UNCHANGED <<engine, rows, fileLock, written, answered, missed, raced, storeFaults>>

RecNext ==
  \E s \in Savers :
    \/ \E k \in RowKeys : SaveRow(s, k) \/ RecordEntitlement(s, k) \/ LookUp(s, k)
    \/ RefreshPayments(s) \/ PassCopy(s) \/ SaveWhole(s)
    \/ LockFile(s) \/ LockTimesOut(s) \/ LoadFile(s) \/ WriteFile(s)
    \/ UpsertRow(s) \/ ReloadReads(s) \/ ReloadTakes(s)

RecSpec == RecInit /\ [][RecNext]_recVars

-----------------------------------------------------------------------------
\* Tables that are never replaced by something older than themselves: those
\* of a database, and the file of the invoices, which every writer locks and
\* reads before it replaces it, while no read fails.
Guarded ==
  \/ ~IsFile
  \/ engine.table = "invoices" /\ "read" \notin ToSet(storeFaults)

\* The file of the payments, which the refresh replaces by the list in memory.
Listed == IsFile /\ engine.table = "payment_events" /\ "read" \notin ToSet(storeFaults)

\* Of those no written row is lost or, within the limit of a read, missed; and
\* a caller that was told no failure has its row written, where failures are
\* not only logged.
RowsAreKept ==
  /\ Guarded => written \subseteq ToSet(rows)
  /\ (Guarded /\ Len(rows) <= ReadAtMost) => missed = {}
  /\ (/\ Facade[engine.table] # "log" /\ engine.table # "paid_reports"
      /\ \A keep \in KeepsOf(engine.backend)[engine.table] : ~keep.quiet)
     => answered \subseteq written

\* The list of payments is saved without being read again, and loses those
\* that a reload did not see.
PaymentsAreKept == Listed => written \ raced \subseteq ToSet(rows)

\* A row that was written stays, whoever else saves, is found by every lookup
\* while the table is within the limit of its reads; and whoever was told that
\* a row is saved can rely on it, unless the back end or the facade logs its
\* failures only.  A payment in the file stays unless its save ran beside a
\* reload of the list, or beside the save of a list that a reload had replaced
\* (repositories/storage.py, json_store.py, postgres.py, supabase.py,
\* circle_client.py, core/state.py).
SavedRowsStay == RowsAreKept /\ PaymentsAreKept

\* Money and access are given only for what is durable (repositories/
\* storage.py, save_invoice): an entitlement whose save returned is stored.
EntitlementsStay == engine.table = "paid_reports" => answered \subseteq ToSet(rows)
=============================================================================
