---------------------------- MODULE EuthynaChain ----------------------------
(***************************************************************************)
(* The Euthyna audit trail of services/euthyna_audit.py: every process has *)
(* a copy of the records in memory; record_action loads the trail, chains  *)
(* a record to the last one and saves it, under a lock of the process and  *)
(* one between processes.                                                  *)
(*                                                                         *)
(* Where the trail is depends on the path of the audit file: "storage" is  *)
(* the database, used when the path is the default of the working          *)
(* directory; "file" is the JSON file; any other path with                 *)
(* QMA_STORAGE_BACKEND=postgres is taken for a custom file, which that     *)
(* setting then neither reads nor writes: "nowhere".                       *)
(***************************************************************************)
EXTENDS Naturals, Sequences, FiniteSets, SequencesExt

CONSTANTS
  Writers,      \* processes that record actions
  Places,       \* where the trail may be
  MaxRecords,   \* bound on records
  ReadsFail     \* a read of the database may fail

ASSUME ChainAssumption ==
  /\ Places \subseteq {"storage", "file", "nowhere"}
  /\ MaxRecords \in Nat /\ ReadsFail \in BOOLEAN /\ "free" \notin Writers

VARIABLES
  place,      \* where the trail is
  trailRows,  \* the durable trail: record, predecessor, and whether it was read before
  books,      \* _records of each process
  euthyna,    \* the processes: where each is, and whether its read failed
  holder,     \* of the lock euthyna_audit_trail
  made,       \* records made so far
  health      \* what verify_integrity said of the trail last

chainStateVars == <<place, trailRows, books, euthyna, holder, made, health>>

Genesis == 0
ChainInit ==
  /\ place \in Places /\ trailRows = <<>> /\ books = [w \in Writers |-> <<>>]
  /\ euthyna = [w \in Writers |-> [at |-> "idle", unread |-> FALSE]]
  /\ holder = "free" /\ made = 0 /\ health = "PASSED"

\* _load_records: what becomes of the memory.
LoadsTo == IF place = "nowhere" THEN <<>> ELSE trailRows
PredecessorIn(book) == IF book = <<>> THEN Genesis ELSE Last(book).id

\* Mutant: without the lock between processes.
BeginRecordUnlocked(w) ==
  /\ euthyna[w].at = "idle" /\ made < MaxRecords
  /\ holder' = w
  /\ books' = [books EXCEPT ![w] = LoadsTo]
  /\ euthyna' = [euthyna EXCEPT ![w] = [at |-> "append", unread |-> FALSE]]
  /\ UNCHANGED <<place, trailRows, made, health>>

\* record_action takes the locks and loads the trail; a read that failed leaves
\* nothing.
BeginRecord(w) ==
  /\ euthyna[w].at = "idle" /\ holder = "free" /\ made < MaxRecords
  /\ holder' = w
  /\ \/ /\ books' = [books EXCEPT ![w] = LoadsTo]
        /\ euthyna' = [euthyna EXCEPT ![w] = [at |-> "append", unread |-> FALSE]]
     \/ /\ ReadsFail /\ place = "storage"
        /\ books' = [books EXCEPT ![w] = <<>>]
        /\ euthyna' = [euthyna EXCEPT ![w] = [at |-> "append", unread |-> TRUE]]
  /\ UNCHANGED <<place, trailRows, made, health>>

\* The record is chained, appended and saved.  A database save that fails is
\* raised, and may have happened; one of the file is only logged.
AppendRecord(w) ==
  LET id == made + 1
      row == [id |-> id, prev |-> PredecessorIn(books[w]), unread |-> euthyna[w].unread]
      saved == CASE place = "storage" -> Append(trailRows, row)
                 [] place = "file"    -> Append(books[w], row)
                 [] place = "nowhere" -> trailRows
  IN
  /\ euthyna[w].at = "append"
  /\ made' = id
  /\ books' = [books EXCEPT ![w] = Append(@, row)]
  /\ trailRows' \in {trailRows, saved}
  /\ euthyna' = [euthyna EXCEPT ![w].at = "idle"]
  /\ holder' = "free"
  /\ UNCHANGED <<place, health>>

\* _evaluate_integrity: every record but the first names the one before it.
Chained(book) == \A i \in 2..Len(book) : book[i].prev = book[i - 1].id

\* verify_integrity: the memory, then the trail.
VerifyIntegrity(w) ==
  /\ euthyna[w].at = "idle"
  /\ IF ~Chained(books[w])
     THEN health' = "COMPROMISED" /\ UNCHANGED books
     ELSE \E loaded \in {LoadsTo} \cup {b \in {<<>>} : ReadsFail /\ place = "storage"} :
            /\ books' = [books EXCEPT ![w] = loaded]
            /\ health' = IF Chained(loaded) THEN "PASSED" ELSE "COMPROMISED"
  /\ UNCHANGED <<place, trailRows, euthyna, holder, made>>

AuditRestart(w) ==
  /\ euthyna[w].at # "idle" \/ books[w] # LoadsTo
  /\ books' = [books EXCEPT ![w] = LoadsTo]
  /\ euthyna' = [euthyna EXCEPT ![w] = [at |-> "idle", unread |-> FALSE]]
  /\ holder' = IF holder = w THEN "free" ELSE holder
  /\ UNCHANGED <<place, trailRows, made, health>>

ChainNext == \E w \in Writers :
  BeginRecord(w) \/ AppendRecord(w) \/ VerifyIntegrity(w) \/ AuditRestart(w)

ChainSpec == ChainInit /\ [][ChainNext]_chainStateVars

AuditRows == [id: 1..MaxRecords, prev: 0..MaxRecords, unread: BOOLEAN]
ChainTypeOK ==
  /\ place \in Places
  /\ trailRows \in Seq(AuditRows) /\ \A w \in Writers : books[w] \in Seq(AuditRows)
  /\ euthyna \in [Writers -> [at: {"idle", "append"}, unread: BOOLEAN]]
  /\ holder \in Writers \cup {"free"}
  /\ made \in 0..MaxRecords
  /\ health \in {"PASSED", "COMPROMISED"}

\* The trail is one chain whatever processes record at once, fail to save or
\* restart: a record that does not continue it was made after a failed read.
ForkNeedsAFailedRead ==
  \A i \in 2..Len(trailRows) :
    trailRows[i].prev = trailRows[i - 1].id \/ trailRows[i].unread
============================================================================
