-------------------------- MODULE SqliteConnection --------------------------
(***************************************************************************)
(* What the code relies on of a SQLite connection (outside the repository):*)
(* savepoints, transactions, conflicts and foreign keys.                   *)
(*                                                                         *)
(* A database says of every row whether it is absent, as it was before the *)
(* programs under study, or as one of their statements wrote it.           *)
(***************************************************************************)
EXTENDS Integers, Sequences, FiniteSets

CONSTANTS
  Rows,       \* rows, by their key
  Refs,       \* the rows each row references
  Deferred,   \* rows whose foreign keys are DEFERRABLE INITIALLY DEFERRED
  Abandons    \* rows under a constraint declared ON CONFLICT ROLLBACK

ASSUME RowsAssumption == Rows # {}
ASSUME RefsAssumption == Refs \in [Rows -> SUBSET Rows]
ASSUME DeferredAssumption == Deferred \subseteq Rows
ASSUME AbandonsAssumption == Abandons \subseteq Rows

Versions == {"absent", "old", "new"}
Database == [Rows -> Versions]

\* INSERT of one or more rows; ON CONFLICT as _conflict_sql writes it; whether
\* Python can bind every parameter (an int beyond 64 bits cannot be bound, and
\* the OverflowError is no sqlite3.Error).
Statement ==
  [rows : SUBSET Rows, conflict : {"none", "do_nothing", "do_update"}, binds : BOOLEAN]

Connection ==
  [ db        : Database,   \* what the connection sees
    committed : Database,   \* what every other connection sees
    outer     : BOOLEAN,    \* a transaction that no savepoint of ours opened
    held      : BOOLEAN,    \* our savepoint exists
    image     : Database,   \* the database when it was set
    fk        : BOOLEAN ]   \* foreign_keys

Present(db) == {r \in Rows : db[r] # "absent"}
Dangling(db) == {r \in Present(db) : ~(Refs[r] \subseteq Present(db))}

Fresh(db, fk) ==
  [db |-> db, committed |-> db, outer |-> FALSE, held |-> FALSE, image |-> db, fk |-> fk]

InTransaction(c) == c.outer \/ c.held

\* The row a statement leaves: inserted when absent, replaced by DO UPDATE.
Written(s, db) ==
  [r \in Rows |->
     IF r \in s.rows /\ (db[r] = "absent" \/ s.conflict = "do_update")
     THEN "new" ELSE db[r]]

Conflicts(s, db) == IF s.conflict = "none" THEN s.rows \cap Present(db) ELSE {}

\* Enforced foreign keys a statement leaves broken.
BrokenBy(s, c) ==
  IF c.fk THEN Dangling(Written(s, c.db)) \ Dangling(c.db) ELSE {}

\* How a statement may end.  With several conflicting rows the order in the
\* VALUES list decides which is met first.
Outcomes(s, c) ==
  IF ~s.binds THEN {"OverflowError"}
  ELSE IF Conflicts(s, c.db) # {} THEN
         {"rollback" : r \in Conflicts(s, c.db) \cap Abandons}
           \cup {"unique" : r \in Conflicts(s, c.db) \ Abandons}
  ELSE IF BrokenBy(s, c) \ Deferred # {} THEN {"foreign_key"}
  ELSE {"ok"}

\* PRAGMA foreign_keys = ON does nothing inside a transaction.
EnableForeignKeys(c) == IF InTransaction(c) THEN c ELSE [c EXCEPT !.fk = TRUE]

Savepoint(c) == [c EXCEPT !.held = TRUE, !.image = c.db]
RollbackTo(c) == [c EXCEPT !.db = c.image]

\* RELEASE of a savepoint that opened the transaction is a COMMIT, and COMMIT
\* fails while a deferred foreign key is broken.
CommitBlocked(c) == c.fk /\ ~(Dangling(c.db) \subseteq Dangling(c.committed))
ReleaseBlocked(c) == ~c.outer /\ CommitBlocked(c)
Commit(c) == [c EXCEPT !.committed = c.db, !.outer = FALSE, !.held = FALSE]
Release(c) == IF c.outer THEN [c EXCEPT !.held = FALSE] ELSE Commit(c)

Rollback(c) == [c EXCEPT !.db = c.committed, !.outer = FALSE, !.held = FALSE]
=============================================================================
