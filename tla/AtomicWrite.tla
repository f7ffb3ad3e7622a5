---------------------------- MODULE AtomicWrite -----------------------------
(***************************************************************************)
(* What execute_program promises: a program runs as one step.  All of its  *)
(* statements take effect, or none does; a dry run never takes effect.     *)
(* The database file only changes by whole programs.                       *)
(***************************************************************************)
EXTENDS SqliteConnection

CONSTANT Programs   \* compiled programs: a status and their statements

VARIABLES
  file,     \* the database file
  session   \* what the connection in use sees, and what it has committed

aVars == <<file, session>>

\* All statements of a program, none of which failed.
Effect(p, db) ==
  LET ss == {p.statements[i] : i \in DOMAIN p.statements}
  IN  [r \in Rows |->
         IF \E s \in ss : r \in s.rows /\ (db[r] = "absent" \/ s.conflict = "do_update")
         THEN "new" ELSE db[r]]

NoSession == [db |-> <<>>, committed |-> <<>>]

\* A connection is opened on the file or on a copy of it.
Open ==
  /\ session' = [db |-> file, committed |-> file]
  /\ UNCHANGED file

\* The caller's own uncommitted writes.
CallerWrites ==
  /\ session # NoSession
  /\ \E r \in Rows : session' = [session EXCEPT !.db[r] = "old"]
  /\ UNCHANGED file

RunProgram ==
  /\ session # NoSession
  /\ \E p \in Programs :
       LET db == Effect(p, session.db)
       IN  /\ session' \in {[session EXCEPT !.db = db],
                            [db |-> db, committed |-> db]}
           /\ file' \in {file, session'.committed}
           /\ file' # file => file = session.committed

CallerCommits ==
  /\ session # NoSession
  /\ session' = [session EXCEPT !.committed = session.db]
  /\ UNCHANGED file

\* SQLite itself rolls a transaction back.
Abandon ==
  /\ session # NoSession
  /\ session' = [session EXCEPT !.db = session.committed]
  /\ UNCHANGED file

Close ==
  /\ session' = NoSession
  /\ UNCHANGED file

AInit == file \in Database /\ session = NoSession
ANext == Open \/ CallerWrites \/ RunProgram \/ CallerCommits \/ Abandon \/ Close
ASpec == AInit /\ [][ANext]_aVars
=============================================================================
