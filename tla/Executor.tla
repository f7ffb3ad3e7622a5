------------------------------ MODULE Executor ------------------------------
(***************************************************************************)
(* compiler/executor.py: execute_program runs a compiled program behind    *)
(* one savepoint, for real or as a dry run; preflight_program is a dry run *)
(* on the caller's connection or on a copy of a database file.             *)
(*                                                                         *)
(* Callers pass a path, or a connection of theirs that may be inside a     *)
(* transaction; they close it when an exception comes out of a call, as    *)
(* the `finally' clauses of evaluator/state.py and repair/patch.py do.     *)
(***************************************************************************)
EXTENDS SqliteConnection

CONSTANTS
  Programs,   \* the compiled programs calls may be made with
  MaxCalls    \* bound: calls in a behaviour

ASSUME ProgramsAssumption ==
  /\ Programs # {}
  /\ Programs \subseteq [status : {"success", "partial", "error"}, statements : Seq(Statement)]
ASSUME MaxCallsAssumption == MaxCalls \in Nat

Ops == {"execute", "dry_run", "preflight"}
Targets == {"path", "connection"}

VARIABLES
  file,      \* the database file
  owner,     \* whose connection is open: "none", "caller", "file", "copy"
  conn,      \* the connection in use
  pc,        \* where the call is, "idle" between calls
  call,      \* the call: operation, target, program
  executed,  \* executed statements
  result,    \* status the call is about to return, "none" before
  calls,     \* number of calls made (bounded by MaxCalls)
  start,     \* auxiliary: the connection as the call found it
  admitted   \* auxiliary: programs a preflight outside a transaction
             \* accepted, with the database

vars == <<file, owner, conn, pc, call, executed, result, calls, start, admitted>>

Program == call.program
DryRun == call.op # "execute"

\* What the variables of a call hold outside of any.
NoConnection == Fresh([r \in Rows |-> "absent"], FALSE)
NoCall == [op |-> "execute", target |-> "path", program |-> CHOOSE p \in Programs : TRUE]

Init ==
  /\ file \in {db \in Database : "new" \notin {db[r] : r \in Rows} /\ Dangling(db) = {}}
  /\ owner = "none"
  /\ conn = NoConnection
  /\ pc = "idle"
  /\ call = NoCall
  /\ executed = 0
  /\ result = "none"
  /\ calls = 0
  /\ start = NoConnection
  /\ admitted = {}

-----------------------------------------------------------------------------
(* The caller's own connection.  snapshot_database copies the file and turns *)
(* foreign keys on; sqlite3.connect leaves them off.                         *)

CallerOpens ==
  /\ pc = "idle"
  /\ owner = "none"
  /\ calls < MaxCalls
  /\ owner' = "caller"
  /\ \E fk \in BOOLEAN : conn' = Fresh(file, fk)
  /\ UNCHANGED <<file, pc, call, executed, result, calls, start, admitted>>

\* An INSERT outside a savepoint: the sqlite3 module begins a transaction.
CallerWrites ==
  /\ pc = "idle"
  /\ owner = "caller"
  /\ calls < MaxCalls
  /\ \E r \in Rows :
       /\ conn.db[r] = "absent"
       /\ Refs[r] \subseteq Present(conn.db)
       /\ conn' = [conn EXCEPT !.db[r] = "old", !.outer = TRUE]
  /\ UNCHANGED <<file, owner, pc, call, executed, result, calls, start, admitted>>

CallerCommits ==
  /\ pc = "idle"
  /\ owner = "caller"
  /\ InTransaction(conn)
  /\ ~CommitBlocked(conn)
  /\ conn' = Commit(conn)
  /\ UNCHANGED <<file, owner, pc, call, executed, result, calls, start, admitted>>

CallerCloses ==
  /\ pc = "idle"
  /\ owner = "caller"
  /\ owner' = "none"
  /\ conn' = NoConnection
  /\ UNCHANGED <<file, pc, call, executed, result, calls, start, admitted>>

-----------------------------------------------------------------------------
(* A call.                                                                   *)

\* A path is opened; preflight copies it into :memory: and works on the copy.
Enter ==
  /\ pc = "idle"
  /\ calls < MaxCalls
  /\ \E op \in Ops, target \in Targets, p \in Programs :
       /\ target = "connection" <=> owner = "caller"
       /\ call' = [op |-> op, target |-> target, program |-> p]
       /\ owner' = IF target = "connection" THEN "caller"
                   ELSE IF op = "preflight" THEN "copy" ELSE "file"
  /\ conn' = IF owner = "caller" THEN conn ELSE Fresh(file, FALSE)
  /\ start' = conn'
  /\ calls' = calls + 1
  /\ pc' = "begin"
  /\ UNCHANGED <<file, executed, result, admitted>>

\* Mutant: the count of statements goes on from one call to the next.
LeaveCounting ==
  /\ pc' = "idle"
  /\ call' = NoCall
  /\ executed' = executed
  /\ result' = "none"
  /\ start' = NoConnection

\* The end of a call; its locals are gone.
Leave ==
  /\ pc' = "idle"
  /\ call' = NoCall
  /\ executed' = 0
  /\ result' = "none"
  /\ start' = NoConnection

Disconnect == owner' = "none" /\ conn' = NoConnection

Answer(status) == result' = status /\ pc' = "return"

\* A program without status success is not run.
Reject ==
  /\ pc = "begin"
  /\ Program.status # "success"
  /\ Answer("rejected")
  /\ UNCHANGED <<file, owner, conn, call, executed, calls, start, admitted>>

\* Mutant: a dry run does not turn foreign keys on.
BeginDryUnchecked ==
  /\ pc = "begin"
  /\ Program.status = "success"
  /\ conn' = Savepoint(IF DryRun THEN conn ELSE EnableForeignKeys(conn))
  /\ pc' = "run"
  /\ UNCHANGED <<file, owner, call, executed, result, calls, start, admitted>>

\* Mutant: foreign keys are left as the connection has them.
BeginUnchecked ==
  /\ pc = "begin"
  /\ Program.status = "success"
  /\ conn' = Savepoint(conn)
  /\ pc' = "run"
  /\ UNCHANGED <<file, owner, call, executed, result, calls, start, admitted>>

Begin ==
  /\ pc = "begin"
  /\ Program.status = "success"
  /\ conn' = Savepoint(EnableForeignKeys(conn))
  /\ pc' = "run"
  /\ UNCHANGED <<file, owner, call, executed, result, calls, start, admitted>>

NextStatement == Program.statements[executed + 1]

Execute ==
  /\ pc = "run"
  /\ executed < Len(Program.statements)
  /\ "ok" \in Outcomes(NextStatement, conn)
  /\ conn' = [conn EXCEPT !.db = Written(NextStatement, conn.db)]
  /\ executed' = executed + 1
  /\ UNCHANGED <<file, owner, pc, call, result, calls, start, admitted>>

\* sqlite3.Error: the statement had no effect, or, under ON CONFLICT ROLLBACK,
\* SQLite rolled the whole transaction back and our savepoint is gone.
ExecuteFails ==
  /\ pc = "run"
  /\ executed < Len(Program.statements)
  /\ \E o \in Outcomes(NextStatement, conn) \cap {"unique", "foreign_key", "rollback"} :
       conn' = IF o = "rollback" THEN Rollback(conn) ELSE conn
  /\ pc' = "recover"
  /\ UNCHANGED <<file, owner, call, executed, result, calls, start, admitted>>

\* Any other exception leaves with the savepoint set; whoever owns the
\* connection closes it.
ExecuteRaises ==
  /\ pc = "run"
  /\ executed < Len(Program.statements)
  /\ "OverflowError" \in Outcomes(NextStatement, conn)
  /\ Leave
  /\ Disconnect
  /\ UNCHANGED <<file, calls, admitted>>

\* Mutant: a dry run is released like a real one.
UndoReleased ==
  /\ pc = "run"
  /\ DryRun
  /\ executed = Len(Program.statements)
  /\ conn' = Release(conn)
  /\ Answer("dry_run_success")
  /\ UNCHANGED <<file, owner, call, executed, calls, start, admitted>>

\* A dry run: ROLLBACK TO, then RELEASE.
Undo ==
  /\ pc = "run"
  /\ DryRun
  /\ executed = Len(Program.statements)
  /\ conn' = Release(RollbackTo(conn))
  /\ Answer("dry_run_success")
  /\ UNCHANGED <<file, owner, call, executed, calls, start, admitted>>

\* RELEASE keeps the program; it commits unless the caller is in a transaction.
Keep ==
  /\ pc = "run"
  /\ ~DryRun
  /\ executed = Len(Program.statements)
  /\ ~ReleaseBlocked(conn)
  /\ conn' = Release(conn)
  /\ file' = IF owner = "file" THEN conn'.committed ELSE file
  /\ Answer("success")
  /\ UNCHANGED <<owner, call, executed, calls, start, admitted>>

KeepFails ==
  /\ pc = "run"
  /\ ~DryRun
  /\ executed = Len(Program.statements)
  /\ ReleaseBlocked(conn)
  /\ pc' = "recover"
  /\ UNCHANGED <<file, owner, conn, call, executed, result, calls, start, admitted>>

\* Mutant: the savepoint is released without going back to it.
Released(c) == Release(c)

\* ROLLBACK TO and RELEASE; both fail when the savepoint is gone, and then
\* conn.rollback() ends whatever transaction is left.
Recovered(c) == IF c.held THEN Release(RollbackTo(c)) ELSE Rollback(c)

Recover ==
  /\ pc = "recover"
  /\ conn' = Recovered(conn)
  /\ Answer("execution_error")
  /\ UNCHANGED <<file, owner, call, executed, calls, start, admitted>>

\* Connections the call opened are closed.
Return ==
  /\ pc = "return"
  /\ Leave
  /\ IF owner = "caller" THEN UNCHANGED <<owner, conn>> ELSE Disconnect
  /\ admitted' =
       IF call.op = "preflight" /\ result = "dry_run_success" /\ ~start.outer
       THEN admitted \cup {<<Program, start.db>>} ELSE admitted
  /\ UNCHANGED <<file, calls>>

\* The process dies: connections and copies are lost, SQLite's journal leaves
\* the file as last committed.
Crash ==
  /\ owner # "none"
  /\ Leave
  /\ Disconnect
  /\ UNCHANGED <<file, calls, admitted>>

Next ==
  \/ CallerOpens \/ CallerWrites \/ CallerCommits \/ CallerCloses
  \/ Enter \/ Reject \/ Begin \/ Execute \/ ExecuteFails \/ ExecuteRaises
  \/ Undo \/ Keep \/ KeepFails \/ Recover \/ Return \/ Crash

Spec == Init /\ [][Next]_vars

-----------------------------------------------------------------------------
TypeOK ==
  /\ file \in Database
  /\ owner \in {"none", "caller", "file", "copy"}
  /\ conn \in Connection
  /\ pc \in {"idle", "begin", "run", "recover", "return"}
  /\ call \in [op : Ops, target : Targets, program : Programs]
  /\ executed \in 0..Len(Program.statements)
  /\ result \in {"none", "rejected", "dry_run_success", "success", "execution_error"}
  /\ calls \in 0..MaxCalls
  /\ start \in Connection
  /\ admitted \subseteq Programs \X Database

\* The promise: to anyone who cannot look inside a savepoint, every call is
\* one step of AtomicWrite, or none.
View(c) == [db |-> IF c.held THEN c.image ELSE c.db, committed |-> c.committed]

Session == IF owner = "none" THEN [db |-> <<>>, committed |-> <<>>] ELSE View(conn)

Atomic == INSTANCE AtomicWrite WITH session <- Session

ImplementsAtomicWrite == Atomic!ASpec

\* A call that wrote nothing leaves the connection as it found it: no savepoint
\* stays set, and the caller's transaction with its writes is still there.  The
\* exception is a constraint declared ON CONFLICT ROLLBACK: SQLite has rolled
\* everything back and the connection is out of any transaction.
NothingLeftBehind ==
  result \in {"rejected", "dry_run_success", "execution_error"} =>
    \/ /\ conn.db = start.db
       /\ conn.committed = start.committed
       /\ conn.outer = start.outer
       /\ ~conn.held
    \/ /\ \E i \in DOMAIN Program.statements :
            Program.statements[i].rows \cap Abandons # {}
       /\ conn.db = start.committed
       /\ ~InTransaction(conn)

\* A call that reports success wrote the whole program; outside a transaction
\* of the caller's it is committed, and no foreign key was broken by it.
SuccessIsWhole ==
  result = "success" =>
    /\ conn.db = Atomic!Effect(Program, start.db)
    /\ ~start.outer => /\ conn.committed = conn.db
                       /\ Dangling(conn.db) \subseteq Dangling(start.db)

\* A real run, outside any transaction, of a program that a preflight accepted
\* on the same database, failed.
AdmittedFailed ==
  /\ result = "execution_error" /\ ~DryRun
  /\ ~start.outer
  /\ <<Program, start.db>> \in admitted

\* A program that a preflight accepted runs, unless it leaves a deferred foreign
\* key broken: a dry run never reaches the COMMIT that checks those.
AdmittedFailsOnlyDeferred ==
  AdmittedFailed =>
    \E r \in Deferred : r \in Dangling(Atomic!Effect(Program, start.db))

\* "This stage evaluates transactional executability and active SQLite
\* constraints": an accepted program does not then fail on the same database.
AdmittedRuns == ~AdmittedFailed
=============================================================================
