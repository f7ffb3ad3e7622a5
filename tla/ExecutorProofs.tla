---------------------------- MODULE ExecutorProofs ----------------------------
(***************************************************************************)
(* For every set of programs and every database: the types, that a call    *)
(* leaves nothing behind or everything, what a preflight's verdict is      *)
(* worth, that execute_program implements AtomicWrite, and that a file     *)
(* never comes to hold a dangling key.                                     *)
(***************************************************************************)
EXTENDS Executor, TLAPS

Call == [op : Ops, target : Targets, program : Programs]

\* What a program is made of.
LEMMA ProgramTypes ==
  ASSUME NEW p \in Programs
  PROVE  /\ p.statements \in Seq(Statement)
         /\ Len(p.statements) \in Nat
         /\ DOMAIN p.statements = 1..Len(p.statements)
         /\ \A i \in 1..Len(p.statements) : p.statements[i] \in Statement
<1>1. p.statements \in Seq(Statement)
  BY ProgramsAssumption
<1> QED BY <1>1

\* The constants the variables hold outside of a call are of their types.
LEMMA IdleTypes ==
  /\ NoCall \in Call
  /\ NoConnection \in Connection
  /\ 0 \in 0..Len(NoCall.program.statements)
<1>1. NoCall.program \in Programs
  BY ProgramsAssumption DEF NoCall
<1>2. NoCall \in Call
  BY <1>1 DEF NoCall, Call, Ops, Targets
<1>3. NoConnection \in Connection
  BY DEF NoConnection, Fresh, Connection, Database, Versions
<1> QED BY <1>1, <1>2, <1>3, ProgramTypes

\* A new connection is one.
LEMMA FreshTypes ==
  ASSUME NEW db \in Database, NEW fk \in BOOLEAN
  PROVE  Fresh(db, fk) \in Connection
BY DEF Fresh, Connection

\* A statement turns a database into one.
LEMMA WrittenTypes ==
  ASSUME NEW s, NEW db \in Database
  PROVE  Written(s, db) \in Database
BY DEF Written, Database, Versions

\* The operations on connections give connections.
LEMMA OperationTypes ==
  ASSUME NEW c \in Connection
  PROVE  /\ EnableForeignKeys(c) \in Connection
         /\ Savepoint(c) \in Connection
         /\ RollbackTo(c) \in Connection
         /\ Release(c) \in Connection
         /\ Commit(c) \in Connection
         /\ Rollback(c) \in Connection
BY DEF EnableForeignKeys, Savepoint, RollbackTo, Release, Commit, Rollback, Connection

\* A call undone: back to the savepoint and released, or rolled back.
LEMMA RecoveredTypes ==
  ASSUME NEW c \in Connection
  PROVE  /\ Recovered(c) \in Connection
         /\ Release(RollbackTo(c)) \in Connection
BY OperationTypes DEF Recovered

-----------------------------------------------------------------------------
\* Where a call is: between calls nothing of one is left, our savepoint exists
\* while statements run, and only a call about to return has a result.
Frame ==
  /\ pc = "idle" => owner \in {"none", "caller"}
  /\ pc # "idle" => owner # "none"
  /\ pc \in {"idle", "begin"} => executed = 0
  /\ pc \in {"idle", "begin", "return"} => ~conn.held
  /\ result = "none" <=> pc # "return"

\* The end of a call, with the connection closed.
LEMMA LeaveTyped ==
  ASSUME TypeOK, Leave, Disconnect, UNCHANGED <<file, calls, admitted>>
  PROVE  (TypeOK /\ Frame)'
<1>1. ~NoConnection.held
  BY DEF NoConnection, Fresh
<1> QED BY <1>1, IdleTypes DEF TypeOK, Frame, Leave, Disconnect, Program, Call

\* The steps of the caller keep the types.
LEMMA CallerTyped ==
  ASSUME TypeOK, Frame, CallerOpens \/ CallerWrites \/ CallerCommits \/ CallerCloses
  PROVE  (TypeOK /\ Frame)'
<1>c. conn \in Connection
  BY DEF TypeOK
<1>1. conn' \in Connection /\ ~conn'.held
  <2>1. CASE CallerOpens
    BY <2>1, FreshTypes DEF CallerOpens, TypeOK, Fresh
  <2>2. CASE CallerWrites
    <3>1. PICK r \in Rows : conn' = [conn EXCEPT !.db[r] = "old", !.outer = TRUE]
      BY <2>2 DEF CallerWrites
    <3>2. [conn.db EXCEPT ![r] = "old"] \in Database
      BY <1>c DEF Connection, Database, Versions
    <3>3. conn' = [conn EXCEPT !.db = [conn.db EXCEPT ![r] = "old"], !.outer = TRUE]
      BY <3>1, <1>c DEF Connection
    <3>4. ~conn.held
      BY <2>2 DEF CallerWrites, Frame
    <3> QED BY <1>c, <3>2, <3>3, <3>4 DEF Connection
  <2>3. CASE CallerCommits
    BY <2>3, <1>c, OperationTypes DEF CallerCommits, Commit, Connection
  <2>4. CASE CallerCloses
    BY <2>4, IdleTypes DEF CallerCloses, NoConnection, Fresh
  <2> QED BY <2>1, <2>2, <2>3, <2>4
<1>2. UNCHANGED <<file, pc, call, executed, result, calls, start, admitted>>
  BY DEF CallerOpens, CallerWrites, CallerCommits, CallerCloses
<1>3. pc = "idle" /\ owner' \in {"none", "caller"}
  BY DEF CallerOpens, CallerWrites, CallerCommits, CallerCloses
<1> QED BY <1>1, <1>2, <1>3 DEF TypeOK, Frame, Program

\* A call begins.
LEMMA EnterTyped ==
  ASSUME TypeOK, Frame, Enter
  PROVE  (TypeOK /\ Frame)'
<1>1. PICK op \in Ops, target \in Targets, p \in Programs :
        /\ call' = [op |-> op, target |-> target, program |-> p]
        /\ owner' \in {"caller", "file", "copy"}
  BY DEF Enter
<1>2. call' \in Call /\ Program' \in Programs
  BY <1>1 DEF Call, Program
<1>3. conn' \in Connection /\ ~conn'.held
  BY FreshTypes DEF Enter, TypeOK, Frame, Fresh
<1>4. calls' \in 0..MaxCalls
  BY MaxCallsAssumption DEF Enter, TypeOK
<1>5. 0 \in 0..Len(Program'.statements)
  BY <1>2, ProgramTypes
<1>6. executed = 0 /\ result = "none"
  BY DEF Enter, Frame
<1> QED BY <1>1, <1>2, <1>3, <1>4, <1>5, <1>6 DEF TypeOK, Frame, Enter, Call, Program

\* The steps within a call keep the types.
LEMMA InCallTyped ==
  ASSUME TypeOK, Frame,
         \/ Reject \/ Begin \/ Execute \/ ExecuteFails
         \/ Undo \/ Keep \/ KeepFails \/ Recover
  PROVE  (TypeOK /\ Frame)'
<1>c. conn \in Connection /\ Len(Program.statements) \in Nat
  BY ProgramTypes DEF TypeOK, Program
<1>1. conn' \in Connection
  <2>1. CASE Begin
    BY <2>1, <1>c, OperationTypes DEF Begin
  <2>2. CASE Execute
    <3>1. Written(NextStatement, conn.db) \in Database
      BY <1>c, WrittenTypes DEF Connection
    <3> QED BY <2>2, <3>1, <1>c DEF Execute, Connection
  <2>3. CASE ExecuteFails
    BY <2>3, <1>c, OperationTypes DEF ExecuteFails
  <2>4. CASE Undo \/ Recover
    BY <2>4, <1>c, RecoveredTypes DEF Undo, Recover
  <2>5. CASE Keep
    BY <2>5, <1>c, OperationTypes DEF Keep
  <2>6. CASE Reject \/ KeepFails
    BY <2>6, <1>c DEF Reject, KeepFails
  <2> QED BY <2>1, <2>2, <2>3, <2>4, <2>5, <2>6
<1>2. executed' \in 0..Len(Program.statements) /\ call' = call
  BY <1>c DEF TypeOK, Reject, Begin, Execute, ExecuteFails, Undo, Keep, KeepFails, Recover
<1>3. file' \in Database
  BY <1>1 DEF TypeOK, Connection, Reject, Begin, Execute, ExecuteFails, Undo, Keep,
              KeepFails, Recover
<1>4. pc' = "return" => ~conn'.held
  BY <1>c DEF Frame, Reject, Begin, Execute, ExecuteFails, Undo, Keep, KeepFails, Recover,
              Recovered, Release, RollbackTo, Rollback, Commit, Connection
<1>5. /\ UNCHANGED <<owner, calls, start, admitted>>
      /\ pc # "idle" /\ pc' \in {"run", "recover", "return"}
      /\ pc' # "return" => pc # "return" /\ result' = result
      /\ pc' = "return" =>
           result' \in {"rejected", "dry_run_success", "success", "execution_error"}
  BY DEF Reject, Begin, Execute, ExecuteFails, Undo, Keep, KeepFails, Recover, Answer
<1> QED BY <1>1, <1>2, <1>3, <1>4, <1>5 DEF TypeOK, Frame, Program

\* A call returns.
LEMMA ReturnTyped ==
  ASSUME TypeOK, Frame, Return
  PROVE  (TypeOK /\ Frame)'
<1>1. admitted' \subseteq Programs \X Database
  <2>1. Program \in Programs /\ start.db \in Database
    BY DEF TypeOK, Program, Connection
  <2> QED BY <2>1 DEF Return, TypeOK
<1>2. CASE owner = "caller"
  BY <1>1, <1>2, IdleTypes DEF TypeOK, Frame, Return, Leave, Program, Call
<1>3. CASE owner # "caller"
  <2>1. ~NoConnection.held
    BY DEF NoConnection, Fresh
  <2> QED
    BY <1>1, <1>3, <2>1, IdleTypes DEF TypeOK, Frame, Return, Leave, Disconnect, Program, Call
<1> QED BY <1>2, <1>3

\* Every step keeps the types.
LEMMA TypedNext ==
  ASSUME TypeOK, Frame, [Next]_vars
  PROVE  (TypeOK /\ Frame)'
<1>1. CASE ExecuteRaises \/ Crash
  BY <1>1, LeaveTyped DEF ExecuteRaises, Crash
<1>2. CASE UNCHANGED vars
  BY <1>2 DEF vars, TypeOK, Frame, Program
<1> QED BY <1>1, <1>2, CallerTyped, EnterTyped, InCallTyped, ReturnTyped DEF Next

\* The types hold at first.
LEMMA TypedInit == Init => TypeOK /\ Frame
<1> SUFFICES ASSUME Init PROVE TypeOK /\ Frame
  OBVIOUS
<1>1. ~NoConnection.held
  BY DEF NoConnection, Fresh
<1> QED BY <1>1, IdleTypes, MaxCallsAssumption DEF Init, TypeOK, Frame, Call, Program

\* Every variable keeps its type, in every interleaving of calls, caller and
\* crashes.
THEOREM TypeCorrect == Spec => []TypeOK
<1>1. Spec => [](TypeOK /\ Frame)
  BY TypedInit, TypedNext, PTL DEF Spec
<1> QED BY <1>1, PTL

-----------------------------------------------------------------------------
\* What the first n statements of a program make of a database.
Prefix(p, n, db) ==
  [r \in Rows |->
     IF \E i \in 1..n : /\ r \in p.statements[i].rows
                        /\ db[r] = "absent" \/ p.statements[i].conflict = "do_update"
     THEN "new" ELSE db[r]]

\* A statement runs on a database with foreign keys on.
Accepts(s, db) == "ok" \in Outcomes(s, Fresh(db, TRUE))

\* Each of the first n statements runs after those before it.
AcceptedTo(p, n, db) == \A i \in 1..n : Accepts(p.statements[i], Prefix(p, i - 1, db))

\* Outside a transaction nothing is uncommitted; a file that is open is as its
\* connection has committed it, and no transaction of a caller's is on it.
Settled ==
  /\ owner # "none" /\ ~InTransaction(conn) => conn.db = conn.committed
  /\ owner = "file" => conn.committed = file /\ ~start.outer

\* A call finds its connection as it was, our savepoint not set.
Started ==
  pc # "idle" => /\ ~start.held
                 /\ ~start.outer => start.db = start.committed
                 /\ pc = "begin" => conn = start

\* The call can still be taken back.
Behind ==
  /\ conn.held
  /\ conn.image = start.db
  /\ conn.committed = start.committed
  /\ conn.outer = start.outer
  /\ ~start.outer => conn.fk

\* SQLite has taken it back, with the transaction it was in.
Abandoned ==
  /\ \E i \in DOMAIN Program.statements : Program.statements[i].rows \cap Abandons # {}
  /\ conn.db = start.committed
  /\ conn.committed = start.committed
  /\ ~InTransaction(conn)

Running ==
  pc = "run" =>
    /\ Program.status = "success"
    /\ Behind
    /\ conn.db = Prefix(Program, executed, start.db)
    /\ ~start.outer => /\ AcceptedTo(Program, executed, start.db)
                       /\ Dangling(conn.db) \subseteq Dangling(start.db) \cup Deferred

\* A real run that fails was not accepted, or leaves a deferred key broken.
Excused ==
  ~DryRun /\ ~start.outer =>
    \/ <<Program, start.db>> \notin admitted
    \/ \E r \in Deferred : r \in Dangling(Atomic!Effect(Program, start.db))

Recovering == pc = "recover" => (Behind \/ Abandoned) /\ Excused

Returning ==
  /\ result = "execution_error" => Excused
  /\ result = "dry_run_success" =>
       /\ DryRun
       /\ ~start.outer => AcceptedTo(Program, Len(Program.statements), start.db)

\* What a preflight accepted runs up to its commit.
AdmittedRan ==
  \A a \in admitted : AcceptedTo(a[1], Len(a[1].statements), a[2])

Inv ==
  /\ TypeOK /\ Frame /\ Settled /\ Started /\ Running /\ Recovering /\ Returning
  /\ NothingLeftBehind /\ SuccessIsWhole /\ AdmittedRan

-----------------------------------------------------------------------------
\* No statement has no effect, all statements have that of the program.
LEMMA PrefixEnds ==
  ASSUME NEW p \in Programs, NEW db \in Database
  PROVE  /\ Prefix(p, 0, db) = db
         /\ Prefix(p, Len(p.statements), db) = Atomic!Effect(p, db)
<1>1. Prefix(p, 0, db) = db
  BY DEF Prefix, Database
<1>2. ASSUME NEW r \in Rows
      PROVE  (\E i \in 1..Len(p.statements) :
                /\ r \in p.statements[i].rows
                /\ db[r] = "absent" \/ p.statements[i].conflict = "do_update")
             <=> \E s \in {p.statements[i] : i \in DOMAIN p.statements} :
                   r \in s.rows /\ (db[r] = "absent" \/ s.conflict = "do_update")
  BY ProgramTypes
<1>3. Prefix(p, Len(p.statements), db) = Atomic!Effect(p, db)
  BY <1>2 DEF Prefix, Atomic!Effect
<1> QED BY <1>1, <1>3

\* One more statement.
LEMMA PrefixStep ==
  ASSUME NEW p \in Programs, NEW db \in Database, NEW n \in Nat
  PROVE  Written(p.statements[n + 1], Prefix(p, n, db)) = Prefix(p, n + 1, db)
<1> DEFINE hit(r, i) == /\ r \in p.statements[i].rows
                        /\ db[r] = "absent" \/ p.statements[i].conflict = "do_update"
<1>1. ASSUME NEW r \in Rows
      PROVE  Written(p.statements[n + 1], Prefix(p, n, db))[r] = Prefix(p, n + 1, db)[r]
  <2>1. (\E i \in 1..(n + 1) : hit(r, i)) <=> (\E i \in 1..n : hit(r, i)) \/ hit(r, n + 1)
    <3>1. \A i : i \in 1..(n + 1) <=> i \in 1..n \/ i = n + 1
      OBVIOUS
    <3> HIDE DEF hit
    <3> QED BY <3>1
  <2>2. Prefix(p, n, db)[r] = IF \E i \in 1..n : hit(r, i) THEN "new" ELSE db[r]
    BY DEF Prefix
  <2>3. Prefix(p, n + 1, db)[r] = IF \E i \in 1..(n + 1) : hit(r, i) THEN "new" ELSE db[r]
    BY DEF Prefix
  <2>4. Written(p.statements[n + 1], Prefix(p, n, db))[r] =
          IF r \in p.statements[n + 1].rows
             /\ (Prefix(p, n, db)[r] = "absent" \/ p.statements[n + 1].conflict = "do_update")
          THEN "new" ELSE Prefix(p, n, db)[r]
    BY DEF Written
  <2>5. CASE \E i \in 1..n : hit(r, i)
    <3> HIDE DEF hit
    <3> QED BY <2>1, <2>2, <2>3, <2>4, <2>5
  <2>6. CASE ~\E i \in 1..n : hit(r, i)
    <3>1. Prefix(p, n, db)[r] = db[r]
      BY <2>2, <2>6
    <3>2. Prefix(p, n + 1, db)[r] = IF hit(r, n + 1) THEN "new" ELSE db[r]
      BY <2>1, <2>3, <2>6
    <3> QED BY <2>4, <3>1, <3>2
  <2> QED BY <2>5, <2>6
<1> QED BY <1>1 DEF Written, Prefix

\* A statement that may run has no other outcome.
LEMMA OkOnly ==
  ASSUME NEW s, NEW c, "ok" \in Outcomes(s, c)
  PROVE  /\ Outcomes(s, c) = {"ok"}
         /\ BrokenBy(s, c) \subseteq Deferred
<1>1. s.binds /\ Conflicts(s, c.db) = {}
  BY DEF Outcomes
<1>2. BrokenBy(s, c) \ Deferred = {}
  BY <1>1 DEF Outcomes
<1> QED BY <1>1, <1>2 DEF Outcomes

\* With foreign keys on, only the database decides.
LEMMA OutcomesOfDatabase ==
  ASSUME NEW s, NEW c, c.fk = TRUE
  PROVE  Outcomes(s, c) = Outcomes(s, Fresh(c.db, TRUE))
<1>1. Fresh(c.db, TRUE).db = c.db /\ Fresh(c.db, TRUE).fk = TRUE
  BY DEF Fresh
<1>2. BrokenBy(s, Fresh(c.db, TRUE)) = BrokenBy(s, c)
  BY <1>1 DEF BrokenBy
<1> HIDE DEF Fresh
<1> QED BY <1>1, <1>2 DEF Outcomes

-----------------------------------------------------------------------------
\* Without a result there is nothing to say of one.
LEMMA NoResult ==
  result = "none" => Returning /\ NothingLeftBehind /\ SuccessIsWhole
BY DEF Returning, NothingLeftBehind, SuccessIsWhole

\* A call left with its connection closed, finished or not.
LEMMA LeaveInv ==
  ASSUME Inv, Leave, Disconnect, UNCHANGED <<file, calls, admitted>>
  PROVE  Inv'
<1>1. (TypeOK /\ Frame)'
  BY LeaveTyped DEF Inv
<1>2. (Returning /\ NothingLeftBehind /\ SuccessIsWhole)'
  <2>1. result' = "none"
    BY DEF Leave
  <2> QED BY <2>1 DEF Returning, NothingLeftBehind, SuccessIsWhole
<1>3. (Settled /\ Started /\ Running /\ Recovering)'
  BY DEF Leave, Disconnect, Settled, Started, Running, Recovering
<1>4. AdmittedRan'
  BY DEF Inv, AdmittedRan
<1> QED BY <1>1, <1>2, <1>3, <1>4 DEF Inv

\* The caller's own steps.
LEMMA CallerInv ==
  ASSUME Inv, CallerOpens \/ CallerWrites \/ CallerCommits \/ CallerCloses
  PROVE  Inv'
<1>c. conn \in Connection
  BY DEF Inv, TypeOK
<1>0. /\ pc = "idle"
      /\ UNCHANGED <<file, pc, call, executed, result, calls, start, admitted>>
      /\ owner' \in {"none", "caller"}
  BY DEF CallerOpens, CallerWrites, CallerCommits, CallerCloses
<1>1. (TypeOK /\ Frame)'
  BY CallerTyped DEF Inv
<1>2. (Returning /\ NothingLeftBehind /\ SuccessIsWhole)'
  <2>1. result' = "none"
    BY <1>0 DEF Inv, Frame
  <2> QED BY <2>1 DEF Returning, NothingLeftBehind, SuccessIsWhole
<1>3. (Started /\ Running /\ Recovering)'
  BY <1>0 DEF Started, Running, Recovering
<1>4. AdmittedRan'
  BY <1>0 DEF Inv, AdmittedRan
<1>5. Settled'
  <2>1. CASE CallerOpens
    BY <1>0, <2>1 DEF CallerOpens, Settled, Fresh
  <2>2. CASE CallerWrites
    <3>1. conn'.outer
      BY <2>2, <1>c DEF CallerWrites, Connection
    <3> QED BY <1>0, <3>1 DEF Settled, InTransaction
  <2>3. CASE CallerCommits
    BY <1>0, <1>c, <2>3 DEF CallerCommits, Settled, Commit, Connection
  <2>4. CASE CallerCloses
    BY <1>0, <2>4 DEF CallerCloses, Settled
  <2> QED BY <2>1, <2>2, <2>3, <2>4
<1> QED BY <1>1, <1>2, <1>3, <1>4, <1>5 DEF Inv

\* A call begins: it finds the connection as it is.
LEMMA EnterInv ==
  ASSUME Inv, Enter
  PROVE  Inv'
<1>1. (TypeOK /\ Frame)'
  BY EnterTyped DEF Inv
<1>0. /\ pc = "idle" /\ pc' = "begin"
      /\ start' = conn' /\ result' = "none"
      /\ UNCHANGED <<file, admitted>>
      /\ conn' = IF owner = "caller" THEN conn ELSE Fresh(file, FALSE)
      /\ owner' = "caller" <=> owner = "caller"
      /\ owner' # "none"
      /\ owner \in {"none", "caller"}
  BY DEF Enter, Inv, Frame
<1>2. (Returning /\ NothingLeftBehind /\ SuccessIsWhole)'
  BY <1>0 DEF Returning, NothingLeftBehind, SuccessIsWhole
<1>3. ~conn'.held
  BY <1>0, <1>1 DEF Frame
<1>4. ~InTransaction(conn') => conn'.db = conn'.committed
  <2>1. CASE owner = "caller"
    BY <1>0, <2>1 DEF Inv, Settled
  <2>2. CASE owner # "caller"
    BY <1>0, <2>2 DEF Fresh
  <2> QED BY <2>1, <2>2
<1>5. Settled'
  <2>1. owner' = "file" => conn'.committed = file' /\ ~start'.outer
    BY <1>0 DEF Fresh
  <2> QED BY <1>4, <2>1 DEF Settled, InTransaction
<1>6. Started'
  BY <1>0, <1>3, <1>4 DEF Started, InTransaction
<1>7. (Running /\ Recovering /\ AdmittedRan)'
  BY <1>0 DEF Inv, Running, Recovering, AdmittedRan
<1> QED BY <1>1, <1>2, <1>5, <1>6, <1>7 DEF Inv

\* A program is refused: nothing was done.
LEMMA RejectInv ==
  ASSUME Inv, Reject
  PROVE  Inv'
<1>1. (TypeOK /\ Frame)'
  BY InCallTyped DEF Inv
<1>0. /\ pc = "begin" /\ pc' = "return" /\ result' = "rejected"
      /\ UNCHANGED <<file, owner, conn, call, executed, calls, start, admitted>>
      /\ conn = start /\ ~conn.held
  BY DEF Reject, Answer, Inv, Started, Frame
<1>2. (Returning /\ NothingLeftBehind /\ SuccessIsWhole)'
  BY <1>0 DEF Returning, NothingLeftBehind, SuccessIsWhole
<1>3. (Settled /\ Started /\ Running /\ Recovering /\ AdmittedRan)'
  BY <1>0 DEF Inv, Settled, Started, Running, Recovering, AdmittedRan
<1> QED BY <1>1, <1>2, <1>3 DEF Inv

\* Foreign keys on and the savepoint set: the call can be taken back.
LEMMA BeginInv ==
  ASSUME Inv, Begin
  PROVE  Inv'
<1>1. (TypeOK /\ Frame)'
  BY InCallTyped DEF Inv
<1>c. conn \in Connection /\ Program \in Programs /\ start.db \in Database
  BY DEF Inv, TypeOK, Program, Connection
<1>0. /\ pc = "begin" /\ pc' = "run" /\ result' = "none" /\ executed = 0
      /\ UNCHANGED <<file, owner, call, executed, calls, start, admitted>>
      /\ conn = start /\ ~conn.held /\ Program.status = "success"
      /\ conn' = Savepoint(EnableForeignKeys(conn))
  BY DEF Begin, Inv, Started, Frame
<1>2. (Returning /\ NothingLeftBehind /\ SuccessIsWhole)'
  BY <1>0 DEF Returning, NothingLeftBehind, SuccessIsWhole
<1>3. /\ conn'.held /\ conn'.image = conn.db /\ conn'.db = conn.db
      /\ conn'.committed = conn.committed /\ conn'.outer = conn.outer
      /\ ~conn.outer => conn'.fk
  BY <1>0, <1>c DEF Savepoint, EnableForeignKeys, InTransaction, Connection
<1>4. (Settled /\ Started /\ Recovering /\ AdmittedRan)'
  BY <1>0, <1>3 DEF Inv, Settled, Started, Recovering, AdmittedRan, InTransaction
<1>5. Behind'
  BY <1>0, <1>3 DEF Behind
<1>6. Prefix(Program, 0, start.db) = start.db
  BY <1>c, PrefixEnds
<1>7. Running'
  BY <1>0, <1>3, <1>5, <1>6 DEF Running, Program, AcceptedTo
<1> QED BY <1>1, <1>2, <1>4, <1>7 DEF Inv

\* A statement runs: one more of the program, and, with foreign keys on, a
\* statement that breaks none but deferred ones.
LEMMA ExecuteInv ==
  ASSUME Inv, Execute
  PROVE  Inv'
<1>1. (TypeOK /\ Frame)'
  BY InCallTyped DEF Inv
<1>c. /\ conn \in Connection /\ Program \in Programs /\ start.db \in Database
      /\ executed \in Nat
  BY ProgramTypes DEF Inv, TypeOK, Program, Connection
<1>0. /\ pc = "run" /\ pc' = "run" /\ result' = "none" /\ executed' = executed + 1
      /\ UNCHANGED <<file, owner, call, calls, start, admitted>>
      /\ "ok" \in Outcomes(NextStatement, conn)
      /\ conn' = [conn EXCEPT !.db = Written(NextStatement, conn.db)]
  BY DEF Execute, Inv, Frame
<1>2. (Returning /\ NothingLeftBehind /\ SuccessIsWhole)'
  BY <1>0 DEF Returning, NothingLeftBehind, SuccessIsWhole
<1>3. /\ conn'.db = Written(NextStatement, conn.db)
      /\ conn'.committed = conn.committed /\ conn'.outer = conn.outer
      /\ conn'.held = conn.held /\ conn'.image = conn.image /\ conn'.fk = conn.fk
  BY <1>0, <1>c DEF Connection
<1>r. Behind /\ conn.db = Prefix(Program, executed, start.db)
  BY <1>0 DEF Inv, Running
<1>4. (Settled /\ Started /\ Recovering /\ AdmittedRan)'
  BY <1>0, <1>3, <1>r DEF Inv, Settled, Started, Recovering, AdmittedRan, InTransaction, Behind
<1>5. Behind'
  BY <1>0, <1>3, <1>r DEF Behind
<1>6. conn'.db = Prefix(Program, executed + 1, start.db)
  BY <1>3, <1>c, <1>r, PrefixStep DEF NextStatement
<1>7. ASSUME ~start.outer
      PROVE  /\ AcceptedTo(Program, executed + 1, start.db)
             /\ Dangling(conn'.db) \subseteq Dangling(start.db) \cup Deferred
  <2>1. conn.fk = TRUE
    BY <1>7, <1>r, <1>c DEF Behind, Connection
  <2>2. Accepts(Program.statements[executed + 1], Prefix(Program, executed, start.db))
    BY <1>0, <1>r, <2>1, OutcomesOfDatabase DEF Accepts, NextStatement
  <2>3. AcceptedTo(Program, executed, start.db)
    BY <1>0, <1>7 DEF Inv, Running
  <2>4. AcceptedTo(Program, executed + 1, start.db)
    <3>1. \A i \in 1..(executed + 1) : i \in 1..executed \/ (i = executed + 1 /\ i - 1 = executed)
      BY <1>c
    <3> QED BY <2>2, <2>3, <3>1 DEF AcceptedTo
  <2>5. Dangling(conn'.db) \ Dangling(conn.db) \subseteq Deferred
    BY <1>0, <1>3, <2>1, OkOnly DEF BrokenBy
  <2>6. Dangling(conn.db) \subseteq Dangling(start.db) \cup Deferred
    BY <1>0, <1>7 DEF Inv, Running
  <2> QED BY <2>4, <2>5, <2>6
<1>8. Running'
  BY <1>0, <1>5, <1>6, <1>7 DEF Inv, Running, Program
<1> QED BY <1>1, <1>2, <1>4, <1>8 DEF Inv

\* A statement fails.  Of an accepted program none does; and if SQLite rolled
\* everything back, the statement met an ON CONFLICT ROLLBACK constraint.
LEMMA ExecuteFailsInv ==
  ASSUME Inv, ExecuteFails
  PROVE  Inv'
<1>1. (TypeOK /\ Frame)'
  BY InCallTyped DEF Inv
<1>c. /\ conn \in Connection /\ Program \in Programs /\ executed \in Nat
      /\ executed + 1 \in 1..Len(Program.statements)
      /\ DOMAIN Program.statements = 1..Len(Program.statements)
  BY ProgramTypes DEF Inv, TypeOK, Program, ExecuteFails
<1>0. /\ pc = "run" /\ pc' = "recover" /\ result' = "none"
      /\ UNCHANGED <<file, owner, call, executed, calls, start, admitted>>
  BY DEF ExecuteFails, Inv, Frame
<1>2. (Returning /\ NothingLeftBehind /\ SuccessIsWhole)'
  BY <1>0 DEF Returning, NothingLeftBehind, SuccessIsWhole
<1>r. Behind /\ conn.db = Prefix(Program, executed, start.db)
  BY <1>0 DEF Inv, Running
<1>3. PICK o \in Outcomes(NextStatement, conn) \cap {"unique", "foreign_key", "rollback"} :
        conn' = IF o = "rollback" THEN Rollback(conn) ELSE conn
  BY DEF ExecuteFails
<1>4. Behind' \/ Abandoned'
  <2>1. CASE o = "rollback"
    <3>1. conn' = Rollback(conn)
      BY <1>3, <2>1
    <3>2. Conflicts(NextStatement, conn.db) \cap Abandons # {}
      BY <1>3, <2>1 DEF Outcomes
    <3>3. NextStatement.rows \cap Abandons # {}
      BY <3>2 DEF Conflicts
    <3>4. /\ conn'.db = conn.committed /\ conn'.committed = conn.committed
          /\ ~InTransaction(conn')
      BY <3>1, <1>c DEF Rollback, Connection, InTransaction
    <3> QED BY <1>0, <1>c, <1>r, <3>3, <3>4 DEF Abandoned, Behind, NextStatement, Program
  <2>2. CASE o # "rollback"
    BY <1>0, <1>3, <1>r, <2>2 DEF Behind
  <2> QED BY <2>1, <2>2
<1>5. ASSUME ~start.outer PROVE <<Program, start.db>> \notin admitted
  <2>1. SUFFICES ASSUME <<Program, start.db>> \in admitted PROVE FALSE
    OBVIOUS
  <2>2. AcceptedTo(Program, Len(Program.statements), start.db)
    BY <2>1 DEF Inv, AdmittedRan
  <2>3. Accepts(NextStatement, conn.db)
    <3>1. executed + 1 - 1 = executed
      BY <1>c
    <3> QED BY <1>c, <1>r, <2>2, <3>1 DEF AcceptedTo, NextStatement
  <2>4. conn.fk = TRUE
    BY <1>5, <1>r, <1>c DEF Behind, Connection
  <2>5. "ok" \in Outcomes(NextStatement, conn)
    BY <2>3, <2>4, OutcomesOfDatabase DEF Accepts
  <2> QED BY <1>3, <2>5, OkOnly
<1>6. Recovering'
  BY <1>0, <1>4, <1>5 DEF Recovering, Excused, Program
<1>7. Settled'
  <2>1. CASE o = "rollback"
    BY <1>0, <1>c, <1>3, <2>1 DEF Inv, Settled, Rollback, Connection
  <2>2. CASE o # "rollback"
    BY <1>0, <1>3, <2>2 DEF Inv, Settled
  <2> QED BY <2>1, <2>2
<1>8. (Started /\ Running /\ AdmittedRan)'
  BY <1>0 DEF Inv, Started, Running, AdmittedRan
<1> QED BY <1>1, <1>2, <1>6, <1>7, <1>8 DEF Inv

\* Going back to the savepoint and releasing it gives what the call found.
LEMMA TakenBack ==
  ASSUME Inv, pc # "idle", Behind
  PROVE  /\ Release(RollbackTo(conn)).db = start.db
         /\ Release(RollbackTo(conn)).committed = start.committed
         /\ Release(RollbackTo(conn)).outer = start.outer
         /\ ~Release(RollbackTo(conn)).held
<1>1. conn \in Connection /\ start \in Connection
  BY DEF Inv, TypeOK
<1>2. ~start.outer => start.db = start.committed
  BY DEF Inv, Started
<1> QED BY <1>1, <1>2 DEF Behind, Release, RollbackTo, Commit, Connection

\* A dry run ends.
LEMMA UndoInv ==
  ASSUME Inv, Undo
  PROVE  Inv'
<1>1. (TypeOK /\ Frame)'
  BY InCallTyped DEF Inv
<1>0. /\ pc = "run" /\ pc' = "return" /\ result' = "dry_run_success" /\ DryRun
      /\ executed = Len(Program.statements)
      /\ UNCHANGED <<file, owner, call, executed, calls, start, admitted>>
      /\ conn' = Release(RollbackTo(conn))
  BY DEF Undo, Answer
<1>r. Behind
  BY <1>0 DEF Inv, Running
<1>2. /\ conn'.db = start.db /\ conn'.committed = start.committed
      /\ conn'.outer = start.outer /\ ~conn'.held
  BY <1>0, <1>r, TakenBack
<1>3. (NothingLeftBehind /\ SuccessIsWhole)'
  BY <1>0, <1>2 DEF NothingLeftBehind, SuccessIsWhole
<1>4. Returning'
  BY <1>0 DEF Inv, Running, Returning, Program, DryRun
<1>5. Settled'
  BY <1>0, <1>2, <1>r DEF Inv, Settled, Started, InTransaction, Behind
<1>6. (Started /\ Running /\ Recovering /\ AdmittedRan)'
  BY <1>0 DEF Inv, Started, Running, Recovering, AdmittedRan
<1> QED BY <1>1, <1>3, <1>4, <1>5, <1>6 DEF Inv

\* A real run keeps the whole program; if that commits it, it broke no key.
LEMMA KeepInv ==
  ASSUME Inv, Keep
  PROVE  Inv'
<1>1. (TypeOK /\ Frame)'
  BY InCallTyped DEF Inv
<1>c. conn \in Connection /\ Program \in Programs /\ start.db \in Database
  BY DEF Inv, TypeOK, Program, Connection
<1>0. /\ pc = "run" /\ pc' = "return" /\ result' = "success"
      /\ executed = Len(Program.statements)
      /\ UNCHANGED <<owner, call, executed, calls, start, admitted>>
      /\ ~ReleaseBlocked(conn)
      /\ conn' = Release(conn)
      /\ file' = IF owner = "file" THEN conn'.committed ELSE file
  BY DEF Keep, Answer
<1>r. Behind /\ conn.db = Atomic!Effect(Program, start.db)
  BY <1>0, <1>c, PrefixEnds DEF Inv, Running
<1>2. /\ conn'.db = conn.db /\ conn'.outer = conn.outer
      /\ ~conn.outer => conn'.committed = conn.db
  BY <1>0, <1>c DEF Release, Commit, Connection
<1>3. ASSUME ~start.outer PROVE Dangling(conn'.db) \subseteq Dangling(start.db)
  <2>1. ~CommitBlocked(conn) /\ conn.fk /\ conn.committed = start.db
    BY <1>0, <1>3, <1>r DEF ReleaseBlocked, Behind, Inv, Started
  <2> QED BY <1>2, <2>1 DEF CommitBlocked
<1>4. SuccessIsWhole'
  <2>1. Atomic!Effect(Program, start.db)' = Atomic!Effect(Program, start.db)
    BY <1>0 DEF Atomic!Effect, Program
  <2> QED BY <1>0, <1>2, <1>3, <1>r, <2>1 DEF SuccessIsWhole, Behind
<1>5. (Returning /\ NothingLeftBehind)'
  BY <1>0 DEF Returning, NothingLeftBehind
<1>6. Settled'
  BY <1>0, <1>2, <1>r DEF Inv, Settled, InTransaction, Behind
<1>7. (Started /\ Running /\ Recovering /\ AdmittedRan)'
  BY <1>0 DEF Inv, Started, Running, Recovering, AdmittedRan
<1> QED BY <1>1, <1>4, <1>5, <1>6, <1>7 DEF Inv

\* The commit is refused: a key is broken that was not, and only a deferred one
\* can be so after its statement.
LEMMA KeepFailsInv ==
  ASSUME Inv, KeepFails
  PROVE  Inv'
<1>1. (TypeOK /\ Frame)'
  BY InCallTyped DEF Inv
<1>c. Program \in Programs /\ start.db \in Database
  BY DEF Inv, TypeOK, Program, Connection
<1>0. /\ pc = "run" /\ pc' = "recover" /\ result' = "none"
      /\ executed = Len(Program.statements)
      /\ UNCHANGED <<file, owner, conn, call, executed, calls, start, admitted>>
      /\ ReleaseBlocked(conn)
  BY DEF KeepFails, Inv, Frame
<1>r. Behind /\ conn.db = Atomic!Effect(Program, start.db)
  BY <1>0, <1>c, PrefixEnds DEF Inv, Running
<1>2. ~(Dangling(conn.db) \subseteq Dangling(start.db)) /\ ~start.outer
  BY <1>0, <1>r DEF ReleaseBlocked, CommitBlocked, Behind, Inv, Started
<1>3. Dangling(conn.db) \subseteq Dangling(start.db) \cup Deferred
  BY <1>0, <1>2 DEF Inv, Running
<1>4. Excused'
  <2>1. \E r \in Deferred : r \in Dangling(Atomic!Effect(Program, start.db))
    BY <1>2, <1>3, <1>r
  <2> QED BY <1>0, <2>1 DEF Excused, Program, Atomic!Effect
<1>5. (Returning /\ NothingLeftBehind /\ SuccessIsWhole)'
  BY <1>0 DEF Returning, NothingLeftBehind, SuccessIsWhole
<1>6. Recovering'
  BY <1>0, <1>4, <1>r DEF Recovering, Behind
<1>7. (Settled /\ Started /\ Running /\ AdmittedRan)'
  BY <1>0 DEF Inv, Settled, Started, Running, AdmittedRan
<1> QED BY <1>1, <1>4, <1>5, <1>6, <1>7 DEF Inv

\* A failed call is taken back.
LEMMA RecoverInv ==
  ASSUME Inv, Recover
  PROVE  Inv'
<1>1. (TypeOK /\ Frame)'
  BY InCallTyped DEF Inv
<1>c. conn \in Connection
  BY DEF Inv, TypeOK
<1>0. /\ pc = "recover" /\ pc' = "return" /\ result' = "execution_error"
      /\ UNCHANGED <<file, owner, call, executed, calls, start, admitted>>
      /\ conn' = Recovered(conn)
  BY DEF Recover, Answer
<1>2. Returning'
  BY <1>0 DEF Inv, Recovering, Returning, Excused, Program, DryRun, Atomic!Effect
<1>3. CASE Behind
  <2>1. /\ conn'.db = start.db /\ conn'.committed = start.committed
        /\ conn'.outer = start.outer /\ ~conn'.held
    BY <1>0, <1>3, TakenBack DEF Recovered, Behind
  <2>2. (NothingLeftBehind /\ SuccessIsWhole)'
    BY <1>0, <2>1 DEF NothingLeftBehind, SuccessIsWhole
  <2>3. Settled'
    BY <1>0, <2>1, <1>3 DEF Inv, Settled, Started, InTransaction, Behind
  <2>4. (Started /\ Running /\ Recovering /\ AdmittedRan)'
    BY <1>0 DEF Inv, Started, Running, Recovering, AdmittedRan
  <2> QED BY <1>1, <1>2, <2>2, <2>3, <2>4 DEF Inv
<1>4. CASE Abandoned
  <2>1. /\ conn'.db = start.committed /\ conn'.committed = start.committed
        /\ ~InTransaction(conn')
    BY <1>0, <1>4, <1>c DEF Recovered, Abandoned, Rollback, InTransaction, Connection
  <2>2. (NothingLeftBehind /\ SuccessIsWhole)'
    BY <1>0, <1>4, <2>1 DEF NothingLeftBehind, SuccessIsWhole, Abandoned, Program
  <2>3. Settled'
    BY <1>0, <2>1, <1>4 DEF Inv, Settled, Abandoned
  <2>4. (Started /\ Running /\ Recovering /\ AdmittedRan)'
    BY <1>0 DEF Inv, Started, Running, Recovering, AdmittedRan
  <2> QED BY <1>1, <1>2, <2>2, <2>3, <2>4 DEF Inv
<1> QED BY <1>0, <1>3, <1>4 DEF Inv, Recovering

\* A call returns, and what a preflight accepted is known to have run.
LEMMA ReturnInv ==
  ASSUME Inv, Return
  PROVE  Inv'
<1>1. (TypeOK /\ Frame)'
  BY ReturnTyped DEF Inv
<1>0. /\ pc' = "idle" /\ result' = "none" /\ file' = file
      /\ IF owner = "caller" THEN UNCHANGED <<owner, conn>> ELSE owner' = "none"
  BY DEF Return, Leave, Disconnect
<1>2. (Returning /\ NothingLeftBehind /\ SuccessIsWhole)'
  BY <1>0 DEF Returning, NothingLeftBehind, SuccessIsWhole
<1>3. AdmittedRan'
  BY DEF Return, Inv, Returning, AdmittedRan
<1>4. (Settled /\ Started /\ Running /\ Recovering)'
  BY <1>0 DEF Inv, Settled, Started, Running, Recovering
<1> QED BY <1>1, <1>2, <1>3, <1>4 DEF Inv

\* Every step keeps the invariant.
LEMMA InvNext ==
  ASSUME Inv, [Next]_vars
  PROVE  Inv'
<1>1. CASE ExecuteRaises \/ Crash
  BY <1>1, LeaveInv DEF ExecuteRaises, Crash
<1>2. CASE UNCHANGED vars
  <2> USE <1>2 DEF vars, Program
  <2>1. (TypeOK /\ Frame /\ Settled /\ Started /\ AdmittedRan)'
    BY DEF Inv, TypeOK, Frame, Settled, Started, AdmittedRan
  <2>2. (Running /\ Recovering)'
    BY DEF Inv, Running, Recovering, Behind, Abandoned, Excused, DryRun, Atomic!Effect
  <2>3. (NothingLeftBehind /\ Returning)'
    BY DEF Inv, NothingLeftBehind, Returning, Excused, DryRun, Atomic!Effect
  <2>4. SuccessIsWhole'
    BY DEF Inv, SuccessIsWhole, Atomic!Effect
  <2> QED BY <2>1, <2>2, <2>3, <2>4 DEF Inv
<1> QED
  BY <1>1, <1>2, CallerInv, EnterInv, RejectInv, BeginInv, ExecuteInv, ExecuteFailsInv,
     UndoInv, KeepInv, KeepFailsInv, RecoverInv, ReturnInv DEF Next

\* The invariant holds at first.
LEMMA InvInit == Init => Inv
<1> SUFFICES ASSUME Init PROVE Inv
  OBVIOUS
<1>1. result = "none" /\ pc = "idle" /\ owner = "none" /\ admitted = {}
  BY DEF Init
<1> QED
  BY <1>1, TypedInit, NoResult DEF Inv, Settled, Started, Running, Recovering, AdmittedRan

\* The invariant always holds.
LEMMA InvAlways == Spec => []Inv
BY InvInit, InvNext, PTL DEF Spec

-----------------------------------------------------------------------------
\* A call that wrote nothing leaves its caller's connection and transaction as
\* it found them, whatever failed and wherever; only SQLite's own rollback of
\* the whole transaction is excepted.
THEOREM NothingIsLeftBehind == Spec => []NothingLeftBehind
<1>1. Inv => NothingLeftBehind
  BY DEF Inv
<1> QED BY <1>1, InvAlways, PTL

\* A call that reports success wrote all of its statements, and what it
\* committed itself breaks no foreign key.
THEOREM SuccessIsTheWhole == Spec => []SuccessIsWhole
<1>1. Inv => SuccessIsWhole
  BY DEF Inv
<1> QED BY <1>1, InvAlways, PTL

\* A program that preflight accepted can fail on the same database for one
\* reason: a deferred foreign key its commit checks.
THEOREM AdmittedFailures == Spec => []AdmittedFailsOnlyDeferred
<1>1. Inv => AdmittedFailsOnlyDeferred
  BY DEF Inv, Returning, Excused, AdmittedFailsOnlyDeferred, AdmittedFailed
<1> QED BY <1>1, InvAlways, PTL

-----------------------------------------------------------------------------
\* With an open connection there is a session, in the abstract too.
LEMMA SessionOpen ==
  ASSUME TypeOK, owner # "none"
  PROVE  /\ Session = View(conn)
         /\ Session # Atomic!NoSession
         /\ Session = [db |-> IF conn.held THEN conn.image ELSE conn.db,
                       committed |-> conn.committed]
<1>1. conn.committed \in Database
  BY DEF TypeOK, Connection
<1>2. DOMAIN conn.committed = Rows
  BY <1>1 DEF Database
<1>3. conn.committed # <<>>
  BY <1>2, RowsAssumption
<1>4. Session = View(conn) /\ View(conn).committed = conn.committed
  BY DEF Session, View
<1>5. Session # Atomic!NoSession
  BY <1>3, <1>4 DEF Atomic!NoSession
<1> QED BY <1>4, <1>5 DEF View

\* A connection that does the same, seen from outside a savepoint.
LEMMA SameView ==
  ASSUME UNCHANGED <<file, owner>>, owner = "none" \/ View(conn') = View(conn)
  PROVE  UNCHANGED Atomic!aVars
BY DEF Atomic!aVars, Session

\* The connection is closed.
LEMMA ClosedView ==
  ASSUME owner' = "none", file' = file
  PROVE  Atomic!Close
BY DEF Atomic!Close, Session, Atomic!NoSession

\* A connection is opened on the file, or on a copy of it.
LEMMA OpenedView ==
  ASSUME owner' # "none", file' = file, NEW fk, conn' = Fresh(file, fk)
  PROVE  Atomic!Open
BY DEF Atomic!Open, Session, View, Fresh

\* The caller's steps are the caller's, or nothing.
LEMMA CallerMaps ==
  ASSUME Inv, CallerOpens \/ CallerWrites \/ CallerCommits \/ CallerCloses
  PROVE  [Atomic!ANext]_(Atomic!aVars)
<1>t. TypeOK /\ TypeOK' /\ conn \in Connection
  BY CallerTyped DEF Inv, TypeOK
<1>1. CASE CallerOpens
  BY <1>1, OpenedView DEF CallerOpens, Atomic!ANext
<1>2. CASE CallerWrites
  <2>1. PICK r \in Rows : conn' = [conn EXCEPT !.db[r] = "old", !.outer = TRUE]
    BY <1>2 DEF CallerWrites
  <2>2. owner # "none" /\ owner' = owner /\ file' = file /\ ~conn.held
    BY <1>2 DEF CallerWrites, Inv, Frame
  <2>3. Session # Atomic!NoSession
    BY <1>t, <2>2, SessionOpen
  <2>4. Session = [db |-> conn.db, committed |-> conn.committed]
    BY <1>t, <2>2, SessionOpen
  <2>5. /\ conn'.db = [conn.db EXCEPT ![r] = "old"] /\ ~conn'.held
        /\ conn'.committed = conn.committed
    BY <1>t, <2>1, <2>2 DEF Connection
  <2>6. Session' = [db |-> conn'.db, committed |-> conn'.committed]
    BY <2>2, <2>5 DEF Session, View
  <2>7. Session' = [Session EXCEPT !.db[r] = "old"]
    BY <2>4, <2>5, <2>6
  <2>8. Atomic!CallerWrites
    BY <2>2, <2>3, <2>7 DEF Atomic!CallerWrites
  <2> QED BY <2>8 DEF Atomic!ANext
<1>3. CASE CallerCommits
  <2>1. owner # "none" /\ owner' = owner /\ file' = file /\ ~conn.held
    BY <1>3 DEF CallerCommits, Inv, Frame
  <2>2. /\ conn'.db = conn.db /\ conn'.committed = conn.db /\ ~conn'.held
    BY <1>3, <1>t DEF CallerCommits, Commit, Connection
  <2>3. /\ Session # Atomic!NoSession
        /\ Session = [db |-> conn.db, committed |-> conn.committed]
    BY <1>t, <2>1, SessionOpen
  <2>4. Session' = [db |-> conn.db, committed |-> conn.db]
    BY <2>1, <2>2 DEF Session, View
  <2>5. Atomic!CallerCommits
    BY <2>1, <2>3, <2>4 DEF Atomic!CallerCommits
  <2> QED BY <2>5 DEF Atomic!ANext
<1>4. CASE CallerCloses
  BY <1>4, ClosedView DEF CallerCloses, Atomic!ANext
<1> QED BY <1>1, <1>2, <1>3, <1>4

\* Nothing of a call is seen from outside until it keeps its program.
LEMMA UnseenMaps ==
  ASSUME Inv,
         \/ Reject \/ Begin \/ Execute \/ Undo \/ KeepFails
         \/ (Recover /\ Behind) \/ (Recover /\ Abandoned)
  PROVE  UNCHANGED Atomic!aVars
<1>t. TypeOK /\ conn \in Connection
  BY DEF Inv, TypeOK
<1>1. UNCHANGED <<file, owner>> /\ pc # "idle"
  BY DEF Reject, Begin, Execute, Undo, KeepFails, Recover
<1>2. CASE Reject \/ KeepFails
  <2>1. conn' = conn
    BY <1>2 DEF Reject, KeepFails
  <2> QED BY <1>1, <2>1, SameView DEF View
<1>3. CASE Begin
  <2>1. ~conn.held
    BY <1>3 DEF Begin, Inv, Frame
  <2>2. /\ conn'.held /\ conn'.image = conn.db /\ conn'.committed = conn.committed
    BY <1>3, <1>t DEF Begin, Savepoint, EnableForeignKeys, Connection
  <2> QED BY <1>1, <2>1, <2>2, SameView DEF View
<1>4. CASE Execute
  <2>1. conn.held
    BY <1>4 DEF Execute, Inv, Running, Behind
  <2>2. /\ conn'.held /\ conn'.image = conn.image /\ conn'.committed = conn.committed
    BY <1>4, <1>t, <2>1 DEF Execute, Connection
  <2> QED BY <1>1, <2>1, <2>2, SameView DEF View
<1>5. CASE Undo \/ (Recover /\ Behind)
  <2>1. Behind
    BY <1>5 DEF Undo, Inv, Running
  <2>2. conn' = Release(RollbackTo(conn))
    BY <1>5, <2>1 DEF Undo, Recover, Recovered, Behind
  <2>3. /\ conn'.db = start.db /\ conn'.committed = start.committed /\ ~conn'.held
    BY <1>1, <2>1, <2>2, TakenBack
  <2> QED BY <1>1, <2>1, <2>3, SameView DEF View, Behind
<1>6. CASE Recover /\ Abandoned
  <2>1. ~conn.held /\ conn.db = conn.committed
    BY <1>6 DEF Abandoned, InTransaction
  <2>2. conn' = Rollback(conn)
    BY <1>6, <2>1 DEF Recover, Recovered
  <2>3. conn'.db = conn.db /\ conn'.committed = conn.committed /\ ~conn'.held
    BY <1>t, <2>1, <2>2 DEF Rollback, Connection
  <2> QED BY <1>1, <2>1, <2>3, SameView DEF View
<1> QED BY <1>2, <1>3, <1>4, <1>5, <1>6

\* A statement that fails is not seen, unless SQLite abandons the transaction.
LEMMA FailureMaps ==
  ASSUME Inv, ExecuteFails
  PROVE  [Atomic!ANext]_(Atomic!aVars)
<1>t. TypeOK /\ conn \in Connection
  BY DEF Inv, TypeOK
<1>1. UNCHANGED <<file, owner>> /\ owner # "none"
  BY DEF ExecuteFails, Inv, Frame
<1>2. conn' = conn \/ conn' = Rollback(conn)
  BY DEF ExecuteFails
<1>3. CASE conn' = conn
  BY <1>1, <1>3, SameView
<1>4. CASE conn' = Rollback(conn)
  <2>1. ~conn'.held /\ conn'.db = conn.committed /\ conn'.committed = conn.committed
    BY <1>t, <1>4 DEF Rollback, Connection
  <2>2. Session' = [db |-> conn.committed, committed |-> conn.committed]
    BY <1>1, <2>1 DEF Session, View
  <2>3. Atomic!Abandon
    BY <1>t, <1>1, <2>2, SessionOpen DEF Atomic!Abandon
  <2> QED BY <2>3 DEF Atomic!ANext
<1> QED BY <1>2, <1>3, <1>4

\* Keeping a program is the one step in which it takes effect.
LEMMA KeepMaps ==
  ASSUME Inv, Keep
  PROVE  Atomic!RunProgram
<1>c. /\ TypeOK /\ conn \in Connection /\ Program \in Programs /\ start.db \in Database
      /\ owner # "none" /\ owner' = owner
  BY DEF Inv, TypeOK, Frame, Program, Connection, Keep
<1>0. /\ pc = "run" /\ executed = Len(Program.statements)
      /\ conn' = Release(conn)
      /\ file' = IF owner = "file" THEN conn'.committed ELSE file
  BY DEF Keep
<1>r. Behind /\ conn.db = Atomic!Effect(Program, start.db)
  BY <1>0, <1>c, PrefixEnds DEF Inv, Running
<1>1. /\ Session # Atomic!NoSession
      /\ Session = [db |-> start.db, committed |-> conn.committed]
  BY <1>c, <1>r, SessionOpen DEF Behind
<1>2. /\ conn'.db = conn.db /\ ~conn'.held
      /\ conn'.committed = conn.committed \/ conn'.committed = conn.db
  BY <1>0, <1>c DEF Release, Commit, Connection
<1>3. Session' = [db |-> conn.db, committed |-> conn'.committed]
  BY <1>c, <1>2 DEF Session, View
<1>4. owner = "file" => file = conn.committed
  BY DEF Inv, Settled
<1> DEFINE db == Atomic!Effect(Program, Session.db)
<1>5. db = conn.db
  BY <1>1, <1>r
<1>6. Session' \in {[Session EXCEPT !.db = db], [db |-> db, committed |-> db]}
  BY <1>1, <1>2, <1>3, <1>5
<1>7. /\ file' \in {file, Session'.committed}
      /\ file' # file => file = Session.committed
  BY <1>0, <1>1, <1>3, <1>4
<1> QED BY <1>c, <1>1, <1>6, <1>7 DEF Atomic!RunProgram

\* Every step is one of the abstract specification, or nothing.
LEMMA StepMaps ==
  ASSUME Inv, [Next]_vars
  PROVE  [Atomic!ANext]_(Atomic!aVars)
<1>1. CASE Enter
  <2>1. CASE owner = "caller"
    <3>1. UNCHANGED <<file, owner, conn>>
      BY <1>1, <2>1 DEF Enter
    <3> QED BY <3>1, SameView
  <2>2. CASE owner # "caller"
    <3>1. conn' = Fresh(file, FALSE) /\ file' = file /\ owner' # "none"
      BY <1>1, <2>2 DEF Enter
    <3> QED BY <3>1, OpenedView DEF Atomic!ANext
  <2> QED BY <2>1, <2>2
<1>2. CASE Recover
  BY <1>2, UnseenMaps DEF Inv, Recovering, Recover
<1>3. CASE Return
  <2>1. CASE owner = "caller"
    <3>1. UNCHANGED <<file, owner, conn>>
      BY <1>3, <2>1 DEF Return
    <3> QED BY <3>1, SameView
  <2>2. CASE owner # "caller"
    BY <1>3, <2>2, ClosedView DEF Return, Disconnect, Atomic!ANext
  <2> QED BY <2>1, <2>2
<1>4. CASE ExecuteRaises \/ Crash
  BY <1>4, ClosedView DEF ExecuteRaises, Crash, Disconnect, Atomic!ANext
<1>5. CASE UNCHANGED vars
  BY <1>5, SameView DEF vars
<1> QED
  BY <1>1, <1>2, <1>3, <1>4, <1>5, CallerMaps, UnseenMaps, FailureMaps, KeepMaps
  DEF Next, Atomic!ANext

\* execute_program and preflight_program implement AtomicWrite: whatever the
\* interleaving of calls, caller and crashes, a program takes effect in one
\* step or never.
THEOREM Implements == Spec => ImplementsAtomicWrite
<1>1. Init => Atomic!AInit
  BY DEF Init, Atomic!AInit, Session, Atomic!NoSession, Atomic!Database, Atomic!Versions,
         Database, Versions
<1>2. Inv /\ [Next]_vars => [Atomic!ANext]_(Atomic!aVars)
  BY StepMaps
<1> QED BY <1>1, <1>2, InvAlways, PTL DEF Spec, ImplementsAtomicWrite, Atomic!ASpec

-----------------------------------------------------------------------------
\* The file has no broken foreign key.
FileSound == Dangling(file) = {}

\* However calls, dry runs, failures and crashes follow each other, the programs
\* the executor commits to a file leave every foreign key of it intact, deferred
\* ones included.  A connection it opens itself is outside any transaction, so
\* that PRAGMA foreign_keys takes effect; what callers do is on their copies.
THEOREM FileStaysSound == Spec => []FileSound
<1>1. Init => FileSound
  BY DEF Init, FileSound
<1>2. Inv /\ FileSound /\ [Next]_vars => FileSound'
  <2> SUFFICES ASSUME Inv, FileSound, [Next]_vars PROVE FileSound'
    OBVIOUS
  <2>1. CASE Keep /\ owner = "file"
    <3>1. /\ pc = "run" /\ conn' = Release(conn) /\ file' = conn'.committed
          /\ ~ReleaseBlocked(conn) /\ conn \in Connection
      BY <2>1 DEF Keep, Inv, TypeOK
    <3>2. conn.committed = file /\ ~conn.outer /\ conn.fk
      BY <2>1, <3>1 DEF Inv, Settled, Running, Behind
    <3>3. Dangling(conn.db) \subseteq Dangling(file)
      BY <3>1, <3>2 DEF ReleaseBlocked, CommitBlocked
    <3>4. file' = conn.db
      BY <3>1, <3>2 DEF Release, Commit, Connection
    <3> QED BY <3>3, <3>4 DEF FileSound
  <2>2. CASE file' = file
    BY <2>2 DEF FileSound
  <2> QED
    BY <2>1, <2>2 DEF Next, vars, CallerOpens, CallerWrites, CallerCommits, CallerCloses,
       Enter, Reject, Begin, Execute, ExecuteFails, ExecuteRaises, Undo, Keep, KeepFails,
       Recover, Return, Crash
<1> QED BY <1>1, <1>2, InvAlways, PTL DEF Spec
===============================================================================
