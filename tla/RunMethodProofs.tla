--------------------------- MODULE RunMethodProofs ---------------------------
(***************************************************************************)
(* For every split, batch size and set of configurations: the types, that  *)
(* a report was measured on the locked databases, that a resumed run       *)
(* keeps the rows of the checkpoint, that every request comes to a batch,  *)
(* and the measure by which a run ends.                                    *)
(***************************************************************************)
EXTENDS RunMethod, FiniteSetTheorems, WellFoundedInduction, TLAPS

\* The bounds, as numbers.
LEMMA BoundNat == N \in Nat /\ N > 0 /\ MaxCrashes \in Nat /\ MaxEdits \in Nat
BY NAssumption, BoundsAssumption

\* Versions can be compared.
LEMMA VersionsNat == \A v \in Versions : v \in Nat
BY BoundNat DEF Versions

\* The part of the types the versions are compared by.
LEMMA VersionTypes ==
  TypeOK => /\ database \in Nat /\ database \in Versions /\ locked \in Nat
            /\ evaluated \in Seq(Versions) /\ crashes \in Nat
<1> SUFFICES ASSUME TypeOK PROVE /\ database \in Nat /\ database \in Versions /\ locked \in Nat
                                 /\ evaluated \in Seq(Versions) /\ crashes \in Nat
  OBVIOUS
<1>1. /\ database \in Versions /\ locked \in Versions /\ evaluated \in Seq(Versions)
      /\ crashes \in 0..MaxCrashes
  BY DEF TypeOK
<1> QED BY <1>1, VersionsNat, BoundNat

\* There is a configuration.
LEMMA AnyConfigIn == AnyConfig \in Configs
BY ConfigsAssumption DEF AnyConfig

\* What the absent files hold is of the right type.
LEMMA AbsentTypes ==
  /\ NoRow \notin Row
  /\ NoRows \in Rows
  /\ NoLock \in [kind : FileKinds, config : Configs, database : Versions]
  /\ NoRaw \in [kind : FileKinds, rows : Rows]
  /\ NoReport \in [kind : FileKinds, config : Configs, database : Versions,
                   rows : Rows, on : [Samples -> Versions]]
  /\ NoManifest \in [kind : FileKinds, config : Configs]
<1>1. 0 \in Versions
  BY BoundNat DEF Versions
<1>2. NoRow \notin Row
  BY DEF NoRow, Row, Statuses
<1>3. NoRows \in Rows
  BY DEF NoRows, Rows
<1> QED
  BY <1>1, <1>2, <1>3, AnyConfigIn DEF NoLock, NoRaw, NoReport, NoManifest, FileKinds

\* Rows merged with a generated batch are rows.
LEMMA MergedRows ==
  ASSUME NEW batch \in SUBSET Samples, NEW status \in [batch -> Statuses],
         NEW rows \in Rows, NEW c \in Configs
  PROVE  [s \in Samples |-> IF s \in batch THEN [config |-> c, status |-> status[s]]
                            ELSE rows[s]] \in Rows
BY DEF Rows, Row

\* Appending a version to a sequence of versions.
LEMMA AppendVersion ==
  ASSUME NEW S, NEW q \in Seq(S), NEW v \in S
  PROVE  /\ Append(q, v) \in Seq(S)
         /\ Len(Append(q, v)) = Len(q) + 1
         /\ Len(q) \in Nat
         /\ \A i \in DOMAIN Append(q, v) :
              Append(q, v)[i] = v \/ (i \in DOMAIN q /\ Append(q, v)[i] = q[i])
OBVIOUS

\* What a crash leaves of a checkpoint is of its type.
LEMMA CutTypes ==
  ASSUME NEW rows \in Rows, NEW left \in Cut(rows)
  PROVE  left \in [kind : FileKinds, rows : Rows]
<1>1. CASE left = [kind |-> "torn", rows |-> NoRows]
  BY <1>1, AbsentTypes DEF FileKinds
<1>2. CASE \E k \in 0..(N - 1) :
             left = [kind |-> "whole",
                     rows |-> [s \in Samples |-> IF s <= k THEN rows[s] ELSE NoRow]]
  <2>1. PICK k \in 0..(N - 1) :
          left = [kind |-> "whole",
                  rows |-> [s \in Samples |-> IF s <= k THEN rows[s] ELSE NoRow]]
    BY <1>2
  <2>2. [s \in Samples |-> IF s <= k THEN rows[s] ELSE NoRow] \in Rows
    BY DEF Rows
  <2> QED BY <2>1, <2>2 DEF FileKinds
<1> QED BY <1>1, <1>2 DEF Cut

\* Every step keeps the types.
LEMMA TypeStep == TypeOK /\ [Next]_vars => TypeOK'
<1> SUFFICES ASSUME TypeOK, [Next]_vars PROVE TypeOK'
  OBVIOUS
<1> USE DEF FileKinds
<1>end. ASSUME End PROVE /\ pc' = "off" /\ config' \in Configs /\ resume' \in BOOLEAN
                         /\ locked' \in Versions /\ existing' \in Rows
                         /\ evaluated' \in Seq(Versions) /\ Len(evaluated') <= N
  <2>1. 0 \in Versions BY BoundNat DEF Versions
  <2>2. evaluated' \in Seq(Versions) /\ Len(evaluated') <= N
    BY <1>end, BoundNat DEF End
  <2> QED BY <1>end, <2>1, <2>2, AbsentTypes, AnyConfigIn DEF End
<1>1. ASSUME NEW c \in Configs, NEW r \in BOOLEAN, Launch(c, r) PROVE TypeOK'
  BY <1>1 DEF TypeOK, Launch, files
<1>2. CASE BuildLock
  BY <1>2 DEF TypeOK, BuildLock, files
<1>3. CASE RejectLock \/ ReadTorn \/ Return
  BY <1>3, <1>end DEF TypeOK, RejectLock, ReadTorn, Return, files
<1>4. CASE VerifyLock
  BY <1>4 DEF TypeOK, VerifyLock, files, memory
<1>5. CASE CreateLock
  BY <1>5 DEF TypeOK, CreateLock, ThisLock, memory
<1>6. CASE ReadRaw
  <2>1. Existing \in Rows
    BY AbsentTypes DEF TypeOK, Existing
  <2> QED BY <1>6, <2>1 DEF TypeOK, ReadRaw, files
<1>7. CASE Generate
  <2>1. NextBatch \in SUBSET Samples
    BY DEF NextBatch, Missing
  <2>2. existing' \in Rows
    <3>1. PICK status \in [NextBatch -> Statuses] :
            existing' = [s \in Samples |-> IF s \in NextBatch
                                           THEN [config |-> config, status |-> status[s]]
                                           ELSE existing[s]]
      BY <1>7 DEF Generate
    <3>2. existing \in Rows /\ config \in Configs
      BY DEF TypeOK
    <3> HIDE DEF NextBatch, Rows, Statuses, Row
    <3> QED BY ONLY <2>1, <3>1, <3>2, MergedRows
  <2> QED BY <1>7, <2>2 DEF TypeOK, Generate, files
<1>8. CASE WriteCheckpoint
  BY <1>8 DEF TypeOK, WriteCheckpoint, memory
<1>9. CASE WriteAll
  BY <1>9 DEF TypeOK, WriteAll, memory
<1>10. CASE Evaluate
  <2>1. evaluated' \in Seq(Versions) /\ Len(evaluated') <= N
    BY <1>10, AppendVersion, BoundNat DEF Evaluate, TypeOK
  <2> QED BY <1>10, <2>1 DEF TypeOK, Evaluate, files
<1>11. CASE Mutated \/ MarkInvalid
  BY <1>11, <1>end DEF TypeOK, Mutated, MarkInvalid
<1>12. CASE WriteReport
  <2>1. [s \in Samples |-> evaluated[s]] \in [Samples -> Versions]
    BY <1>12 DEF WriteReport, TypeOK, Samples
  <2> QED BY <1>12, <2>1 DEF TypeOK, WriteReport, memory
<1>13. CASE WriteManifest
  BY <1>13 DEF TypeOK, WriteManifest, memory
<1>14. CASE MarkConsumed
  BY <1>14, <1>end DEF TypeOK, MarkConsumed
<1>15. CASE Crash
  <2>1. crashes' \in 0..MaxCrashes
    <3>1. crashes \in 0..MaxCrashes
      BY DEF TypeOK
    <3>2. crashes < MaxCrashes /\ crashes' = crashes + 1
      BY <1>15 DEF Crash
    <3> QED BY <3>1, <3>2, BoundNat
  <2>2. raw' \in [kind : FileKinds, rows : Rows]
    BY <1>15, CutTypes DEF Crash, TypeOK, files
  <2>3. /\ lock' \in [kind : FileKinds, config : Configs, database : Versions]
        /\ manifest' \in [kind : FileKinds, config : Configs]
        /\ consumed' \in {consumed, consumed \cup {config}} /\ invalid' \in {invalid, TRUE}
    BY <1>15 DEF Crash, TypeOK, files
  <2>4. report' \in [kind : FileKinds, config : Configs, database : Versions,
                     rows : Rows, on : [Samples -> Versions]]
    BY <1>15 DEF Crash, TypeOK, files
  <2>5. End /\ database' = database
    BY <1>15 DEF Crash
  <2> QED BY <1>end, <2>1, <2>2, <2>3, <2>4, <2>5 DEF TypeOK
<1>16. CASE Edit
  <2>1. database' \in Versions
    <3>1. database \in 0..MaxEdits
      BY DEF TypeOK, Versions
    <3>2. database < MaxEdits /\ database' = database + 1
      BY <1>16 DEF Edit
    <3>3. database' \in 0..MaxEdits
      BY ONLY <3>1, <3>2, BoundNat
    <3> QED BY <3>3 DEF Versions
  <2>2. /\ lock' = lock /\ raw' = raw /\ report' = report /\ manifest' = manifest
        /\ consumed' = consumed /\ invalid' = invalid /\ pc' = pc /\ config' = config
        /\ resume' = resume /\ locked' = locked /\ existing' = existing
        /\ evaluated' = evaluated /\ crashes' = crashes
    BY <1>16 DEF Edit, files, memory
  <2>3. TypeOK
    OBVIOUS
  <2> HIDE DEF FileKinds
  <2> QED BY ONLY <2>1, <2>2, <2>3 DEF TypeOK
<1>17. CASE UNCHANGED vars
  <2>1. TypeOK
    OBVIOUS
  <2> HIDE DEF FileKinds
  <2> QED BY ONLY <1>17, <2>1 DEF TypeOK, vars
<1> QED
  BY <1>1, <1>2, <1>3, <1>4, <1>5, <1>6, <1>7, <1>8, <1>9, <1>10, <1>11, <1>12, <1>13,
     <1>14, <1>15, <1>16, <1>17 DEF Next, Work

\* Every reachable state is of the declared types.
THEOREM TypeCorrect == Spec => []TypeOK
<1>1. Init => TypeOK
  <2> SUFFICES ASSUME Init PROVE TypeOK
    OBVIOUS
  <2>1. 0 \in Versions /\ 0 \in 0..MaxCrashes BY BoundNat DEF Versions
  <2>2. evaluated \in Seq(Versions) /\ Len(evaluated) <= N
    BY BoundNat DEF Init
  <2> QED BY <2>1, <2>2, AbsentTypes, AnyConfigIn DEF Init, TypeOK
<1> QED BY <1>1, TypeStep, PTL DEF Spec

-----------------------------------------------------------------------------
\* The databases only move on, so that a run which finds them as it locked
\* them has met no other version.
IInv == TypeOK /\ Sandwiched /\ ReportedOnLockedDatabases

\* Every step keeps the versions met between the locked and the present one.
LEMMA SandwichStep == TypeOK /\ Sandwiched /\ [Next]_vars => Sandwiched'
<1> SUFFICES ASSUME TypeOK, Sandwiched, [Next]_vars PROVE Sandwiched'
  OBVIOUS
<1>0. database \in Nat /\ locked \in Nat /\ evaluated \in Seq(Versions)
  BY VersionTypes
<1>end. ASSUME End, database' = database PROVE Sandwiched'
  <2>1. evaluated' = <<>> /\ locked' = 0 /\ DOMAIN evaluated' = {}
    BY <1>end DEF End
  <2> QED BY <1>0, <1>end, <2>1 DEF Sandwiched
<1>1. ASSUME NEW c \in Configs, NEW r \in BOOLEAN, Launch(c, r) PROVE Sandwiched'
  BY <1>1 DEF Launch, Sandwiched
<1>2. CASE BuildLock
  <2>1. evaluated' = <<>> /\ locked' = database /\ database' = database
    BY <1>2 DEF BuildLock, Sandwiched
  <2>2. DOMAIN evaluated' = {}
    BY <2>1
  <2> QED BY <1>0, <2>1, <2>2 DEF Sandwiched
<1>3. CASE RejectLock \/ ReadTorn \/ Return \/ Mutated \/ MarkInvalid \/ MarkConsumed \/ Crash
  BY <1>3, <1>end DEF RejectLock, ReadTorn, Return, Mutated, MarkInvalid, MarkConsumed, Crash
<1>4. CASE VerifyLock \/ CreateLock \/ ReadRaw \/ Generate \/ WriteCheckpoint
  BY <1>4 DEF VerifyLock, CreateLock, ReadRaw, Generate, WriteCheckpoint, memory, Sandwiched
<1>5. CASE WriteAll \/ WriteReport \/ WriteManifest
  BY <1>5 DEF WriteAll, WriteReport, WriteManifest, memory, Sandwiched
<1>6. CASE Evaluate
  <2>1. /\ evaluated' = Append(evaluated, database)
        /\ database' = database /\ locked' = locked /\ pc' = "evaluate"
    BY <1>6 DEF Evaluate
  <2>2. \A i \in DOMAIN evaluated' : evaluated'[i] = database
          \/ (i \in DOMAIN evaluated /\ evaluated'[i] = evaluated[i])
    BY <1>0, <2>1, VersionTypes, AppendVersion
  <2> QED BY <1>0, <2>1, <2>2 DEF Sandwiched
<1>7. CASE Edit
  <2>1. /\ database' = database + 1 /\ locked' = locked /\ pc' = pc
        /\ evaluated' = evaluated
    BY <1>7 DEF Edit, memory
  <2>2. \A i \in DOMAIN evaluated : evaluated[i] \in Nat
    BY <1>0, BoundNat DEF Versions
  <2> QED BY <1>0, <2>1, <2>2 DEF Sandwiched
<1>8. CASE UNCHANGED vars
  BY <1>8 DEF vars, Sandwiched
<1> QED
  BY <1>1, <1>2, <1>3, <1>4, <1>5, <1>6, <1>7, <1>8 DEF Next, Work

\* The report is written only when the two are the same.
LEMMA ReportStep ==
  TypeOK /\ Sandwiched /\ ReportedOnLockedDatabases /\ [Next]_vars
    => ReportedOnLockedDatabases'
<1> SUFFICES ASSUME TypeOK, Sandwiched, ReportedOnLockedDatabases, [Next]_vars
             PROVE  ReportedOnLockedDatabases'
  OBVIOUS
<1>1. CASE WriteReport
  <2>1. /\ report'.kind = "whole" /\ report'.database = locked
        /\ report'.on = [s \in Samples |-> evaluated[s]]
        /\ database = locked /\ Len(evaluated) = N
    BY <1>1 DEF WriteReport, DatabaseChanged
  <2>2. evaluated \in Seq(Versions) /\ locked \in Nat
    BY VersionTypes
  <2>3. \A s \in Samples : evaluated[s] = locked
    BY <2>1, <2>2, BoundNat DEF Sandwiched, Samples, Versions
  <2> QED BY <2>1, <2>3 DEF ReportedOnLockedDatabases
<1>2. CASE Crash
  <2>1. report' = report \/ report' = [report EXCEPT !.kind = "torn"]
    BY <1>2 DEF Crash, files
  <2>2. CASE report' = [report EXCEPT !.kind = "torn"]
    <3>1. report'.kind = "torn"
      BY <2>2 DEF TypeOK
    <3> QED BY <3>1 DEF ReportedOnLockedDatabases
  <2> QED BY <2>1, <2>2 DEF ReportedOnLockedDatabases
<1>3. CASE report' = report
  BY <1>3 DEF ReportedOnLockedDatabases
<1> QED
  BY <1>1, <1>2, <1>3 DEF Next, Work, Launch, BuildLock, RejectLock, VerifyLock, CreateLock,
     ReadTorn, ReadRaw, Generate, WriteCheckpoint, WriteAll, Evaluate, Mutated, WriteManifest,
     Return, MarkInvalid, MarkConsumed, Edit, files, vars

\* However the edits of the databases fall between the hash, the evaluations
\* and the last check, a report was measured on the version its lock names.
THEOREM LockedDatabasesReported == Spec => []ReportedOnLockedDatabases
<1>1. Init => IInv
  <2> SUFFICES ASSUME Init PROVE Sandwiched /\ ReportedOnLockedDatabases /\ TypeOK
    BY DEF IInv
  <2>1. Sandwiched
    BY DEF Init, Sandwiched
  <2>2. ReportedOnLockedDatabases
    BY DEF Init, ReportedOnLockedDatabases, NoReport
  <2>3. 0 \in Versions /\ 0 \in 0..MaxCrashes BY BoundNat DEF Versions
  <2>4. evaluated \in Seq(Versions) /\ Len(evaluated) <= N
    BY BoundNat DEF Init
  <2>5. TypeOK
    BY <2>3, <2>4, AbsentTypes, AnyConfigIn DEF Init, TypeOK, FileKinds
  <2> QED BY <2>1, <2>2, <2>5
<1>2. IInv /\ [Next]_vars => IInv'
  BY TypeStep, SandwichStep, ReportStep DEF IInv
<1>3. IInv => ReportedOnLockedDatabases
  BY DEF IInv
<1> QED BY <1>1, <1>2, <1>3, PTL DEF Spec

-----------------------------------------------------------------------------
\* The lock in the directory is that of the run past it.
LEMMA LockStep == LockHeld /\ [Next]_vars => LockHeld'
<1> SUFFICES ASSUME LockHeld, [Next]_vars PROVE LockHeld'
  OBVIOUS
<1>end. ASSUME End PROVE LockHeld'
  BY <1>end DEF End, LockHeld
<1>1. ASSUME NEW c \in Configs, NEW r \in BOOLEAN, Launch(c, r) PROVE LockHeld'
  BY <1>1 DEF Launch, LockHeld
<1>2. CASE BuildLock
  BY <1>2 DEF BuildLock, LockHeld
<1>3. CASE RejectLock \/ ReadTorn \/ Return \/ Mutated \/ MarkInvalid \/ MarkConsumed \/ Crash
  BY <1>3, <1>end DEF RejectLock, ReadTorn, Return, Mutated, MarkInvalid, MarkConsumed, Crash
<1>4. CASE VerifyLock \/ CreateLock
  BY <1>4 DEF VerifyLock, CreateLock, ThisLock, LockHeld, files, memory
<1>5. CASE ReadRaw \/ Generate \/ WriteCheckpoint \/ WriteAll \/ Evaluate
  BY <1>5 DEF ReadRaw, Generate, WriteCheckpoint, WriteAll, Evaluate, ThisLock, LockHeld,
     files, memory
<1>6. CASE WriteReport \/ WriteManifest \/ Edit \/ UNCHANGED vars
  BY <1>6 DEF WriteReport, WriteManifest, Edit, ThisLock, LockHeld, files, memory, vars
<1> QED
  BY <1>1, <1>2, <1>3, <1>4, <1>5, <1>6 DEF Next, Work

\* The rows in memory extend those of the checkpoint, and then are on disk.
LEMMA RowsStep == TypeOK /\ RowsHeld /\ [Next]_vars => RowsHeld'
<1> SUFFICES ASSUME TypeOK, RowsHeld, [Next]_vars PROVE RowsHeld'
  OBVIOUS
<1>end. ASSUME pc' \in {"off", "build lock", "lock", "read"} PROVE RowsHeld'
  BY <1>end DEF RowsHeld
<1>1. CASE (\E c \in Configs, r \in BOOLEAN : Launch(c, r)) \/ BuildLock \/ VerifyLock \/ CreateLock
  BY <1>1, <1>end DEF Launch, BuildLock, VerifyLock, CreateLock
<1>2. CASE RejectLock \/ ReadTorn \/ Return \/ Mutated \/ MarkInvalid \/ MarkConsumed \/ Crash
  BY <1>2, <1>end DEF RejectLock, ReadTorn, Return, Mutated, MarkInvalid, MarkConsumed, Crash, End
<1>3. CASE ReadRaw
  BY <1>3 DEF ReadRaw, Existing, RowsHeld, files
<1>4. CASE Generate
  <2>1. /\ pc = "generate" /\ pc' = "checkpoint" /\ raw' = raw /\ resume' = resume
        /\ \A s \in Samples \ NextBatch : existing'[s] = existing[s]
    BY <1>4 DEF Generate, files
  <2>2. ASSUME resume, NEW s \in Has(raw.rows) PROVE existing'[s] = raw.rows[s]
    <3>1. existing[s] = raw.rows[s] /\ s \in Samples /\ existing[s] # NoRow
      BY <2>1, <2>2 DEF RowsHeld, Has
    <3>2. s \notin NextBatch
      BY <3>1 DEF NextBatch, Missing, Has
    <3> QED BY <2>1, <3>1, <3>2
  <2> QED BY <2>1, <2>2 DEF RowsHeld
<1>5. CASE WriteCheckpoint
  BY <1>5 DEF WriteCheckpoint, RowsHeld, memory
<1>6. CASE WriteAll
  BY <1>6 DEF WriteAll, RowsHeld, memory, Missing
<1>7. CASE WriteReport
  BY <1>7 DEF WriteReport, RowsHeld, memory, Missing
<1>8. CASE Evaluate \/ WriteManifest \/ Edit \/ UNCHANGED vars
  BY <1>8 DEF Evaluate, WriteManifest, Edit, RowsHeld, memory, files, vars, Missing
<1> QED
  BY <1>1, <1>2, <1>3, <1>4, <1>5, <1>6, <1>7, <1>8 DEF Next, Work

\* Nothing is held before the first run.
LEMMA HeldInit == Init => LockHeld /\ RowsHeld
BY DEF Init, LockHeld, RowsHeld

\* A resumed run never replaces a row of the checkpoint.
THEOREM RowsKept == Spec => ResumeKeepsRows
<1> DEFINE Keeps == resume /\ pc # "off" /\ crashes' = crashes =>
                      \A s \in Has(raw.rows) : raw'.rows[s] = raw.rows[s]
<1>1. TypeOK /\ RowsHeld /\ [Next]_vars => [Keeps]_vars
  <2> SUFFICES ASSUME TypeOK, RowsHeld, Next, resume, pc # "off", crashes' = crashes,
                      NEW s \in Has(raw.rows)
               PROVE  raw'.rows[s] = raw.rows[s]
    OBVIOUS
  <2>1. CASE WriteCheckpoint \/ WriteAll
    BY <2>1 DEF WriteCheckpoint, WriteAll, RowsHeld
  <2>2. CASE Crash
    <3>1. crashes' = crashes + 1 /\ crashes \in Nat
      BY <2>2, VersionTypes DEF Crash
    <3> QED BY <3>1
  <2>3. CASE raw' = raw
    BY <2>3
  <2> QED
    BY <2>1, <2>2, <2>3 DEF Next, Work, Launch, BuildLock, RejectLock, VerifyLock, CreateLock,
       ReadTorn, ReadRaw, Generate, Evaluate, Mutated, WriteReport, WriteManifest, Return,
       MarkInvalid, MarkConsumed, Edit, files
<1>2. Spec => []RowsHeld
  BY TypeCorrect, HeldInit, RowsStep, PTL DEF Spec
<1>3. Spec => [][Keeps]_vars
  BY <1>1, <1>2, TypeCorrect, PTL DEF Spec
<1> QED BY <1>3 DEF ResumeKeepsRows

\* A consumed marker appears only beside the agreeing lock, checkpoint and
\* report of its configuration, none of whose rows disqualifies it.
THEOREM ConsumptionSound == Spec => ConsumedIsSound
<1> DEFINE Sound == \A c \in consumed' \ consumed :
        /\ lock.kind = "whole" /\ lock.config = c
        /\ report.kind = "whole" /\ report.config = c
        /\ report.database = lock.database
        /\ raw.kind = "whole" /\ raw.rows = report.rows
        /\ \A s \in Samples :
             report.rows[s].status \in IF Stage[c] = "final" THEN {"success"}
                                       ELSE {"success", "error"}
<1>1. TypeOK /\ LockHeld /\ RowsHeld /\ [Next]_vars => [Sound]_vars
  <2> SUFFICES ASSUME TypeOK, LockHeld, RowsHeld, Next, NEW c \in consumed' \ consumed
               PROVE  /\ lock.kind = "whole" /\ lock.config = c
                      /\ report.kind = "whole" /\ report.config = c
                      /\ report.database = lock.database
                      /\ raw.kind = "whole" /\ raw.rows = report.rows
                      /\ \A s \in Samples :
                           report.rows[s].status \in IF Stage[c] = "final" THEN {"success"}
                                                     ELSE {"success", "error"}
    OBVIOUS
  <2>1. (MarkConsumed \/ Crash) /\ pc = "mark" /\ c = config /\ ~Disqualified(existing)
    BY DEF Next, MarkConsumed, Work, Launch, BuildLock, RejectLock, VerifyLock, CreateLock, ReadTorn,
       ReadRaw, Generate, WriteCheckpoint, WriteAll, Evaluate, Mutated, WriteReport,
       WriteManifest, Return, MarkInvalid, Crash, Edit, files
  <2>2. c = config /\ pc = "mark" /\ ~Disqualified(existing)
    BY <2>1
  <2>3. lock = ThisLock
    BY <2>2 DEF LockHeld
  <2>4. /\ raw = [kind |-> "whole", rows |-> existing] /\ Missing = {}
        /\ report.kind = "whole" /\ report.config = config
        /\ report.database = locked /\ report.rows = existing
    BY <2>2 DEF RowsHeld
  <2>5. \A s \in Samples : existing[s].status \in Statuses
    BY <2>4 DEF Missing, Has, TypeOK, Rows, Row
  <2>6. \A s \in Samples : existing[s].status \in IF Stage[c] = "final" THEN {"success"}
                                                   ELSE {"success", "error"}
    BY <2>2, <2>5 DEF Disqualified, Statuses
  <2> QED BY <2>2, <2>3, <2>4, <2>6 DEF ThisLock
<1>2. Spec => []RowsHeld /\ []LockHeld
  BY TypeCorrect, HeldInit, RowsStep, LockStep, PTL DEF Spec
<1>3. Spec => [][Sound]_vars
  BY <1>1, <1>2, TypeCorrect, PTL DEF Spec
<1> QED BY <1>3 DEF ConsumedIsSound

-----------------------------------------------------------------------------
(* What there is of termination without fairness: a process never runs out of *)
(* steps before its end, and every step brings the end closer.               *)

\* There are finitely many samples, N of them at most without a row.
LEMMA MissingFinite ==
  /\ IsFiniteSet(Missing) /\ Cardinality(Missing) \in 0..N
  /\ IsFiniteSet(Missing') /\ Cardinality(Missing') \in 0..N
<1>1. IsFiniteSet(1..N) /\ Cardinality(1..N) = N
  BY FS_Interval, BoundNat
<1>2. Missing \in SUBSET (1..N) /\ Missing' \in SUBSET (1..N)
  BY DEF Missing, Samples
<1>3. \A M \in SUBSET (1..N) : IsFiniteSet(M) /\ Cardinality(M) \in 0..N
  <2> TAKE M \in SUBSET (1..N)
  <2>1. IsFiniteSet(M) /\ Cardinality(M) <= Cardinality(1..N)
    BY <1>1, FS_Subset
  <2>2. Cardinality(M) \in Nat
    BY <2>1, FS_CardinalityType
  <2> QED BY <1>1, <2>1, <2>2, BoundNat
<1> QED BY <1>2, <1>3

\* The first sample without a row is in the next batch: cutting the missing
\* requests into batches never comes to nothing while one is missing.
LEMMA BatchNotEmpty ==
  ASSUME Missing # {}
  PROVE  NextBatch # {}
<1> DEFINE M == Missing
           Below(k) == {t \in M : t < k}
           T == {Below(k) : k \in M}
<1>1. M \subseteq Int /\ IsFiniteSet(M)
  BY MissingFinite, BoundNat DEF Missing, Samples
<1>2. T \subseteq FiniteSubsetsOf(M)
  <2>1. \A k \in M : Below(k) \subseteq M /\ IsFiniteSet(Below(k))
    BY <1>1, FS_Subset
  <2> QED BY <2>1 DEF FiniteSubsetsOf
<1>3. PICK x \in T : \A y \in T : ~ (<<y, x>> \in StrictSubsetOrdering(M))
  <2>1. T # {}
    OBVIOUS
  <2> HIDE DEF T
  <2> QED BY <2>1, <1>1, <1>2, FS_StrictSubsetOrderingWellFounded, WFMin
<1>4. PICK m \in M : x = Below(m)
  OBVIOUS
<1>5. Below(m) = {}
  <2> SUFFICES ASSUME NEW t \in M, t < m
               PROVE  FALSE
    OBVIOUS
  <2>1. Below(t) \in T
    OBVIOUS
  <2>2. \A u \in M : u < t => u < m
    BY <1>1
  <2>3. t < m /\ ~(t < t)
    BY <1>1
  <2>4. <<Below(t), Below(m)>> \in StrictSubsetOrdering(M)
    BY <2>2, <2>3 DEF StrictSubsetOrdering
  <2> QED BY <2>1, <2>4, <1>3, <1>4
<1>6. Cardinality({t \in Missing : t < m}) < Step
  BY <1>5, FS_EmptySet, BatchSizeAssumption DEF Step
<1> QED BY <1>6 DEF NextBatch

\* The loop over the batches has a batch to generate or a file to write.
NeverIdle == pc = "generate" => NextBatch # {} \/ Missing = {}

\* A process that generates is never left with requests that no batch holds.
THEOREM EveryRequestBatched == Spec => []NeverIdle
<1>1. NeverIdle
  BY BatchNotEmpty DEF NeverIdle
<1> QED BY <1>1, PTL

\* What is left of a process: stages, samples to generate and to evaluate.
StagesLeft ==
  CASE pc = "off"        -> 0
    [] pc = "mark"       -> 1
    [] pc = "manifest"   -> 2
    [] pc = "evaluate"   -> 3
    [] pc = "generate"   -> 4
    [] pc = "checkpoint" -> 5
    [] pc = "read"       -> 6
    [] pc = "lock"       -> 7
    [] pc = "build lock" -> 8

ToGenerate ==
  IF pc \in {"build lock", "lock", "read"} THEN N
  ELSE IF pc \in {"generate", "checkpoint"} THEN Cardinality(Missing)
  ELSE 0

ToEvaluate ==
  IF pc \in {"off", "manifest", "mark"} THEN 0
  ELSE IF pc = "evaluate" THEN N - Len(evaluated)
  ELSE N

Left == 2 * ToGenerate + ToEvaluate + StagesLeft
LessLeft == Left \in Nat /\ Left' \in Nat /\ Left' < Left

\* No more samples are evaluated than there are.
LEMMA EvaluatedTypes ==
  ASSUME TypeOK, TypeOK'
  PROVE  /\ evaluated \in Seq(Versions)
         /\ Len(evaluated) \in Nat /\ Len(evaluated) <= N
         /\ Len(evaluated') \in Nat /\ Len(evaluated') <= N
<1>1. /\ evaluated \in Seq(Versions) /\ Len(evaluated) <= N
      /\ evaluated' \in Seq(Versions) /\ Len(evaluated') <= N
  BY DEF TypeOK
<1> QED BY <1>1

\* The three are numbers.
LEMMA LeftTypes ==
  TypeOK /\ TypeOK' =>
    /\ ToGenerate \in Nat /\ ToEvaluate \in Nat /\ StagesLeft \in Nat
    /\ ToGenerate' \in Nat /\ ToEvaluate' \in Nat /\ StagesLeft' \in Nat
<1> SUFFICES ASSUME TypeOK, TypeOK'
             PROVE  /\ ToGenerate \in Nat /\ ToEvaluate \in Nat /\ StagesLeft \in Nat
                    /\ ToGenerate' \in Nat /\ ToEvaluate' \in Nat /\ StagesLeft' \in Nat
  OBVIOUS
<1>1. ToGenerate \in Nat /\ ToGenerate' \in Nat
  <2>1. N \in Nat /\ Cardinality(Missing) \in Nat /\ Cardinality(Missing') \in Nat
    BY MissingFinite, BoundNat
  <2>2. ToGenerate \in {N, Cardinality(Missing), 0}
    BY DEF ToGenerate
  <2>3. ToGenerate' \in {N, Cardinality(Missing'), 0}
    BY DEF ToGenerate
  <2> QED BY <2>1, <2>2, <2>3
<1>2. ToEvaluate \in Nat /\ ToEvaluate' \in Nat
  <2>1. /\ Len(evaluated) \in Nat /\ Len(evaluated) <= N
        /\ Len(evaluated') \in Nat /\ Len(evaluated') <= N
    BY EvaluatedTypes
  <2>2. N - Len(evaluated) \in Nat /\ N - Len(evaluated') \in Nat
    <3>1. \A k \in Nat : k <= N => N - k \in Nat
      BY BoundNat
    <3> QED BY <2>1, <3>1
  <2> QED BY <2>2, BoundNat DEF ToEvaluate
<1>3. StagesLeft \in Nat /\ StagesLeft' \in Nat
  BY DEF StagesLeft, TypeOK
<1> QED BY <1>1, <1>2, <1>3

\* Every step a process makes leaves it less to do, whatever the batch size, the
\* failures of the model, and edits of the databases between its steps: a run
\* that is let go on comes to its end, its markers or its refusal.
THEOREM EveryStepCounts == Spec => [][Work => LessLeft]_vars
<1>1. TypeOK /\ TypeOK' /\ [Next]_vars => [Work => LessLeft]_vars
  <2> SUFFICES ASSUME TypeOK, TypeOK', Work
               PROVE  LessLeft
    OBVIOUS
  <2>1. /\ ToGenerate \in Nat /\ ToEvaluate \in Nat /\ StagesLeft \in Nat
        /\ ToGenerate' \in Nat /\ ToEvaluate' \in Nat /\ StagesLeft' \in Nat
    BY LeftTypes
  <2>2. /\ (/\ ToGenerate' <= ToGenerate /\ ToEvaluate' <= ToEvaluate
            /\ StagesLeft' < StagesLeft) => LessLeft
        /\ (/\ ToGenerate' < ToGenerate /\ ToEvaluate' <= ToEvaluate
            /\ StagesLeft' <= StagesLeft + 1) => LessLeft
        /\ (/\ ToGenerate' <= ToGenerate /\ ToEvaluate' < ToEvaluate
            /\ StagesLeft' <= StagesLeft) => LessLeft
    <3>1. \A a, b, c, d, e, f \in Nat :
            /\ 2 * a + b + c \in Nat
            /\ d <= a /\ e <= b /\ f < c => 2 * d + e + f < 2 * a + b + c
            /\ d < a /\ e <= b /\ f <= c + 1 => 2 * d + e + f < 2 * a + b + c
            /\ d <= a /\ e < b /\ f <= c => 2 * d + e + f < 2 * a + b + c
      OBVIOUS
    <3>2. /\ Left = 2 * ToGenerate + ToEvaluate + StagesLeft
          /\ Left' = 2 * ToGenerate' + ToEvaluate' + StagesLeft'
      BY DEF Left
    <3> QED BY <2>1, <3>1, <3>2 DEF LessLeft
  <2>3. CASE RejectLock \/ ReadTorn \/ Mutated \/ Return \/ MarkInvalid \/ MarkConsumed
    <3>1. /\ pc' = "off"
          /\ pc \in {"lock", "read", "evaluate", "mark"}
      BY <2>3 DEF RejectLock, ReadTorn, Mutated, Return, MarkInvalid, MarkConsumed, End
    <3>2. ToGenerate' = 0 /\ ToEvaluate' = 0
      BY <3>1 DEF ToGenerate, ToEvaluate
    <3>3. StagesLeft' < StagesLeft
      <4>1. StagesLeft' = 0
        BY <3>1 DEF StagesLeft
      <4>2. StagesLeft \in {1, 3, 6, 7}
        BY <3>1 DEF StagesLeft
      <4> QED BY <4>1, <4>2
    <3> QED BY <2>1, <2>2, <3>2, <3>3
  <2>4. CASE BuildLock \/ VerifyLock \/ CreateLock
    <3>1. \/ pc = "build lock" /\ pc' = "lock"
          \/ pc = "lock" /\ pc' = "read"
      BY <2>4 DEF BuildLock, VerifyLock, CreateLock
    <3>2. ToGenerate' = N /\ ToGenerate = N /\ ToEvaluate' = N /\ ToEvaluate = N
      BY <3>1 DEF ToGenerate, ToEvaluate
    <3>3. StagesLeft' < StagesLeft
      <4>1. CASE pc = "build lock" /\ pc' = "lock"
        <5>1. StagesLeft = 8
          BY <4>1 DEF StagesLeft
        <5>2. StagesLeft' = 7
          BY <4>1 DEF StagesLeft
        <5> QED BY <5>1, <5>2
      <4>2. CASE pc = "lock" /\ pc' = "read"
        BY <4>2 DEF StagesLeft
      <4> QED BY <3>1, <4>1, <4>2
    <3> QED BY <2>1, <2>2, <3>2, <3>3
  <2>5. CASE ReadRaw
    <3>1. pc = "read" /\ pc' = "generate"
      BY <2>5 DEF ReadRaw
    <3>2. ToGenerate = N /\ ToGenerate' <= N /\ ToEvaluate = N /\ ToEvaluate' = N
      BY <3>1, MissingFinite DEF ToGenerate, ToEvaluate
    <3>3. StagesLeft' < StagesLeft
      BY <3>1 DEF StagesLeft
    <3> QED BY <2>1, <2>2, <3>2, <3>3
  <2>6. CASE Generate
    <3>1. pc = "generate" /\ pc' = "checkpoint" /\ NextBatch # {}
      BY <2>6 DEF Generate
    <3>2. PICK status \in [NextBatch -> Statuses] :
            existing' = [s \in Samples |-> IF s \in NextBatch
                                           THEN [config |-> config, status |-> status[s]]
                                           ELSE existing[s]]
      BY <2>6 DEF Generate
    <3>3. Missing' = Missing \ NextBatch
      <4>1. \A s \in NextBatch : [config |-> config, status |-> status[s]] # NoRow
        BY DEF NoRow, Statuses
      <4>2. \A s \in Samples :
              existing'[s] = IF s \in NextBatch
                             THEN [config |-> config, status |-> status[s]] ELSE existing[s]
        BY <3>2
      <4> HIDE DEF NextBatch
      <4> QED BY <4>1, <4>2 DEF Missing, Has
    <3>4. Cardinality(Missing') < Cardinality(Missing)
      <4>1. Missing' \in SUBSET Missing /\ Missing' # Missing
        BY <3>1, <3>3 DEF NextBatch
      <4>2. /\ Cardinality(Missing') <= Cardinality(Missing)
            /\ Cardinality(Missing) # Cardinality(Missing')
        BY <4>1, MissingFinite, FS_Subset
      <4> QED BY <4>2, MissingFinite
    <3>5. ToGenerate' < ToGenerate /\ ToEvaluate' = ToEvaluate
      BY <3>1, <3>4 DEF ToGenerate, ToEvaluate
    <3>6. StagesLeft' <= StagesLeft + 1
      BY <3>1 DEF StagesLeft
    <3> QED BY <2>1, <2>2, <3>5, <3>6
  <2>7. CASE WriteCheckpoint
    <3>1. pc = "checkpoint" /\ pc' = "generate" /\ existing' = existing
      BY <2>7 DEF WriteCheckpoint, memory
    <3>2. Missing' = Missing
      BY <3>1 DEF Missing, Has
    <3>3. ToGenerate' = ToGenerate /\ ToEvaluate' = ToEvaluate
      BY <3>1, <3>2 DEF ToGenerate, ToEvaluate
    <3>4. StagesLeft' < StagesLeft
      BY <3>1 DEF StagesLeft
    <3> QED BY <2>1, <2>2, <3>3, <3>4
  <2>8. CASE WriteAll
    <3>1. pc = "generate" /\ pc' = "evaluate"
      BY <2>8 DEF WriteAll
    <3>2. ToGenerate' = 0 /\ ToEvaluate = N
      BY <3>1 DEF ToGenerate, ToEvaluate
    <3>3. ToEvaluate' <= N
      <4>1. ToEvaluate' = N - Len(evaluated')
        BY <3>1 DEF ToEvaluate
      <4>2. Len(evaluated') \in Nat
        BY EvaluatedTypes
      <4> QED BY <4>1, <4>2, BoundNat
    <3>4. StagesLeft' < StagesLeft
      BY <3>1 DEF StagesLeft
    <3> QED BY <2>1, <2>2, <3>2, <3>3, <3>4
  <2>9. CASE Evaluate
    <3>1. pc = "evaluate" /\ pc' = "evaluate" /\ evaluated' = Append(evaluated, database)
      BY <2>9 DEF Evaluate
    <3>2. Len(evaluated') = Len(evaluated) + 1 /\ Len(evaluated) \in Nat
      BY <3>1, EvaluatedTypes
    <3>3. ToEvaluate' = N - (Len(evaluated) + 1) /\ ToEvaluate = N - Len(evaluated)
      BY <3>1, <3>2 DEF ToEvaluate
    <3>4. ToEvaluate' < ToEvaluate
      BY <3>2, <3>3, BoundNat
    <3>5. ToGenerate' = ToGenerate /\ StagesLeft' = StagesLeft
      BY <3>1 DEF ToGenerate, StagesLeft
    <3> QED BY <2>1, <2>2, <3>4, <3>5
  <2>10. CASE WriteReport \/ WriteManifest
    <3>1. \/ pc = "evaluate" /\ pc' = "manifest"
          \/ pc = "manifest" /\ pc' = "mark"
      BY <2>10 DEF WriteReport, WriteManifest
    <3>2. ToGenerate' = ToGenerate /\ ToEvaluate' = 0
      BY <3>1 DEF ToGenerate, ToEvaluate
    <3>3. StagesLeft' < StagesLeft
      <4>1. CASE pc = "evaluate" /\ pc' = "manifest"
        BY <4>1 DEF StagesLeft
      <4>2. CASE pc = "manifest" /\ pc' = "mark"
        BY <4>2 DEF StagesLeft
      <4> QED BY <3>1, <4>1, <4>2
    <3> QED BY <2>1, <2>2, <3>2, <3>3
  <2> QED
    BY <2>3, <2>4, <2>5, <2>6, <2>7, <2>8, <2>9, <2>10 DEF Work
<1> QED BY <1>1, TypeCorrect, PTL DEF Spec
=============================================================================
