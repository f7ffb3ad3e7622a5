------------------------------ MODULE RunMethod ------------------------------
(***************************************************************************)
(* experiments/run_method.py: one run of a method over a split, writing to *)
(* one output directory, with the lock of run_lock.py.  Raw generations    *)
(* are checkpointed after every batch; then every sample is evaluated      *)
(* against the source databases, the artifacts are written, and a locked   *)
(* or final stage leaves a consumed or an invalid marker.  The operator    *)
(* starts runs with or without --no-resume, under any configuration; a run *)
(* may die at any point, and the databases may be edited while it runs.    *)
(*                                                                         *)
(* write_jsonl and dump_json truncate their file and then write it: a      *)
(* crash in a write leaves it torn, or a JSONL file cut between two lines. *)
(***************************************************************************)
EXTENDS Integers, Sequences, FiniteSets

CONSTANTS
  N,          \* number of selected samples
  BatchSize,  \* inference batch_size
  Configs,    \* what the run lock covers, the databases apart
  Stage,      \* their stage: "dev" and the like, "locked-test", or a final one
  MaxCrashes, \* bound: crashes in a behaviour
  MaxEdits    \* bound: edits of the databases

ASSUME NAssumption == N \in Nat \ {0}
ASSUME BatchSizeAssumption == BatchSize \in Nat
ASSUME ConfigsAssumption == Configs # {}
ASSUME StageAssumption == Stage \in [Configs -> {"dev", "locked-test", "final"}]
ASSUME BoundsAssumption == MaxCrashes \in Nat /\ MaxEdits \in Nat

Samples == 1..N
Versions == 0..MaxEdits

\* generation_status, and whether a prompt or an output was cut.
Statuses == {"success", "truncated", "error"}
Row == [config : Configs, status : Statuses]
NoRow == [config |-> CHOOSE c \in Configs : TRUE, status |-> "none"]

\* Rows are keyed by sample_id and written in the order of the split.
Rows == [Samples -> Row \cup {NoRow}]
NoRows == [s \in Samples |-> NoRow]
Has(rows) == {s \in Samples : rows[s] # NoRow}

AnyConfig == CHOOSE c \in Configs : TRUE
NoLock == [kind |-> "absent", config |-> AnyConfig, database |-> 0]
NoRaw == [kind |-> "absent", rows |-> NoRows]
NoReport == [kind |-> "absent", config |-> AnyConfig, database |-> 0,
             rows |-> NoRows, on |-> [s \in Samples |-> 0]]
NoManifest == [kind |-> "absent", config |-> AnyConfig]

VARIABLES
  lock,       \* run_lock.json
  raw,        \* raw_generations.jsonl
  report,     \* evaluation.jsonl and the artifacts written with it
  manifest,   \* manifest.json
  consumed,   \* configurations with a global consumed marker
  invalid,    \* an invalid marker is in the directory
  database,   \* version of the source databases
  pc,         \* where the process is, "off" when there is none
  config,     \* its configuration
  resume,     \* started without --no-resume
  locked,     \* the databases as hashed by build_run_lock
  existing,   \* its rows, by sample
  evaluated,  \* the version each evaluated sample met, in order
  crashes     \* number of crashes (bounded by MaxCrashes)

vars == <<lock, raw, report, manifest, consumed, invalid, database, pc, config,
          resume, locked, existing, evaluated, crashes>>
files == <<lock, raw, report, manifest, consumed, invalid>>
memory == <<config, resume, locked, existing, evaluated>>

-----------------------------------------------------------------------------
Init ==
  /\ lock = NoLock /\ raw = NoRaw /\ report = NoReport /\ manifest = NoManifest
  /\ consumed = {} /\ invalid = FALSE
  /\ database = 0
  /\ pc = "off" /\ config = AnyConfig /\ resume = TRUE /\ locked = 0
  /\ existing = NoRows /\ evaluated = <<>>
  /\ crashes = 0

\* run_method up to create_generator: the consumed markers, and the hashes of
\* an earlier manifest.  A run that is turned away here changes nothing.
Launch(c, r) ==
  /\ pc = "off"
  /\ c \notin consumed
  /\ r => \/ manifest.kind = "absent"
          \/ manifest.kind = "whole" /\ manifest.config = c
  /\ config' = c /\ resume' = r
  /\ pc' = "build lock"
  /\ UNCHANGED <<files, database, locked, existing, evaluated, crashes>>

\* build_run_lock hashes the databases.
BuildLock ==
  /\ pc = "build lock"
  /\ locked' = database
  /\ pc' = "lock"
  /\ UNCHANGED <<files, database, config, resume, existing, evaluated, crashes>>

ThisLock == [kind |-> "whole", config |-> config, database |-> locked]

\* The process is gone, and what it knew.
End ==
  /\ pc' = "off"
  /\ config' = AnyConfig /\ resume' = TRUE /\ locked' = 0
  /\ existing' = NoRows /\ evaluated' = <<>>

WritesLock == ~resume \/ (raw.kind = "absent" /\ lock.kind = "absent")

\* Resume rejected: a checkpoint without lock, a torn lock or another one.
RejectLock ==
  /\ pc = "lock" /\ ~WritesLock
  /\ lock # ThisLock
  /\ End
  /\ UNCHANGED <<files, database, crashes>>

VerifyLock ==
  /\ pc = "lock" /\ ~WritesLock
  /\ lock = ThisLock
  /\ pc' = "read"
  /\ UNCHANGED <<files, database, memory, crashes>>

CreateLock ==
  /\ pc = "lock" /\ WritesLock
  /\ lock' = ThisLock
  /\ pc' = "read"
  /\ UNCHANGED <<raw, report, manifest, consumed, invalid, database, memory, crashes>>

\* Mutant: the checkpoint is not taken up.
ExistingNone == NoRows

\* The rows a run starts from.
Existing == IF resume THEN raw.rows ELSE NoRows

\* A line cut in the middle does not parse.
ReadTorn ==
  /\ pc = "read" /\ resume /\ raw.kind = "torn"
  /\ End
  /\ UNCHANGED <<files, database, crashes>>

ReadRaw ==
  /\ pc = "read" /\ (resume => raw.kind # "torn")
  /\ existing' = Existing
  /\ pc' = "generate"
  /\ UNCHANGED <<files, database, config, resume, locked, evaluated, crashes>>

Missing == Samples \ Has(existing)
Step == IF BatchSize > 1 THEN BatchSize ELSE 1

\* Mutant: start counts over the requests that are left.
NextBatchSliding ==
  {s \in Missing : LET before == Cardinality({t \in Missing : t < s}) IN
                     Cardinality(Has(existing)) <= before
                       /\ before < Cardinality(Has(existing)) + Step}

\* missing_requests is cut into batches, in the order of the split.
NextBatch == {s \in Missing : Cardinality({t \in Missing : t < s}) < Step}

Generate ==
  /\ pc = "generate" /\ NextBatch # {}
  /\ \E status \in [NextBatch -> Statuses] :
       existing' = [s \in Samples |-> IF s \in NextBatch
                                      THEN [config |-> config, status |-> status[s]]
                                      ELSE existing[s]]
  /\ pc' = "checkpoint"
  /\ UNCHANGED <<files, database, config, resume, locked, evaluated, crashes>>

WriteCheckpoint ==
  /\ pc = "checkpoint"
  /\ raw' = [kind |-> "whole", rows |-> existing]
  /\ pc' = "generate"
  /\ UNCHANGED <<lock, report, manifest, consumed, invalid, database, memory, crashes>>

\* All selected rows are written once more, generated or not.
WriteAll ==
  /\ pc = "generate" /\ Missing = {}
  /\ raw' = [kind |-> "whole", rows |-> existing]
  /\ pc' = "evaluate"
  /\ UNCHANGED <<lock, report, manifest, consumed, invalid, database, memory, crashes>>

\* Mutant: one evaluation too many.
EvaluateAgain ==
  /\ pc = "evaluate" /\ Len(evaluated) <= N
  /\ evaluated' = Append(evaluated, database)
  /\ UNCHANGED <<files, database, pc, config, resume, locked, existing, crashes>>

\* Preflight and evaluate_candidate_sample of the next sample.
Evaluate ==
  /\ pc = "evaluate" /\ Len(evaluated) < N
  /\ evaluated' = Append(evaluated, database)
  /\ UNCHANGED <<files, database, pc, config, resume, locked, existing, crashes>>

\* Mutant: the databases are taken to be what the lock says.
DatabaseChangedNever == FALSE

\* _database_identity_changes.
DatabaseChanged == database # locked

\* SOURCE_DATABASE_MUTATION.json, and the run is over.
Mutated ==
  /\ pc = "evaluate" /\ Len(evaluated) = N
  /\ DatabaseChanged
  /\ invalid' = TRUE
  /\ End
  /\ UNCHANGED <<lock, raw, report, manifest, consumed, database, crashes>>

WriteReport ==
  /\ pc = "evaluate" /\ Len(evaluated) = N
  /\ ~DatabaseChanged
  /\ report' = [ kind |-> "whole", config |-> config, database |-> locked,
                 rows |-> existing, on |-> [s \in Samples |-> evaluated[s]] ]
  /\ pc' = "manifest"
  /\ UNCHANGED <<lock, raw, manifest, consumed, invalid, database, memory, crashes>>

WriteManifest ==
  /\ pc = "manifest"
  /\ manifest' = [kind |-> "whole", config |-> config]
  /\ pc' = "mark"
  /\ UNCHANGED <<lock, raw, report, consumed, invalid, database, memory, crashes>>

\* Mutant: a missing prediction is no reason.
DisqualifiedTruncated(rows) == \E s \in Samples : rows[s].status = "truncated"

\* truncation_failures and, in the final stages, missing_predictions.
Disqualified(rows) ==
  \E s \in Samples : \/ rows[s].status = "truncated"
                     \/ Stage[config] = "final" /\ rows[s].status = "error"

\* A stage without markers.
Return ==
  /\ pc = "mark" /\ Stage[config] = "dev"
  /\ End
  /\ UNCHANGED <<files, database, crashes>>

\* LOCKED_TEST_INVALID, FINAL_RUN_INVALID.json.
MarkInvalid ==
  /\ pc = "mark" /\ Stage[config] # "dev" /\ Disqualified(existing)
  /\ invalid' = TRUE
  /\ End
  /\ UNCHANGED <<lock, raw, report, manifest, consumed, database, crashes>>

MarkConsumed ==
  /\ pc = "mark" /\ Stage[config] # "dev" /\ ~Disqualified(existing)
  /\ consumed' = consumed \cup {config}
  /\ End
  /\ UNCHANGED <<lock, raw, report, manifest, invalid, database, crashes>>

Cut(rows) ==
  {[kind |-> "torn", rows |-> NoRows]}
    \cup {[kind |-> "whole", rows |-> [s \in Samples |-> IF s <= k THEN rows[s] ELSE NoRow]] :
            k \in 0..(N - 1)}

\* The process ends between two writes or in the middle of the next one.  Of a
\* marker only the existence is ever read, so that a torn one counts.
Crash ==
  /\ pc # "off"
  /\ crashes < MaxCrashes
  /\ crashes' = crashes + 1
  /\ \/ UNCHANGED files
     \/ /\ pc = "lock" /\ WritesLock
        /\ lock' = [lock EXCEPT !.kind = "torn"]
        /\ UNCHANGED <<raw, report, manifest, consumed, invalid>>
     \/ /\ pc = "checkpoint" \/ (pc = "generate" /\ Missing = {})
        /\ raw' \in Cut(existing)
        /\ UNCHANGED <<lock, report, manifest, consumed, invalid>>
     \/ /\ pc = "evaluate" /\ Len(evaluated) = N /\ ~DatabaseChanged
        /\ report' = [report EXCEPT !.kind = "torn"]
        /\ UNCHANGED <<lock, raw, manifest, consumed, invalid>>
     \/ /\ pc = "manifest"
        /\ manifest' = [manifest EXCEPT !.kind = "torn"]
        /\ UNCHANGED <<lock, raw, report, consumed, invalid>>
     \/ /\ pc = "mark" /\ Stage[config] # "dev" /\ ~Disqualified(existing)
        /\ consumed' = consumed \cup {config}
        /\ UNCHANGED <<lock, raw, report, manifest, invalid>>
     \/ /\ \/ pc = "mark" /\ Stage[config] # "dev" /\ Disqualified(existing)
           \/ pc = "evaluate" /\ Len(evaluated) = N /\ DatabaseChanged
        /\ invalid' = TRUE
        /\ UNCHANGED <<lock, raw, report, manifest, consumed>>
  /\ End
  /\ UNCHANGED database

\* Another program writes to a source database.  A write moves SQLite's change
\* counter, so that no version returns.
Edit ==
  /\ database < MaxEdits
  /\ database' = database + 1
  /\ UNCHANGED <<files, pc, memory, crashes>>

Work ==
  \/ BuildLock \/ RejectLock \/ VerifyLock \/ CreateLock \/ ReadTorn \/ ReadRaw
  \/ Generate \/ WriteCheckpoint \/ WriteAll \/ Evaluate \/ Mutated
  \/ WriteReport \/ WriteManifest \/ Return \/ MarkInvalid \/ MarkConsumed

Next == (\E c \in Configs, r \in BOOLEAN : Launch(c, r)) \/ Work \/ Crash \/ Edit

Spec == Init /\ [][Next]_vars

\* A live process goes on, and the operator resumes what has been locked, or
\* starts when nothing is.
LaunchAgain ==
  \E c \in Configs : (lock.kind = "whole" => c = lock.config) /\ Launch(c, TRUE)

FairSpec == Spec /\ WF_vars(Work) /\ SF_vars(LaunchAgain)

-----------------------------------------------------------------------------
FileKinds == {"absent", "torn", "whole"}

TypeOK ==
  /\ lock \in [kind : FileKinds, config : Configs, database : Versions]
  /\ raw \in [kind : FileKinds, rows : Rows]
  /\ report \in [kind : FileKinds, config : Configs, database : Versions,
                 rows : Rows, on : [Samples -> Versions]]
  /\ manifest \in [kind : FileKinds, config : Configs]
  /\ consumed \subseteq Configs /\ invalid \in BOOLEAN
  /\ database \in Versions
  /\ pc \in {"off", "build lock", "lock", "read", "generate", "checkpoint", "evaluate",
            "manifest", "mark"}
  /\ config \in Configs /\ resume \in BOOLEAN /\ locked \in Versions
  /\ existing \in Rows
  /\ evaluated \in Seq(Versions) /\ Len(evaluated) <= N
  /\ crashes \in 0..MaxCrashes

\* Strengthening, for the proofs.  A version met lies between the locked one and
\* the present one, nothing is evaluated before the generation is over,
Sandwiched ==
  /\ pc \notin {"evaluate", "manifest", "mark"} => evaluated = <<>>
  /\ locked <= database
  /\ \A i \in DOMAIN evaluated : locked <= evaluated[i] /\ evaluated[i] <= database

\* past the lock the directory is locked for this run,
LockHeld ==
  pc \in {"read", "generate", "checkpoint", "evaluate", "manifest", "mark"} =>
    lock = ThisLock

\* and what the process holds is on disk, or contains it, or is reported.
RowsHeld ==
  /\ pc \in {"generate", "checkpoint"} /\ resume =>
       \A s \in Has(raw.rows) : existing[s] = raw.rows[s]
  /\ pc \in {"evaluate", "manifest", "mark"} =>
       raw = [kind |-> "whole", rows |-> existing] /\ Missing = {}
  /\ pc \in {"manifest", "mark"} =>
       /\ report.kind = "whole" /\ report.config = config
       /\ report.database = locked /\ report.rows = existing

\* What is reported was measured on the databases the run lock names, though
\* they are opened sample by sample while others may write to them.
ReportedOnLockedDatabases ==
  report.kind = "whole" => \A s \in Samples : report.on[s] = report.database

\* A consumed marker appears only beside the complete, undamaged outcome of its
\* configuration: lock, checkpoint and report agree, whatever was resumed.
ConsumedIsSound ==
  [][ \A c \in consumed' \ consumed :
        /\ lock.kind = "whole" /\ lock.config = c
        /\ report.kind = "whole" /\ report.config = c
        /\ report.database = lock.database
        /\ raw.kind = "whole" /\ raw.rows = report.rows
        /\ \A s \in Samples :
             report.rows[s].status \in IF Stage[c] = "final" THEN {"success"}
                                       ELSE {"success", "error"} ]_vars

\* "Rows are keyed and resumed by sample_id": but for a crash in a write, a
\* resumed run never replaces a row of the checkpoint, failed ones included.
ResumeKeepsRows ==
  [][ resume /\ pc # "off" /\ crashes' = crashes =>
        \A s \in Has(raw.rows) : raw'.rows[s] = raw.rows[s] ]_vars

\* Nothing clears these but --no-resume.
Blocked ==
  \/ lock.kind = "torn" \/ raw.kind = "torn"
  \/ lock.kind = "whole" /\ lock.database # database

\* A run that is resumed after every crash reports in the end, unless a crash
\* tore a file it reads or a database was edited.
ReportsOrBlocked == <>(report.kind = "whole" \/ Blocked)

\* "use --no-resume to start a clean run": what a run reports under its
\* configuration was generated under it.
ReportedRowsAreOfConfig ==
  report.kind = "whole" => \A s \in Samples : report.rows[s].config = report.config
=============================================================================
