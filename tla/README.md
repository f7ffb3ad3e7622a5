# Verification of NL-to-SQLite writes (`nldbwrite_v3`)

The program turns a natural-language or semi-structured request into SQLite
INSERTs. A model produces a mapping plan, deterministic code materializes it
into a *Write Plan* (groups of rows per table), verifies it, compiles it to a
parameterized program, tries it on a copy of the database, runs it behind one
savepoint, and compares the resulting state with the gold one. Around this sit
experiment drivers that generate thousands of model outputs over hours, persist
them, resume after crashes, and freeze what may be looked at once only, and the
commands with which people author, review and freeze calibration samples.

This directory holds TLA+ models of the parts with control worth checking, TLC
configurations for small instances, and TLAPS proofs for all instances.

Every module is translated from the source; `PROJECT.json` ("map") names, for
each definition, the lines it stands for.

## 1. Inventory

| Component | Source (below `src/nldbwrite_v3/` unless said) | State | Operations | Status |
|---|---|---|---|---|
| Compiler | `compiler/compiler.py` | one call: graph, ready list, statements | strict, best-effort, verified compilation | modelled |
| Executor, preflight | `compiler/executor.py` | a connection: transaction, savepoint, pragma; the file | execute, dry run, preflight | modelled |
| Batch generator | `inference/hf_runner.py` | cursor, batch size in force, results | generate, out-of-memory fallback | modelled |
| Confirmation harness | `scripts/server/run_stage6_confirmation.py` | raw streams, checkpoints, run state, provenance files | start, resume, fill four streams | modelled in part |
| Method driver, run lock | `experiments/run_method.py`, `run_lock.py`, `common/io.py` | lock, checkpoint, report, manifest, markers, databases | run, resume, clean run | modelled in part |
| Verifier | `verifier/verify.py` | none (pure) | verify a plan | its verdict, inside `Compiler` |
| Review and freeze | `data/authoring.py`, `data/calibration_freeze.py` | sample files, review ledger, dataset, the files of a freeze | assign, revise, record a review, assemble, freeze once | modelled in part |
| Reference repair | `vnext/reference_repair.py`, `vnext/targeted_repair.py`, and the resolver's verdicts | a plan and its copy under repair | repair references (F), reselect and trim evidence (G2, G1), retry once | modelled in part |
| Materialization | `pipeline.py`, `planner/references.py` | none between calls | resolve, ground, materialize | its rejections, inside `ReferenceRepair` |
| Evaluator | `evaluator/state.py` | two private copies of a database | run gold and prediction, compare | not modelled |
| Plan repair | `repair/patch.py` | none between calls | accept a patched plan | not modelled |
| Source parser, schema, gold SQL, metrics, reports, CLI | see `PROJECT.json` | none | text and number processing | not modelled |

How they interact. `run_method` builds a run lock (hashes of configuration,
data, code and databases), asks the batch generator for the samples whose rows
are not in the checkpoint, and then for every sample calls verifier, compiler,
`preflight_program`, and the evaluator, which calls `execute_program` on a
private copy. `run_stage6_confirmation` calls the generator one sample at a
time. `pipeline.py` runs the resolver on a predicted plan, then F on what
it rejects, one retry, and G2 or G1 on the evidence of a free-text plan, before
anything reaches the verifier. The authoring commands are processes of several
people over the same sample files and one ledger: each reads a file, works, and
writes the whole file back. Nothing runs in threads; processes share files, and
SQLite connections are shared between a caller and the executor.

What is hard here, and hence what the properties are about:

* order: declared dependencies and foreign keys form one graph; parents must be
  inserted first, order must be reproducible, cycles must be refused;
* partial failure: a statement, value, batch or file write fails after others
  have succeeded;
* transactions nested in a caller's, pragmas ignored inside a transaction,
  constraints that only a commit checks or that destroy the transaction;
* crashes between and inside file writes (every writer truncates first), and
  resumes that must trust the right files only;
* files that change during a run of hours (the source databases), and markers
  that must be created once and for sound outcomes only;
* commands of different people that overlap on one file, where the later write
  silently undoes the earlier;
* several repairs in one batch, each judged against a plan the others are
  changing, with a roll-back in the middle.

`PROJECT.json` ("hazards") lists each at its line, with the properties aimed at
it, or why none is yet.

## 2. Modules

| Module | Models |
|---|---|
| `Compiler` | `compile_write_plan`, `compile_verified_plan`, with the verdict of the verifier |
| `CompilerProofs` | theorems about it |
| `SqliteConnection` | what the code relies on of SQLite (external): savepoints, conflicts, foreign keys |
| `AtomicWrite` | abstract: a program takes effect as one step or not at all |
| `Executor` | `execute_program`, `preflight_program`, their caller, crashes |
| `ExecutorProofs` | theorems about it, and that it implements `AtomicWrite` |
| `BatchGenerate` | `generate`, `_generate_batch` |
| `BatchGenerateProofs` | theorems about it |
| `StreamLedger` | abstract: streams are append-only logs of one run |
| `ConfirmationRun` | `execute_all_streams` and what it calls, with crashes and resumes |
| `ConfirmationRunProofs` | theorems about it, and that it implements `StreamLedger` |
| `RunMethod` | `run_method` on one output directory, with its lock |
| `RunMethodProofs` | theorems about it |
| `CalibrationReview` | authoring, review and freeze commands that overlap and die |
| `CalibrationReviewProofs` | theorems about it |
| `ReferenceRepair` | the resolver's verdicts, F, the retry, G2 and G1 |
| `ReferenceRepairProofs` | theorems about it |
| `MC*` | instances for TLC |

`Executor` extends `SqliteConnection` and instantiates `AtomicWrite` under the
mapping `session <- Session` (what the connection sees, or nobody's while no
connection is open); `ConfirmationRun` instantiates `StreamLedger`
under `ledger <- Ledger`.

Operators commented `Mutant:` are deliberately wrong variants of the definition
that follows them. They are not part of any specification; substituting one for
its original must make a property fail, which shows that the property sees the
code.

### Compiler

State: the plan, the mode, and the local variables of `_ordered_groups`
(`indegree`, `ready`, `ordered`) and of the caller (`statements`, `errors`).
A plan is abstracted to ids, tables, shapes of rows, declared dependencies,
foreign keys between tables, which groups verify alone (`ok`), whether the
plan-level checks pass (`clean`), and which groups hold a value that cannot be
built (`raises`). `AcceptPlan`, `RejectPlan` and `KeepValidGroups` are the three
ways out of verification (compiler.py:244-264); `BuildGraph` and one
`PlaceGroup` per turn of the sort; `OrderFails` is the left-over test
(205-206); `EmitGroup` compiles one group; `EmitFails` is the `except` branch;
`Finish` computes the status. Column names, SQL text and value normalization
are data. The order of rows inside a group is kept up to regrouping by shape.

### SqliteConnection, AtomicWrite, Executor

A database says of each row whether it is absent, as before, or written by a
program. A connection has what it sees, what it has committed, an outer
transaction or none, our savepoint or none, and the foreign-key setting.
`Executor` has one action per step of `execute_program`: `Begin` (pragma and
SAVEPOINT), `Execute`, `ExecuteFails` (an `sqlite3.Error`), `ExecuteRaises` (any
other exception), `Undo` (dry run), `Keep`, `KeepFails` (COMMIT refused by a
deferred key), `Recover`, `Return`. Targets are a file, a private copy
(preflight of a path) or a caller's connection, on which the caller may write
and commit between calls. `Crash` may come at any step.

### BatchGenerate

One call: `cursor`, `current_batch_size`, `output`. `Generate` is a successful
batch, merged with the answers to oversized prompts; `GenerateFails` any
`RuntimeError` but out-of-memory; `RaisesValueError` the policy check;
`Halve`, `GiveUp` the out-of-memory branches. Which prompts are oversized, the
truncation policy and the batch size are arbitrary but fixed.

### StreamLedger, ConfirmationRun

Files are `raw`, `checkpoint`, `state`, `provenance`; a file is absent, torn or
whole, and a JSONL file can also be cut between two lines. One process at a
time fills streams in order: `Generate` (one model call), `WriteRaw`,
`WriteCheckpoint`; `WriteFullCheckpoint` once more at the end of a stream,
`WriteProvenance` after the shared one, `WriteState` after each. `LaunchInitial`
and `LaunchResume` carry the checks of the two modes, `Refuse` the exits of
`verify_resume_checkpoint`. `takes` is auxiliary and counts calls of the model.

### RunMethod

Files are `lock`, `raw`, `report` (evaluation.jsonl and the artifacts written
with it), `manifest`, and the markers. `config` stands for everything the lock
hashes but the databases. `Launch` carries the checks made before anything is
written (markers, manifest), `BuildLock` hashes the databases, then
`RejectLock`, `VerifyLock` or `CreateLock`; `ReadRaw` takes up the checkpoint,
`Generate`/`WriteCheckpoint` alternate, `WriteAll`, then one `Evaluate` per
sample, each meeting the version of the databases of that moment; the last
comparison (`Mutated` or `WriteReport`), `WriteManifest`, and `Return`,
`MarkInvalid` or `MarkConsumed`. `Edit` is another program writing to a database. Versions only grow:
SQLite moves the change counter of the file with every write, so that a hash
never returns by writing. (Assumed: rollback journal. In WAL mode a write does
not change the main file at once, and the hash would miss it.)

### CalibrationReview

Files are the sample files (`file`, and `torn` for those a dying process left
unreadable), the review `ledger`, the assembled `dataset`, and the freeze
(`written`, `out`, `frozen`). Each person runs one command at a time (`work`);
the coordinator runs one at a time too (`coord`). A command is two or more
steps: `StartRecord`, `StartRevision` and `Edit` read the sample and keep what
they will write; `AppendLedger` comes before `WriteBack`, which replaces the
whole file whatever others wrote meanwhile. `ReadSample`/`AssignSample` are the
loop of the assignment, `ReadSample`/`WriteDataset` that of the assembly.
`StartFreeze` is the readiness audit and the test for existing targets, then
one action per file: the dataset from a second load, the plans from the first,
the ledger as it is by then, the manifest. `Die` and `CoordinatorDies` may come
between any two steps, or inside a write; a command that dies before it wrote
anything is one that never started. The ids and hashes a freeze writes beside
these follow from them, as do the reserved databases. `lost` is auxiliary:
samples of which a command's write was overwritten or never happened. What the
metadata, asset and semantics audits decide is one constant set, `Sound`.

A freeze whose process dies between two files leaves an output directory that
every later freeze refuses (`FileExistsError`), and nothing in the code removes
it, although docs/CALIBRATION_AUTHORING_HANDOFF_20260727.md:68 speaks of "an
atomic freeze command that refuses incomplete or existing targets". The model
has this behaviour; a reader of the manifest is safe all the same, because it
is written last (`FrozenIsApproved`).

### ReferenceRepair

State: the predicted `plan`, the `copy` under repair, the `phase`, the
diagnostics still in the batch (`todo`), and what the traces say (`applied`,
`succeeded`, `chosen`). A plan is a function from places (positions that hold a
reference) to references. `Unknown`, `NonInsertable`, `Mismatched` and `Rejected`
are the resolver's verdicts, in the order in which one hides another; `Fixes`
is the closed set a reference is replaced from, narrowed by the name it spells,
if exactly one candidate remains. What is looked for is `Raw`, the reference as F
reads it off the diagnostic: for an empty target that is its source key, the last
segment of the path (reference_repair.py:518-521; keys are taken to contain no
slash), so that only an empty target under a key that is itself missing, a target
of white space (`Spaces`), or any other empty slot is left alone as `Missing`. The
schema of planner answers (mapping_plan_plus.schema.json:34) refuses empty targets;
`WritePlanPipeline.run`, which is what is modelled, does not. `Resolve`, one `Repair` per diagnostic (with
`_rollback_batch_after_collision` inside it), `Revalidate` (the retry),
`SelectEvidence`/`CheckSelected` (G2), `TrimEvidence`/`PassBoundary`/
`CheckTrimmed` (G1), `GiveUp`. A place keeps its identity when its key is renamed, so
that one assignment overwriting another in the JSON object is a visible event.
Diagnostics come in any order: in the code it is the key order of the predicted
JSON. The model has both repairs enabled, starts behind grounding and the
interventions B and C, whose results are part of the predicted plan, and ends
before the verifier.

The properties speak of what was repaired. Two assignments nobody repaired may
still meet when the collection or table above them is: `people.A` and
`people.a` become two keys of one field, of which the resolver
(references.py:865) keeps the last. `RepairsStandAlone` does not claim more.

## 3. Runs

All with `tlc -workers 2 -config X.cfg M`; each ends within about a minute.
Deadlock checking is off throughout, because every model ends: a call returns,
a run is complete, or nothing may be launched any more.

| Run | Question | Bounds, and why they suffice |
|---|---|---|
| `compiler` | order, cycles, all-or-nothing, end | 3 groups: the least for a cycle longer than a swap, for a group overtaken twice, for two groups of one table. All graphs of up to 2 declared and 2 foreign-key edges; all subsets of failing groups, duplicate ids, unbuildable values; 3 modes |
| `executor` | atomicity in every context | 2 calls in a row, so that one meets what the other left, and a preflight is followed by a run; 4 rows: parent, immediate child, deferred child, a row under ON CONFLICT ROLLBACK; 9 programs that reach each outcome |
| `batch_generate` | places, halving, end | 5 requests and sizes 0 to 5: short last batches, two halvings |
| `confirmation_run` | ledgers, completion | 3 streams of 3 samples (one shared, last), 3 crashes: one in each of generation, checkpoint and run state |
| `run_method` | lock, checkpoint, report, marker | 2 samples in batches of 1, one configuration per kind of stage, 1 crash, 1 edit: a crash leaves a mixed checkpoint, an edit falls before, between or after the evaluations |
| `calibration_review` | evidence, approvals, freeze under overlap | 3 people (author and two reviewers, in all roles by symmetry), 1 sample, 2 contents beside blank, 4 commands: two reviews and a revision or edit, and one to overlap with them; 1 assignment, 1 crash |
| `reference_repair` | batch, roll-back, traces, acceptance | 3059 plans over 2 collections, 2 selectors, 2 tables (one column generated) and 4 spans: mapping plans with two entries, a constant, a policy and a second group, or with targets left out under keys that spell a column, are one, or do neither, also in a table of one column; free-text plans with rows of two cells and of one. Two entries are the least for a collision between a repaired and an untouched reference, or between two repaired ones; a constant for one across parts; two rows and a second group for references that must not collide |

Five runs end in a violation, each a disagreement between the code and what is
written about it (PROJECT.json "findings"):

* `executor_admitted`: a program accepted by preflight fails when run on the
  same database, because a dry run never reaches the commit that checks
  deferred keys (`AdmittedRuns`). `AdmittedFailsOnlyDeferred` shows that this
  is the only way.
* `confirmation_provenance`: after a crash behind the last checkpoint of the
  shared stream, the resumed run completes without provenance files
  (`CompleteHasProvenance`).
* `run_method_clean`: a `--no-resume` run that dies before its first checkpoint
  leaves its lock over the rows of the earlier configuration; its resume
  reports them as its own (`ReportedRowsAreOfConfig`).
* `reference_success`: a column repaired by name to one that exists but cannot be
  inserted into is recorded as succeeded although the retry rejects the slot,
  because its new diagnostic has another code (`SuccessMeansPassed`, against
  F_METHOD_SPEC.md:121).
* `reference_missing`: an empty target of a field mapping is filled with the column
  its source key spells, or with the only one of its table (`MissingIsNotFilled`,
  against F_METHOD_SPEC.md:29).

Properties, by kind:

* `Compiler`: `ParentsFirst`, `SourceOrderKept`, `CycleErrorIffCyclic`,
  `IndegreeCounts`, `AllOrNothing`; `Terminates`.
* `Executor`: `NothingLeftBehind`, `SuccessIsWhole`,
  `AdmittedFailsOnlyDeferred`; refinement `ImplementsAtomicWrite`.
* `BatchGenerate`: `OneResultEach`, `OomOnlyAlone`, `FallbackIsMonotone`,
  `RetriesBounded`; `Ends`.
* `ConfirmationRun`: `CompletedNotRegenerated`, `OneCallLostPerCrash`,
  `OneRunId`, `CompleteIsComplete`; refinement `ImplementsLedger`;
  `CompletesOrStuck`.
* `RunMethod`: `ReportedOnLockedDatabases`; action properties `ConsumedIsSound`,
  `ResumeKeepsRows`; `ReportsOrBlocked`.
* `CalibrationReview`: `ApprovalHasEvidence`, `FrozenIsApproved`; action
  properties `FrozenFilesStay`, `LatestDecisionApproves`. The last one needs its
  whole hypothesis: with a command in progress, a lost write or a dataset older
  than the files, a freeze does admit a sample whose reviewer's latest decision
  is a rejection.
* `ReferenceRepair`: `BatchIsOrderFree`, `RepairsStandAlone`, `ChangesAreTraced`,
  `AcceptedIsClean`.

### Fairness

`Compiler` and `BatchGenerate` are single calls in one thread: weak fairness of
`Next` says that the thread keeps running; no branch is assumed to be taken.
`ConfirmationRun` and `RunMethod`: weak fairness of `Work` says the same of a
live process. That an operator starts an unfinished run again is an assumption
about people, not code: weak fairness of the two launches in the first,
strong fairness of `LaunchAgain` in the second (a launch is disabled while a
process lives, and each rejected one ends it). Nothing is assumed of `Crash`
and `Edit`, which bounds keep finite. Both liveness properties have an escape
("or stuck", "or blocked"): states with a torn file, or changed databases, that
no part of the code repairs. They are the honest answer to "does a resumed run
always finish": only if the crash did not tear a file that is read back.
`CalibrationReview` and `ReferenceRepair` state no fairness: people need not run
a command, and the end of a repair is a bound on its steps, not a hope.

## 4. Proofs

Run `tlapm` on the seven `*Proofs` modules. The assumptions are those the modules
declare (`ASSUME`), which TLC evaluates on each instance. Every safety property
the passing runs check, invariant or action property, is a theorem.

Theorems called `EveryStepCounts` are what can be proved of termination without
fairness and `ENABLED`: a natural number that each step (of a live process, where
there are crashes) makes smaller, so that no run of the code goes round for
ever. That a step can be taken is left to TLC (deadlock and the liveness
properties).

**Compiler.** `TypeCorrect`, `CountsCorrect`, `SourceOrder`, `CycleDetection`,
`ParentsInsertedFirst`, `WholeOrNothing`, for any number of groups and any set of plans. Types are
not inductive alone: an `indegree` stays a natural number only because it counts
the unplaced predecessors. `OrderInv` carries this count, that placed groups are
distinct, and that each was placed after its predecessors. `PlaceCounts` shows
that placing a group takes it, and only it, from what its children wait for.
Cycle detection needs both directions: left-over groups without a ready one
are themselves a set each member of which has a predecessor in it
(`LeftOverCyclic`), and no such set lies within the placed ones, since its first
placed member would have a predecessor placed before it (`PlacedAcyclic`).
`LeastFirst` (the group placed was the first by position among those that could
be) gives source order; `StatementInv` (statements follow the groups, block by
block, with no block missing) gives parents first.
All or nothing needs the shapes of a group to cover its rows without overlap:
the first rows of the shapes are numbered without a gap (`RankIsBijective`), so
each row has one shape (`RowHasOneShape`) and is in one statement of its group;
`RowInv` keeps this while blocks are appended, and `OutcomeInv` says that a
compilation without an error has compiled every group.
`NoHalfGroup` is the part of it that holds in every mode, best effort included:
no group is half inserted. `OneNextGroup`: the lambda key of the ready list is
never a tie (`PositionsDiffer`), so the order is a function of the plan, and no
mode gets stuck at the verifier's verdict. `EveryStepCounts` counts groups to
order, groups to compile, and stages.

**BatchGenerate.** `TypeCorrect`, `ResultPerRequest`, `GivenUpAlone`, for any
number of requests and batch sizes: the batch stays within the list, its
results are at the places of its requests, and appending them keeps the places.
`FallbackStays`: a row has the mark only if the size was below the argument when
it was generated, and the size never grows (`FallbackInv`). `LogarithmicRetries`:
each halving doubles the power the size is multiplied by; the provers know
nothing of exponentiation, so `PowersOfTwo` gets `2^(h+1) = 2 * 2^h` from the
number of subsets of an interval. `EveryStepCounts`: what is left of the list
plus the size. `ReturnsAll`: the safety half of `Ends`.

**RunMethod.** `TypeCorrect`, `LockedDatabasesReported`, `RowsKept`,
`ConsumptionSound`, for any number of samples, crashes, edits and configurations.
`Sandwiched`: every version met lies between the locked and the present one; so
if the present one equals the locked one when the last comparison is made, all
were equal. `LockHeld`: past the lock, the lock on disk is this run's.
`RowsHeld`: the rows in memory extend those on disk while generating, and equal
them from then on; before the marker, the report holds the same rows. The three
are inductive together with the types; each action has its own step.
`EveryRequestBatched`, on the way to it: as long as a sample has no row, a batch holds one
(`BatchNotEmpty`), for any batch size. `EveryStepCounts`: rows to generate
count twice (each comes with a checkpoint to write), then those to evaluate, then
the stages up to the marker.

**Executor.** `TypeCorrect`, `NothingIsLeftBehind`, `SuccessIsTheWhole`,
`AdmittedFailures`, `Implements`, for any rows, programs and number of calls. The
invariant follows a call through its places: before `Begin` nothing is open
(`Started`); while it runs, the connection sees the effect of exactly the
statements executed, over what was there when it began, and only deferred keys
can newly dangle (`Running`); while it recovers, it has been taken back or the
whole transaction is gone (`Recovering`); when it returns, the outcome says
which (`Returning`). `PrefixStep` is the heart: one more statement extends the
effect of a prefix by one row. The refinement maps the session to what the open
connection sees: every step of a call is a stutter but the one that keeps the
whole program, or gives it up. `FileStaysSound`: on a file nobody else writes,
only `execute_program` commits, with foreign keys on, so that no sequence of
calls, failures and crashes leaves a dangling key in it. It is of a file: within
a caller's transaction foreign keys may be off, and deferred keys open.

**ConfirmationRun.** `TypeCorrect`, `RowsOfOneRun`, `NoSecondCall`,
`CompleteStaysTrue`, `Implements`, for any number of streams, samples, crashes
and resumes. `Logs`: raw rows are in sample order, of this run, of the last call
for each sample. `Memory`: the rows in memory are those of both files, but for
the one under way. `Counts`: calls without a row are at most as many as the
crashes. `CutIsSpoiled`: a raw file a crash cut short never fits its checkpoint,
so that `verify_resume_checkpoint` refuses it for good, and a crash therefore
spoils a stream, leaves it, or completes its append. With this, every step maps to an append, a loss, or a
stutter of the abstract ledger. `CrashCostsOneCall`: the lost calls are a set of
(stream, sample, call) triples, and every step but a crash's adds as many rows as calls
(`SpentInv` counts the one under way). `RowsImmutable`: the ledger seen as a
property of every step. `EveryStepCounts`: streams left, each worth more than
all steps within one, and the steps left in the one under way; crashes and
relaunches are not counted, since an operator may relaunch for ever a run that
refuses.

**CalibrationReview.** `TypesHold`, `ApprovalsHaveEvidence`,
`FrozenWasApproved`, `FilesStay`, for any number of people,
samples, commands and crashes. `Evidence` is inductive only with what commands
carry in their locals: an approval on its way into a file already has its row,
or is of the person about to append it, and everything read is backed by the
ledger, which only grows (`ApprovedGrows`). `Freezing` carries the audit from the
readiness test to the manifest: the ledger rows are honest about the content
they hash, the dataset cannot change while the coordinator freezes, so that the
second load is the first, and the manifest comes after the rest. `TwoMembers`
turns "two approvals" into two different people, `PassesApproved` the audit
into `ApprovedByTwo`.
`NothingTakenBack`: but for the samples a write of which was lost, a decided slot
is the last of its reviewer's rows for its content (`SlotsFollow`), a row
just appended will be (`HeldFollow`), and no command touches another's slot
(`ValuesFollow`): together `Sequel`. The hypothesis of the property is what a settled
kit adds: no lost writes, nobody between row and file, a dataset of those files.

**ReferenceRepair.** `TypesHold`, `OrderDoesNotMatter`, `NothingIsMerged`,
`TracesTellChanges`, `CleanWhenAccepted`, for all plans and closed sets that meet
the assumptions. `Batch` says that a batch is either rolled back or underway, and
underway means that exactly the fixable places already looked at are replaced
and none of them collided. The order does not matter by `CollisionIsFinal`: a
collision found in the copy is one in the fully repaired plan and the other way
round, because a reference still to be repaired is unknown, and an unknown
reference is in nobody's way. `Traced`, `Standing` and `Clean` carry the other
three through the retry, G2 and G1. `RepairedIsKnown` is the true part of the
claim `SuccessMeansPassed` refutes: the resolver knows every reference F put in,
where it stands, because neither its context nor its key is a place F
could repair in the same batch. `FilledFromTheKey` is the true part of the claim
`MissingIsNotFilled` refutes: of the missing references only an empty target
is ever filled, under a key that names something and is no column of the table;
for the evidence of G1 and G2 this needs `EvidenceChosen`, that they only replace
spans that exist. `AcceptedHasSucceeded`: no accepted plan carries a
repair that its traces call failed. `EveryStepCounts`: one look per diagnostic
(a plan has finitely many places, which `WellFormed` says), one retry per
method, one decision.

Only model-checked: the four liveness properties (`Terminates`, `Ends`,
`CompletesOrStuck`, `ReportsOrBlocked`), which need fairness and `ENABLED`, out of
this prover's reach; their measures are proved. The five properties of
"violation" runs are counterexamples TLC finds, and not theorems.

## 5. Not modelled

* Two processes on the same output directory, or the same marker: both would
  pass the checks made at the start. Other connections on the file being written
  ("database is locked").
* In `run_method`: reuse of raw generations of another run, the repair
  generation of MP-R (made once, lost if the process dies before it is saved, a
  failed one kept for ever), Gold-MP, the rerun override, the local copies of markers,
  and the files written before the lock that the run never reads back.
* In the confirmation harness: the authorization boundary, the checks on prompt
  identity, the guarded runner the GPU path does not use, the command line.
* Evaluator: with its default scope the verdict is, by definition, that two
  databases are equal in every table. The classification behind it is one pass
  over data; its calls of the executor are those of `Executor`'s caller.
  Two things read in the source, outside what a model would add: the closure of
  affected tables (state.py:235-275) misses INSTEAD OF triggers, `UPDATE OR
  IGNORE` in a trigger and names in another case, which matters only with
  `state_scope="affected_tables"`, a scope no caller uses; and a prediction that
  changed nothing counts as having a side effect when gold's trigger changes an
  off-target table (around state.py:746).
* Best-effort compilation drops the findings about the plan as a whole
  (compiler.py:259-264) and may then say `success`. Modelled, but no property: no
  document says what success means in this mode, for which only the CLI asks. What
  holds in it is that groups are whole (`NoHalfGroup`).
* Plan repair (`repair/patch.py`): one deterministic pass without state, whose dry
  run is the executor's; the patches are data.
* In the calibration commands: two coordinator commands at once, the creation of
  the kit, the single audits, command line and reports.
* In `vnext`: interventions B and C, grounding of explicit evidence, ambiguity of
  policies, ignored fields, typed normalization, the final verification.
* Text: prompts, parsing, source formats, SQL text, value normalization,
  similarity matching. Statistics and reports. Vendored v2 code and archives.

## 6. Plan

Done, in this order: compiler, executor, generator, confirmation harness, method
driver; review and freeze, reference repair; the proofs of all seven, with both
refinements, every safety property the runs check, and the measures by which
five of the seven end.

What is left, by what it would add:

1. `ConflictPolicy`: the verifier's conflict targets and the regrouping of
   upserts by shape (compiler.py:58-66): when it changes the final state.
2. Two `RunMethod` processes over one consumed marker, and two coordinator
   commands over one kit.
3. The evaluator, if its scope of affected tables gets a caller.
