--------------------------- MODULE ConfirmationRun ---------------------------
(***************************************************************************)
(* scripts/server/run_stage6_confirmation.py: execute_all_streams and what *)
(* it calls.  Four generation streams are filled one sample at a time in a *)
(* fixed order; after every row the raw file and then its checkpoint are   *)
(* rewritten, and after every stream the run state.  The process may die   *)
(* at any point; the operator starts it again with --resume-run.           *)
(*                                                                         *)
(* Every file is written by Path.write_text, which truncates it first: a   *)
(* crash in a write leaves it torn, or, for a JSONL file, cut at a line.   *)
(***************************************************************************)
EXTENDS Integers, Sequences, FiniteSets

CONSTANTS
  N,            \* FINAL_CONFIRMATION_N
  StreamOrder,  \* STREAM_ORDER
  Shared,       \* the stream the two replay arms share
  RunIds,
  MaxCrashes    \* bound: crashes in a behaviour

ASSUME NAssumption == N \in Nat \ {0}
ASSUME RunIdsAssumption == RunIds # {}
ASSUME MaxCrashesAssumption == MaxCrashes \in Nat

Streams == {StreamOrder[i] : i \in DOMAIN StreamOrder}
ASSUME StreamOrderAssumption ==
  /\ StreamOrder \in Seq(Streams)
  /\ \A i, j \in DOMAIN StreamOrder : StreamOrder[i] = StreamOrder[j] => i = j
  /\ Shared \in Streams

Samples == 1..N

\* A row: its sample, its run_id, and which call of the model made it (the row
\* hash covers the latency, so that two calls never give the same row).
Takes == 0..(MaxCrashes + 1)
Row == [sample : Samples, run : RunIds, take : Takes]

Kinds == {"absent", "torn", "whole"}

VARIABLES
  raw,          \* raw_generations/<stream>.jsonl
  checkpoint,   \* <raw file>.checkpoint.json: row hashes by sample id
  state,        \* CONFIRMATION_RUN_STATE.json
  provenance,   \* replay_provenance/<arm>.jsonl: the shared rows it replays
  pc,           \* where the process is, "off" when there is none
  run,          \* its run_id
  at,           \* position in StreamOrder
  accumulated,  \* rows of the current stream
  row,          \* the row being persisted
  takes,        \* auxiliary: calls of the model, per stream and sample
  crashes       \* number of crashes (bounded by MaxCrashes)

vars == <<raw, checkpoint, state, provenance, pc, run, at, accumulated, row, takes,
          crashes>>

Arms == {"d_g1", "d_f_g1"}
Stream == StreamOrder[at]

NoRows == [kind |-> "absent", rows |-> <<>>]
NoCheckpoint == [kind |-> "absent", run |-> CHOOSE r \in RunIds : TRUE, rows |-> {}]
NoState == [kind |-> "absent", run |-> CHOOSE r \in RunIds : TRUE, status |-> "PARTIAL"]
NoRow == [sample |-> 1, run |-> CHOOSE r \in RunIds : TRUE, take |-> 0]

RowsOf(s) == {raw[s].rows[i] : i \in DOMAIN raw[s].rows}

\* Mutant: both files are read, and not compared.
VerifiesApart(s, r) ==
  /\ raw[s].kind = "whole"
  /\ \A i \in DOMAIN raw[s].rows : raw[s].rows[i].run = r
  /\ checkpoint[s].kind = "whole"
  /\ checkpoint[s].run = r

\* verify_resume_checkpoint: no sample twice, one run_id, and the checkpoint
\* has the hash of every row and no other.
Verifies(s, r) ==
  /\ raw[s].kind = "whole"
  /\ checkpoint[s].kind = "whole"
  /\ \A i, j \in DOMAIN raw[s].rows : raw[s].rows[i].sample = raw[s].rows[j].sample => i = j
  /\ \A i \in DOMAIN raw[s].rows : raw[s].rows[i].run = r
  /\ checkpoint[s].run = r
  /\ Cardinality(checkpoint[s].rows) = Len(raw[s].rows)
  /\ checkpoint[s].rows = RowsOf(s)

NotStarted(s) == raw[s].kind = "absent" /\ checkpoint[s].kind = "absent"

\* stream_completion_status raises for a stream that is neither.
Trusted(s, r) == NotStarted(s) \/ Verifies(s, r)

Full(s) == Len(raw[s].rows) = N

-----------------------------------------------------------------------------
Init ==
  /\ raw = [s \in Streams |-> NoRows]
  /\ checkpoint = [s \in Streams |-> NoCheckpoint]
  /\ state = NoState
  /\ provenance = [a \in Arms |-> NoRows]
  /\ pc = "off"
  /\ run = CHOOSE r \in RunIds : TRUE
  /\ at = 1
  /\ accumulated = <<>>
  /\ row = NoRow
  /\ takes = [s \in Streams |-> [x \in Samples |-> 0]]
  /\ crashes = 0

\* --execute-all: no run state and no stream output may exist.
LaunchInitial ==
  /\ pc = "off"
  /\ state.kind = "absent"
  /\ \A s \in Streams : NotStarted(s)
  /\ run' \in RunIds
  /\ at' = 1
  /\ pc' = "state"
  /\ UNCHANGED <<raw, checkpoint, state, provenance, accumulated, row, takes, crashes>>

\* Mutant: there must be rows to resume from.
LaunchResumeWithRows ==
  /\ pc = "off"
  /\ state.kind = "whole"
  /\ \E s \in Streams : ~NotStarted(s)
  /\ run' = state.run
  /\ at' = 1
  /\ pc' = "state"
  /\ UNCHANGED <<raw, checkpoint, state, provenance, accumulated, row, takes, crashes>>

\* --resume-run: the run_id is the one of the run state.
LaunchResume ==
  /\ pc = "off"
  /\ state.kind = "whole"
  /\ run' = state.run
  /\ at' = 1
  /\ pc' = "state"
  /\ UNCHANGED <<raw, checkpoint, state, provenance, accumulated, row, takes, crashes>>

\* HarnessError: a stream cannot be trusted, the process ends.
Refuse ==
  /\ \/ /\ pc = "state"
        /\ \E s \in Streams : ~Trusted(s, run)
     \/ /\ pc = "stream" /\ at <= Len(StreamOrder)
        /\ ~Trusted(Stream, run)
  /\ pc' = "off"
  /\ UNCHANGED <<raw, checkpoint, state, provenance, run, at, accumulated, row, takes,
                 crashes>>

\* write_confirmation_run_state, once every stream was verified.
WriteState ==
  /\ pc = "state"
  /\ \A s \in Streams : Trusted(s, run)
  /\ state' = [ kind |-> "whole", run |-> run,
                status |-> IF \A s \in Streams : Full(s) THEN "COMPLETE" ELSE "PARTIAL" ]
  /\ pc' = "stream"
  /\ UNCHANGED <<raw, checkpoint, provenance, run, at, accumulated, row, takes, crashes>>

SkipStream ==
  /\ pc = "stream"
  /\ at <= Len(StreamOrder)
  /\ Trusted(Stream, run)
  /\ Full(Stream)
  /\ at' = at + 1
  /\ UNCHANGED <<raw, checkpoint, state, provenance, pc, run, accumulated, row, takes,
                 crashes>>

\* Mutant: the rows of the stream are verified and not taken up.
EnterStreamEmpty ==
  /\ pc = "stream"
  /\ at <= Len(StreamOrder)
  /\ Trusted(Stream, run)
  /\ ~Full(Stream)
  /\ accumulated' = <<>>
  /\ pc' = "generate"
  /\ UNCHANGED <<raw, checkpoint, state, provenance, run, at, row, takes, crashes>>

\* execute_stream_integrated, in mode resume when the stream has rows.
EnterStream ==
  /\ pc = "stream"
  /\ at <= Len(StreamOrder)
  /\ Trusted(Stream, run)
  /\ ~Full(Stream)
  /\ accumulated' = raw[Stream].rows
  /\ pc' = "generate"
  /\ UNCHANGED <<raw, checkpoint, state, provenance, run, at, row, takes, crashes>>

Exit ==
  /\ pc = "stream"
  /\ at > Len(StreamOrder)
  /\ pc' = "off"
  /\ UNCHANGED <<raw, checkpoint, state, provenance, run, at, accumulated, row, takes,
                 crashes>>

Completed == {accumulated[i].sample : i \in DOMAIN accumulated}

\* Mutant: the first request is made again whatever is completed.
FirstOf(x) == x = 1

\* verified_requests: the samples without a row, in the order of the audit.
NextRequest(x) == x \notin Completed /\ \A y \in Samples \ Completed : x <= y

\* Mutant: each stream settles on a run_id of its own.
NewRowOwnRun(x) ==
  [sample |-> x, run |-> CHOOSE r \in RunIds : TRUE, take |-> takes[Stream][x] + 1]

\* normalize_raw_generation_row: the row of the call about to be made.
NewRow(x) == [sample |-> x, run |-> run, take |-> takes[Stream][x] + 1]

\* generate_one.
Generate ==
  /\ pc = "generate"
  /\ Len(accumulated) < N
  /\ \E x \in Samples :
       /\ NextRequest(x)
       /\ takes' = [takes EXCEPT ![Stream][x] = @ + 1]
       /\ row' = NewRow(x)
  /\ pc' = "raw"
  /\ UNCHANGED <<raw, checkpoint, state, provenance, run, at, accumulated, crashes>>

\* write_rows_incrementally: the whole raw file, then the whole checkpoint.
WriteRaw ==
  /\ pc = "raw"
  /\ raw' = [raw EXCEPT ![Stream] = [kind |-> "whole", rows |-> Append(accumulated, row)]]
  /\ pc' = "checkpoint"
  /\ UNCHANGED <<checkpoint, state, provenance, run, at, accumulated, row, takes, crashes>>

CheckpointOf(rows) ==
  [kind |-> "whole", run |-> run, rows |-> {rows[i] : i \in DOMAIN rows}]

WriteCheckpoint ==
  /\ pc = "checkpoint"
  /\ checkpoint' = [checkpoint EXCEPT ![Stream] = CheckpointOf(Append(accumulated, row))]
  /\ accumulated' = Append(accumulated, row)
  /\ pc' = "generate"
  /\ UNCHANGED <<raw, state, provenance, run, at, row, takes, crashes>>

\* All samples have a row: the checkpoint is written once more.
WriteFullCheckpoint ==
  /\ pc = "generate"
  /\ Len(accumulated) = N
  /\ checkpoint' = [checkpoint EXCEPT ![Stream] = CheckpointOf(accumulated)]
  /\ pc' = IF Stream = Shared THEN "d_g1" ELSE "next"
  /\ UNCHANGED <<raw, state, provenance, run, at, accumulated, row, takes, crashes>>

\* make_replay_provenance_rows for the two arms, one file after the other.
WriteProvenance ==
  /\ pc \in Arms
  /\ provenance' = [provenance EXCEPT ![pc] = [kind |-> "whole", rows |-> accumulated]]
  /\ pc' = IF pc = "d_g1" THEN "d_f_g1" ELSE "next"
  /\ UNCHANGED <<raw, checkpoint, state, run, at, accumulated, row, takes, crashes>>

NextStream ==
  /\ pc = "next"
  /\ at' = at + 1
  /\ pc' = "state"
  /\ UNCHANGED <<raw, checkpoint, state, provenance, run, accumulated, row, takes, crashes>>

\* What a write that does not end leaves of a JSONL file.
Cut(rows) ==
  {[kind |-> "torn", rows |-> <<>>]}
    \cup {[kind |-> "whole", rows |-> SubSeq(rows, 1, k)] : k \in 0..(Len(rows) - 1)}

\* The process ends between two writes, or in the middle of the next one.  An
\* exception in the generator ends it between two writes.
Crash ==
  /\ pc # "off"
  /\ crashes < MaxCrashes
  /\ crashes' = crashes + 1
  /\ pc' = "off"
  /\ \/ UNCHANGED <<raw, checkpoint, state, provenance>>
     \/ /\ pc = "state"
        /\ \A s \in Streams : Trusted(s, run)
        /\ state' = [state EXCEPT !.kind = "torn"]
        /\ UNCHANGED <<raw, checkpoint, provenance>>
     \/ /\ pc = "raw"
        /\ \E left \in Cut(Append(accumulated, row)) : raw' = [raw EXCEPT ![Stream] = left]
        /\ UNCHANGED <<checkpoint, state, provenance>>
     \/ /\ pc = "checkpoint" \/ (pc = "generate" /\ Len(accumulated) = N)
        /\ checkpoint' = [checkpoint EXCEPT ![Stream].kind = "torn"]
        /\ UNCHANGED <<raw, state, provenance>>
     \/ /\ pc \in Arms
        /\ \E left \in Cut(accumulated) : provenance' = [provenance EXCEPT ![pc] = left]
        /\ UNCHANGED <<raw, checkpoint, state>>
  /\ UNCHANGED <<run, at, accumulated, row, takes>>

Work ==
  \/ Refuse \/ WriteState \/ SkipStream \/ EnterStream \/ Exit
  \/ Generate \/ WriteRaw \/ WriteCheckpoint \/ WriteFullCheckpoint
  \/ WriteProvenance \/ NextStream

Next == LaunchInitial \/ LaunchResume \/ Work \/ Crash

Spec == Init /\ [][Next]_vars

\* The process works while it lives; the operator starts or resumes an
\* unfinished run.
FairSpec ==
  /\ Spec
  /\ WF_vars(Work)
  /\ WF_vars(LaunchInitial)
  /\ WF_vars(LaunchResume)

-----------------------------------------------------------------------------
RowFile == [kind : Kinds, rows : Seq(Row)]

TypeOK ==
  /\ raw \in [Streams -> RowFile]
  /\ checkpoint \in [Streams -> [kind : Kinds, run : RunIds, rows : SUBSET Row]]
  /\ state \in [kind : Kinds, run : RunIds, status : {"PARTIAL", "COMPLETE"}]
  /\ provenance \in [Arms -> RowFile]
  /\ pc \in {"off", "state", "stream", "generate", "raw", "checkpoint", "next"} \cup Arms
  /\ run \in RunIds
  /\ at \in 1..(Len(StreamOrder) + 1)
  /\ accumulated \in Seq(Row) /\ Len(accumulated) <= N
  /\ row \in Row
  /\ takes \in [Streams -> [Samples -> Takes]]
  /\ crashes \in 0..MaxCrashes

\* The stream whose rows the process holds in memory.
Working(s) ==
  /\ pc \in {"generate", "raw", "checkpoint"}
  /\ at <= Len(StreamOrder) /\ s = Stream

\* Streams as append-only logs: what a resumed run would take up, or, for the
\* stream being filled, the rows whose checkpoint has been written.
Ledger ==
  [s \in Streams |->
     IF Working(s) THEN [usable |-> TRUE, rows |-> accumulated]
     ELSE IF NotStarted(s) \/ \E r \in RunIds : Verifies(s, r)
          THEN [usable |-> TRUE, rows |-> raw[s].rows]
          ELSE [usable |-> FALSE, rows |-> <<>>]]

Log == INSTANCE StreamLedger WITH ledger <- Ledger

\* Whatever crashes, every stream is an append-only log of one row per sample,
\* or is unusable for good: "completed_rows_are_immutable".
ImplementsLedger == Log!LSpec

\* "only_unfinished_ids_may_be_generated": once a row counts as completed, the
\* model is never called again for its sample.
CompletedNotRegenerated ==
  \A s \in Streams : \A i \in DOMAIN Ledger[s].rows :
    LET done == Ledger[s].rows[i] IN
      takes[s][done.sample] = done.take

\* The calls of the model that were made again: none of their rows is kept.
Calls == [stream : Streams, sample : Samples, take : Takes]
LostCalls == {c \in Calls : 1 <= c.take /\ c.take < takes[c.stream][c.sample]}

\* A crash costs at most one call of the model, that of the row being persisted.
OneCallLostPerCrash == Cardinality(LostCalls) <= crashes

\* One run_id over all rows of all streams, the one of the run state.
OneRunId ==
  \A s \in Streams : \A i \in DOMAIN raw[s].rows :
    raw[s].rows[i].run = IF state.kind = "whole" THEN state.run ELSE run

\* A run state that says COMPLETE stays true: each stream has one row for
\* every sample, and a checkpoint with the hashes of exactly these rows.
CompleteIsComplete ==
  state.kind = "whole" /\ state.status = "COMPLETE" =>
    \A s \in Streams :
      /\ raw[s].kind = "whole" /\ checkpoint[s].kind = "whole"
      /\ Len(raw[s].rows) = N /\ {r.sample : r \in RowsOf(s)} = Samples
      /\ checkpoint[s].rows = RowsOf(s)

Stuck == state.kind = "torn" \/ \E s \in Streams : ~Ledger[s].usable

\* When the crashes are over, a run that can be resumed gets completed; the
\* others have a file that no part of the harness repairs.
CompletesOrStuck == <>((state.kind = "whole" /\ state.status = "COMPLETE") \/ Stuck)

\* "write_actual_d_g1_and_d_f_g1_replay_provenance_after_shared_stream_completion"
CompleteHasProvenance ==
  state.kind = "whole" /\ state.status = "COMPLETE" =>
    \A a \in Arms : provenance[a].kind = "whole" /\ Len(provenance[a].rows) = N
=============================================================================
