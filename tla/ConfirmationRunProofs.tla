------------------------- MODULE ConfirmationRunProofs -------------------------
(***************************************************************************)
(* For any number of streams, samples, run_ids and crashes: the types, one *)
(* run_id over all rows, no second call for a completed row and one lost   *)
(* call per crash, a run state that stays true, rows no step changes, that *)
(* the streams are the logs of StreamLedger, and the measure by which a    *)
(* process ends.                                                           *)
(***************************************************************************)
EXTENDS ConfirmationRun, FiniteSetTheorems, TLAPS

RowSet(rows) == {rows[i] : i \in DOMAIN rows}

\* The rows of a stream: one per sample from the first on, all of this run,
\* each from the last call made for its sample.
Ordered(s, rows) ==
  /\ Len(rows) <= N
  /\ \A i \in DOMAIN rows :
       rows[i].sample = i /\ rows[i].run = run /\ rows[i].take = takes[s][i]

\* Where the process is, and what the run state says of it.
Shape ==
  /\ pc \notin {"off", "state", "stream"} => at <= Len(StreamOrder)
  /\ state.kind = "absent" => pc \in {"off", "state"} /\ \A s \in Streams : NotStarted(s)
  /\ state.kind = "whole" => state.run = run
  /\ state.kind = "torn" => pc = "off"
  /\ \A s \in Streams : raw[s].kind = "absent" => raw[s].rows = <<>>

Logs == \A s \in Streams : Ordered(s, raw[s].rows)

\* The rows in memory, against the two files of their stream.
Memory ==
  pc \in {"generate", "raw", "checkpoint"} =>
    /\ Ordered(Stream, accumulated)
    /\ checkpoint[Stream].kind = "whole" => checkpoint[Stream].rows = RowSet(accumulated)
    /\ pc # "checkpoint" => raw[Stream].rows = accumulated
    /\ pc = "checkpoint" => raw[Stream].rows = Append(accumulated, row)
    /\ pc # "generate" =>
         /\ Len(accumulated) < N
         /\ row.sample = Len(accumulated) + 1 /\ row.run = run
         /\ row.take = takes[Stream][row.sample]

\* Calls of the model for samples without a row were lost in a crash each.
Counts ==
  \A s \in Streams : \A x \in Samples :
    /\ takes[s][x] <= crashes + 1
    /\ x > Len(raw[s].rows) => \/ takes[s][x] <= crashes
                               \/ pc = "raw" /\ s = Stream /\ x = row.sample

\* A run state that says COMPLETE has nothing left to do.
Done ==
  state.kind = "whole" /\ state.status = "COMPLETE" =>
    /\ pc \in {"off", "state", "stream"}
    /\ \A s \in Streams : Verifies(s, run) /\ Full(s)

Inv == TypeOK /\ Shape /\ Logs /\ Memory /\ Counts /\ Done

-----------------------------------------------------------------------------
\* The bounds, as numbers; streams and run_ids there are.
LEMMA Bounds ==
  /\ N \in Nat /\ N > 0 /\ MaxCrashes \in Nat
  /\ Len(StreamOrder) \in Nat
  /\ \A i \in 1..Len(StreamOrder) : StreamOrder[i] \in Streams
  /\ 1 \in 1..(Len(StreamOrder) + 1)
  /\ (CHOOSE r \in RunIds : TRUE) \in RunIds
<1>1. StreamOrder \in Seq(Streams)
  BY StreamOrderAssumption
<1>2. (CHOOSE r \in RunIds : TRUE) \in RunIds
  BY RunIdsAssumption
<1> QED BY <1>1, <1>2, NAssumption, MaxCrashesAssumption

\* What the absent files and the first row hold is of its type.
LEMMA AbsentTypes ==
  /\ NoRows \in RowFile
  /\ NoCheckpoint \in [kind : Kinds, run : RunIds, rows : SUBSET Row]
  /\ NoState \in [kind : Kinds, run : RunIds, status : {"PARTIAL", "COMPLETE"}]
  /\ NoRow \in Row
BY Bounds DEF NoRows, RowFile, NoCheckpoint, NoState, NoRow, Row, Kinds, Samples, Takes

\* One more row.
LEMMA Appended ==
  ASSUME NEW rows \in Seq(Row), NEW r \in Row
  PROVE  /\ Append(rows, r) \in Seq(Row)
         /\ Len(Append(rows, r)) = Len(rows) + 1
         /\ Len(rows) \in Nat
         /\ DOMAIN rows = 1..Len(rows)
         /\ DOMAIN Append(rows, r) = 1..(Len(rows) + 1)
         /\ Append(rows, r)[Len(rows) + 1] = r
         /\ \A i \in 1..Len(rows) : Append(rows, r)[i] = rows[i]
         /\ RowSet(Append(rows, r)) = RowSet(rows) \cup {r}
<1>1. /\ Append(rows, r) \in Seq(Row)
      /\ Len(Append(rows, r)) = Len(rows) + 1
      /\ Len(rows) \in Nat
      /\ DOMAIN rows = 1..Len(rows)
      /\ DOMAIN Append(rows, r) = 1..(Len(rows) + 1)
      /\ Append(rows, r)[Len(rows) + 1] = r
      /\ \A i \in 1..Len(rows) : Append(rows, r)[i] = rows[i]
  OBVIOUS
<1>2. \A i : i \in 1..(Len(rows) + 1) <=> i \in 1..Len(rows) \/ i = Len(rows) + 1
  BY <1>1
<1> QED BY <1>1, <1>2 DEF RowSet

\* What a write that does not end leaves: nothing, or the first rows.
LEMMA CutTypes ==
  ASSUME NEW rows \in Seq(Row), NEW left \in Cut(rows)
  PROVE  /\ left \in RowFile
         /\ left.kind # "absent"
         /\ Len(left.rows) \in Nat /\ Len(left.rows) <= Len(rows)
         /\ DOMAIN left.rows = 1..Len(left.rows)
         /\ \A i \in DOMAIN left.rows : i \in DOMAIN rows /\ left.rows[i] = rows[i]
         /\ left.kind = "whole" => Len(left.rows) < Len(rows)
<1>1. CASE left = [kind |-> "torn", rows |-> <<>>]
  BY <1>1 DEF RowFile, Kinds
<1>2. CASE \E k \in 0..(Len(rows) - 1) :
             left = [kind |-> "whole", rows |-> SubSeq(rows, 1, k)]
  <2>1. PICK k \in 0..(Len(rows) - 1) :
          left = [kind |-> "whole", rows |-> SubSeq(rows, 1, k)]
    BY <1>2
  <2>2. /\ SubSeq(rows, 1, k) \in Seq(Row)
        /\ Len(SubSeq(rows, 1, k)) = k
        /\ k \in Nat /\ k < Len(rows)
        /\ \A i \in 1..k : i \in DOMAIN rows /\ SubSeq(rows, 1, k)[i] = rows[i]
    OBVIOUS
  <2> QED BY <2>1, <2>2 DEF RowFile, Kinds
<1> QED BY <1>1, <1>2 DEF Cut

\* The stream a process works on is one.
LEMMA StreamIs ==
  ASSUME TypeOK, at <= Len(StreamOrder)
  PROVE  Stream \in Streams /\ at \in 1..Len(StreamOrder)
BY Bounds DEF TypeOK, Stream

\* Rows in order and one more.
LEMMA OrderedAppend ==
  ASSUME TypeOK, NEW s \in Streams, NEW rows \in Seq(Row), NEW r \in Row,
         Ordered(s, rows), Len(rows) < N,
         r.sample = Len(rows) + 1, r.run = run, r.take = takes[s][r.sample]
  PROVE  Ordered(s, Append(rows, r))
<1>1. Len(Append(rows, r)) <= N
  BY Appended, Bounds
<1>2. ASSUME NEW i \in DOMAIN Append(rows, r)
      PROVE  /\ Append(rows, r)[i].sample = i /\ Append(rows, r)[i].run = run
             /\ Append(rows, r)[i].take = takes[s][i]
  <2>1. CASE i \in 1..Len(rows)
    BY <2>1, Appended DEF Ordered
  <2>2. CASE i = Len(rows) + 1
    BY <2>2, Appended
  <2> QED BY <1>2, <2>1, <2>2, Appended
<1> QED BY <1>1, <1>2 DEF Ordered

\* The next request is the first sample without a row.
LEMMA NextIsFirst ==
  ASSUME TypeOK, NEW s, Ordered(s, accumulated), Len(accumulated) < N,
         NEW x \in Samples, NextRequest(x)
  PROVE  x = Len(accumulated) + 1
<1>1. Len(accumulated) \in Nat /\ DOMAIN accumulated = 1..Len(accumulated)
  BY DEF TypeOK
<1>2. Completed = 1..Len(accumulated)
  BY <1>1 DEF Completed, Ordered
<1>3. Len(accumulated) + 1 \in Samples \ Completed
  BY <1>1, <1>2, Bounds DEF Samples
<1>4. x <= Len(accumulated) + 1 /\ x \notin 1..Len(accumulated) /\ x \in 1..N
  BY <1>2, <1>3 DEF NextRequest, Samples
<1> QED BY <1>1, <1>4, Bounds

-----------------------------------------------------------------------------
\* The invariant holds at first.
LEMMA InvInit == Init => Inv
<1> SUFFICES ASSUME Init PROVE Inv
  BY DEF Inv
<1>1. TypeOK
  BY AbsentTypes, Bounds DEF Init, TypeOK, Takes, Samples
<1>2. /\ pc = "off" /\ state.kind = "absent" /\ crashes = 0
      /\ \A s \in Streams : raw[s] = NoRows /\ checkpoint[s] = NoCheckpoint
      /\ \A s \in Streams : \A x \in Samples : takes[s][x] = 0
  BY DEF Init, NoState
<1>3. Shape
  <2>1. /\ NoRows.kind = "absent" /\ NoRows.rows = <<>>
        /\ NoCheckpoint.kind = "absent"
    BY DEF NoRows, NoCheckpoint
  <2>2. \A s \in Streams : NotStarted(s) /\ raw[s].rows = <<>>
    BY <1>2, <2>1 DEF NotStarted
  <2> QED BY <1>2, <2>2 DEF Shape
<1>4. Logs
  BY <1>2, Bounds DEF Logs, Ordered, NoRows
<1>5. Memory /\ Done
  BY <1>2 DEF Memory, Done
<1>6. Counts
  BY <1>2 DEF Counts
<1> QED BY <1>1, <1>3, <1>4, <1>5, <1>6 DEF Inv

\* Outside of the work on a stream only the run state is written.
LEMMA LaunchInv ==
  ASSUME Inv, LaunchInitial \/ LaunchResume
  PROVE  Inv'
<1>0. /\ pc = "off" /\ pc' = "state" /\ at' = 1 /\ run' \in RunIds
      /\ UNCHANGED <<raw, checkpoint, state, provenance, accumulated, row, takes, crashes>>
  BY DEF LaunchInitial, LaunchResume, Inv, TypeOK
<1>1. TypeOK'
  BY <1>0, Bounds DEF Inv, TypeOK
<1>2. \/ run' = run /\ state.kind = "whole"
      \/ state.kind = "absent" /\ \A s \in Streams : raw[s].rows = <<>>
  BY DEF LaunchInitial, LaunchResume, Inv, Shape, NotStarted
<1>3. Logs'
  <2>1. CASE run' = run
    BY <1>0, <2>1 DEF Inv, Logs, Ordered
  <2>2. CASE \A s \in Streams : raw[s].rows = <<>>
    BY <1>0, <2>2, Bounds DEF Logs, Ordered
  <2> QED BY <1>2, <2>1, <2>2
<1>4. Shape'
  BY <1>0, <1>2 DEF Inv, Shape, NotStarted
<1>5. (Memory /\ Counts)'
  BY <1>0 DEF Inv, Memory, Counts
<1>6. Done'
  BY <1>0, <1>2 DEF Inv, Done, Verifies, Full, RowsOf
<1> QED BY <1>1, <1>3, <1>4, <1>5, <1>6 DEF Inv

\* The steps that change no file and no count.
LEMMA PassInv ==
  ASSUME Inv, Refuse \/ SkipStream \/ Exit \/ NextStream
  PROVE  Inv'
<1>0. /\ UNCHANGED <<raw, checkpoint, state, provenance, run, accumulated, row, takes, crashes>>
      /\ pc' \in {"off", "state", "stream"} /\ pc # "off"
      /\ pc' = "stream" => pc = "stream"
      /\ pc' = "state" => pc = "next"
  BY DEF Refuse, SkipStream, Exit, NextStream
<1>1. at' \in 1..(Len(StreamOrder) + 1)
  BY Bounds DEF Inv, TypeOK, Shape, Refuse, SkipStream, Exit, NextStream
<1>2. TypeOK'
  BY <1>0, <1>1 DEF Inv, TypeOK
<1>3. Shape'
  BY <1>0 DEF Inv, Shape, NotStarted
<1>4. Logs'
  BY <1>0 DEF Inv, Logs, Ordered
<1>5. Memory'
  BY <1>0 DEF Memory
<1>6. Counts'
  <2>1. pc # "raw"
    BY DEF Refuse, SkipStream, Exit, NextStream
  <2> QED BY <1>0, <2>1 DEF Inv, Counts
<1>7. Done'
  BY <1>0 DEF Inv, Done, Verifies, Full, RowsOf
<1> QED BY <1>2, <1>3, <1>4, <1>5, <1>6, <1>7 DEF Inv

\* COMPLETE is only written when every stream is verified and full.
LEMMA WriteStateInv ==
  ASSUME Inv, WriteState
  PROVE  Inv'
<1>0. /\ UNCHANGED <<raw, checkpoint, provenance, run, at, accumulated, row, takes, crashes>>
      /\ pc = "state" /\ pc' = "stream" /\ state'.kind = "whole" /\ state'.run = run
      /\ \A s \in Streams : Trusted(s, run)
      /\ state'.status = "COMPLETE" => \A s \in Streams : Full(s)
  BY DEF WriteState
<1>1. TypeOK'
  <2>1. state' \in [kind : Kinds, run : RunIds, status : {"PARTIAL", "COMPLETE"}]
    BY DEF WriteState, Inv, TypeOK, Kinds
  <2> QED BY <1>0, <2>1 DEF Inv, TypeOK
<1>2. Shape'
  BY <1>0 DEF Inv, Shape
<1>3. Logs'
  BY <1>0 DEF Inv, Logs, Ordered
<1>4. (Memory /\ Counts)'
  BY <1>0 DEF Inv, Memory, Counts
<1>5. ASSUME NEW s \in Streams, Full(s) PROVE Verifies(s, run)
  <2>1. Len(raw[s].rows) > 0
    BY <1>5, Bounds DEF Full
  <2>2. raw[s].kind # "absent"
    BY <2>1 DEF Inv, Shape
  <2> QED BY <1>0, <2>2 DEF Trusted, NotStarted
<1>6. Done'
  BY <1>0, <1>5 DEF Done, Verifies, Full, RowsOf
<1> QED BY <1>1, <1>2, <1>3, <1>4, <1>6 DEF Inv

\* The rows of an unfinished stream are taken up.
LEMMA EnterStreamInv ==
  ASSUME Inv, EnterStream
  PROVE  Inv'
<1>0. /\ UNCHANGED <<raw, checkpoint, state, provenance, run, at, row, takes, crashes>>
      /\ pc = "stream" /\ pc' = "generate" /\ at <= Len(StreamOrder)
      /\ Trusted(Stream, run) /\ ~Full(Stream)
      /\ accumulated' = raw[Stream].rows
  BY DEF EnterStream
<1>s. Stream \in Streams /\ Stream' = Stream
  BY <1>0, StreamIs DEF Inv, Stream
<1>1. raw[Stream].rows \in Seq(Row) /\ Len(raw[Stream].rows) <= N
  BY <1>s DEF Inv, TypeOK, RowFile, Logs, Ordered
<1>2. TypeOK'
  BY <1>0, <1>1 DEF Inv, TypeOK
<1>3. Shape'
  BY <1>0 DEF Inv, Shape, NotStarted
<1>4. Logs'
  BY <1>0 DEF Inv, Logs, Ordered
<1>5. Memory'
  <2>1. Ordered(Stream, raw[Stream].rows)
    BY <1>s DEF Inv, Logs
  <2>2. Ordered(Stream, accumulated)'
    BY <1>0, <1>s, <2>1 DEF Ordered
  <2>3. checkpoint[Stream].kind = "whole" => checkpoint[Stream].rows = RowSet(raw[Stream].rows)
    BY <1>0 DEF Trusted, NotStarted, Verifies, RowsOf, RowSet
  <2>4. RowSet(accumulated)' = RowSet(raw[Stream].rows)
    BY <1>0 DEF RowSet
  <2> QED BY <1>0, <1>s, <2>2, <2>3, <2>4 DEF Memory
<1>6. Counts'
  BY <1>0 DEF Inv, Counts
<1>7. Done'
  BY <1>0, <1>s DEF Inv, Done
<1> QED BY <1>2, <1>3, <1>4, <1>5, <1>6, <1>7 DEF Inv

\* The model is called for the next sample.
LEMMA GenerateInv ==
  ASSUME Inv, Generate
  PROVE  Inv'
<1>0. /\ UNCHANGED <<raw, checkpoint, state, provenance, run, at, accumulated, crashes>>
      /\ pc = "generate" /\ pc' = "raw" /\ Len(accumulated) < N
  BY DEF Generate
<1>s. Stream \in Streams /\ Stream' = Stream
  BY <1>0, StreamIs DEF Inv, Shape, Stream
<1>1. PICK x \in Samples :
        /\ NextRequest(x)
        /\ takes' = [takes EXCEPT ![Stream][x] = @ + 1]
        /\ row' = NewRow(x)
  BY DEF Generate
<1>m. /\ Ordered(Stream, accumulated) /\ raw[Stream].rows = accumulated
      /\ checkpoint[Stream].kind = "whole" => checkpoint[Stream].rows = RowSet(accumulated)
  BY <1>0 DEF Inv, Memory
<1>2. x = Len(accumulated) + 1 /\ Len(accumulated) \in Nat
  BY <1>0, <1>1, <1>m, NextIsFirst DEF Inv, TypeOK
<1>3. /\ takes \in [Streams -> [Samples -> Takes]] /\ crashes \in 0..MaxCrashes
      /\ takes[Stream][x] \in 0..crashes
  <2>1. takes[Stream][x] \in Nat /\ crashes \in Nat
    BY <1>s, Bounds DEF Inv, TypeOK, Takes
  <2>2. takes[Stream][x] <= crashes
    BY <1>0, <1>s, <1>m, <1>2 DEF Inv, Counts
  <2> QED BY <2>1, <2>2 DEF Inv, TypeOK
<1>4. /\ \A s \in Streams, y \in Samples :
           s # Stream \/ y # x => takes'[s][y] = takes[s][y]
      /\ takes'[Stream][x] = takes[Stream][x] + 1
      /\ takes'[Stream][x] \in Takes
      /\ takes' \in [Streams -> [Samples -> Takes]]
  <2>1. takes[Stream][x] + 1 \in Takes
    BY <1>3, Bounds DEF Takes
  <2> QED BY <1>1, <1>3, <1>s, <2>1
<1>5. /\ row' = [sample |-> x, run |-> run, take |-> takes'[Stream][x]]
      /\ row' \in Row
  BY <1>1, <1>4 DEF NewRow, Row, Inv, TypeOK
<1>6. TypeOK'
  BY <1>0, <1>4, <1>5 DEF Inv, TypeOK
<1>7. Shape'
  BY <1>0, <1>s DEF Inv, Shape, NotStarted
<1>8. ASSUME NEW s \in Streams PROVE Ordered(s, raw[s].rows)'
  <2>1. raw[s].rows \in Seq(Row) /\ Ordered(s, raw[s].rows)
    BY DEF Inv, TypeOK, RowFile, Logs
  <2>2. ASSUME NEW i \in DOMAIN raw[s].rows PROVE takes'[s][i] = takes[s][i]
    <3>1. i \in Samples
      BY <2>1, Bounds DEF Ordered, Samples
    <3>2. CASE s = Stream
      BY <1>m, <1>2, <1>4, <3>1, <3>2
    <3>3. CASE s # Stream
      BY <1>4, <3>1, <3>3
    <3> QED BY <3>2, <3>3
  <2> QED BY <1>0, <2>1, <2>2 DEF Ordered
<1>9. Logs'
  BY <1>8 DEF Logs
<1>10. Memory'
  <2>1. Ordered(Stream, accumulated)'
    BY <1>0, <1>s, <1>8, <1>m
  <2>2. RowSet(accumulated)' = RowSet(accumulated)
    BY <1>0 DEF RowSet
  <2> QED BY <1>0, <1>s, <1>m, <1>2, <1>5, <2>1, <2>2 DEF Memory
<1>11. Counts'
  <2>1. ASSUME NEW s \in Streams, NEW y \in Samples
        PROVE  /\ takes'[s][y] <= crashes + 1
               /\ y > Len(raw[s].rows) => \/ takes'[s][y] <= crashes
                                          \/ s = Stream /\ y = x
    <3>1. CASE s = Stream /\ y = x
      BY <1>3, <1>4, <3>1, Bounds
    <3>2. CASE s # Stream \/ y # x
      BY <1>0, <1>4, <3>2 DEF Inv, Counts
    <3> QED BY <3>1, <3>2
  <2> QED BY <1>0, <1>s, <1>5, <2>1 DEF Counts
<1>12. Done'
  BY <1>0 DEF Inv, Done
<1> QED BY <1>6, <1>7, <1>9, <1>10, <1>11, <1>12 DEF Inv

\* The raw file gets the row.
LEMMA WriteRawInv ==
  ASSUME Inv, WriteRaw
  PROVE  Inv'
<1>0. /\ UNCHANGED <<checkpoint, state, provenance, run, at, accumulated, row, takes, crashes>>
      /\ pc = "raw" /\ pc' = "checkpoint"
      /\ raw' = [raw EXCEPT ![Stream] = [kind |-> "whole", rows |-> Append(accumulated, row)]]
  BY DEF WriteRaw
<1>s. Stream \in Streams /\ Stream' = Stream
  BY <1>0, StreamIs DEF Inv, Shape, Stream
<1>t. /\ accumulated \in Seq(Row) /\ row \in Row /\ raw \in [Streams -> RowFile]
      /\ Append(accumulated, row) \in Seq(Row)
      /\ Len(Append(accumulated, row)) = Len(accumulated) + 1 /\ Len(accumulated) \in Nat
  BY Appended DEF Inv, TypeOK
<1>m. /\ Ordered(Stream, accumulated) /\ raw[Stream].rows = accumulated
      /\ checkpoint[Stream].kind = "whole" => checkpoint[Stream].rows = RowSet(accumulated)
      /\ Len(accumulated) < N
      /\ row.sample = Len(accumulated) + 1 /\ row.run = run
      /\ row.take = takes[Stream][row.sample]
  BY <1>0 DEF Inv, Memory
<1>1. /\ raw'[Stream] = [kind |-> "whole", rows |-> Append(accumulated, row)]
      /\ raw'[Stream].rows = Append(accumulated, row) /\ raw'[Stream].kind = "whole"
      /\ \A s \in Streams \ {Stream} : raw'[s] = raw[s]
      /\ raw' \in [Streams -> RowFile]
  <2>1. [kind |-> "whole", rows |-> Append(accumulated, row)] \in RowFile
    BY <1>t DEF RowFile, Kinds
  <2> QED BY <1>0, <1>s, <1>t, <2>1
<1>2. TypeOK'
  BY <1>0, <1>1 DEF Inv, TypeOK
<1>3. Shape'
  BY <1>0, <1>1, <1>s DEF Inv, Shape
<1>4. Logs'
  <2>1. Ordered(Stream, Append(accumulated, row))
    BY <1>m, <1>s, <1>t, OrderedAppend DEF Inv
  <2>2. ASSUME NEW s \in Streams PROVE Ordered(s, raw[s].rows)'
    BY <1>0, <1>1, <2>1 DEF Inv, Logs, Ordered
  <2> QED BY <2>2 DEF Logs
<1>5. Memory'
  <2>1. Ordered(Stream, accumulated)'
    BY <1>0, <1>s, <1>m DEF Ordered
  <2>2. RowSet(accumulated)' = RowSet(accumulated)
    BY <1>0 DEF RowSet
  <2> QED BY <1>0, <1>1, <1>s, <1>m, <2>1, <2>2 DEF Memory
<1>6. Counts'
  <2>1. ASSUME NEW s \in Streams, NEW y \in Samples, y > Len(raw'[s].rows)
        PROVE  takes[s][y] <= crashes
    <3>1. CASE s = Stream
      <4>1. y > Len(accumulated) /\ y # row.sample
        BY <1>1, <1>t, <1>m, <2>1, <3>1 DEF Samples
      <4> QED BY <1>0, <1>m, <3>1, <4>1 DEF Inv, Counts
    <3>2. CASE s # Stream
      BY <1>0, <1>1, <2>1, <3>2 DEF Inv, Counts
    <3> QED BY <3>1, <3>2
  <2> QED BY <1>0, <2>1 DEF Inv, Counts
<1>7. Done'
  BY <1>0 DEF Inv, Done
<1> QED BY <1>2, <1>3, <1>4, <1>5, <1>6, <1>7 DEF Inv

\* The checkpoint gets it.
LEMMA WriteCheckpointInv ==
  ASSUME Inv, WriteCheckpoint
  PROVE  Inv'
<1>0. /\ UNCHANGED <<raw, state, provenance, run, at, row, takes, crashes>>
      /\ pc = "checkpoint" /\ pc' = "generate"
      /\ checkpoint' = [checkpoint EXCEPT ![Stream] = CheckpointOf(Append(accumulated, row))]
      /\ accumulated' = Append(accumulated, row)
  BY DEF WriteCheckpoint
<1>s. Stream \in Streams /\ Stream' = Stream
  BY <1>0, StreamIs DEF Inv, Shape, Stream
<1>t. /\ accumulated \in Seq(Row) /\ row \in Row
      /\ Append(accumulated, row) \in Seq(Row)
      /\ Len(Append(accumulated, row)) = Len(accumulated) + 1 /\ Len(accumulated) \in Nat
      /\ RowSet(Append(accumulated, row)) \subseteq Row
  BY Appended DEF Inv, TypeOK, RowSet
<1>m. /\ raw[Stream].rows = Append(accumulated, row) /\ Len(accumulated) < N
  BY <1>0 DEF Inv, Memory
<1>1. /\ checkpoint'[Stream] = [kind |-> "whole", run |-> run,
                                rows |-> RowSet(Append(accumulated, row))]
      /\ checkpoint' \in [Streams -> [kind : Kinds, run : RunIds, rows : SUBSET Row]]
  <2>1. CheckpointOf(Append(accumulated, row)) =
          [kind |-> "whole", run |-> run, rows |-> RowSet(Append(accumulated, row))]
    BY DEF CheckpointOf, RowSet
  <2>2. CheckpointOf(Append(accumulated, row)) \in [kind : Kinds, run : RunIds, rows : SUBSET Row]
    BY <1>t, <2>1 DEF Inv, TypeOK, Kinds
  <2> QED BY <1>0, <1>s, <2>1, <2>2 DEF Inv, TypeOK
<1>2. TypeOK'
  BY <1>0, <1>1, <1>t, <1>m, Bounds DEF Inv, TypeOK
<1>3. Shape'
  BY <1>0, <1>s DEF Inv, Shape
<1>4. Logs'
  BY <1>0 DEF Inv, Logs, Ordered
<1>5. Memory'
  <2>1. Ordered(Stream, accumulated)'
    BY <1>0, <1>s, <1>m DEF Inv, Logs, Ordered
  <2>2. RowSet(accumulated)' = RowSet(Append(accumulated, row))
    BY <1>0 DEF RowSet
  <2> QED BY <1>0, <1>1, <1>s, <1>m, <2>1, <2>2 DEF Memory
<1>6. Counts'
  BY <1>0 DEF Inv, Counts
<1>7. Done'
  BY <1>0 DEF Inv, Done
<1> QED BY <1>2, <1>3, <1>4, <1>5, <1>6, <1>7 DEF Inv

\* The checkpoint once more, and the provenance files.
LEMMA AfterRowsInv ==
  ASSUME Inv, WriteFullCheckpoint \/ WriteProvenance
  PROVE  Inv'
<1>0. /\ UNCHANGED <<raw, state, run, at, accumulated, row, takes, crashes>>
      /\ pc \in {"generate"} \cup Arms /\ pc' \in {"next"} \cup Arms
  BY DEF WriteFullCheckpoint, WriteProvenance, Arms
<1>s. Stream \in Streams /\ accumulated \in Seq(Row)
  BY <1>0, StreamIs DEF Inv, Shape, Arms, TypeOK
<1>1. checkpoint' \in [Streams -> [kind : Kinds, run : RunIds, rows : SUBSET Row]]
  <2>1. CheckpointOf(accumulated) \in [kind : Kinds, run : RunIds, rows : SUBSET Row]
    BY <1>s DEF CheckpointOf, Inv, TypeOK, Kinds
  <2> QED BY <1>s, <2>1 DEF WriteFullCheckpoint, WriteProvenance, Inv, TypeOK
<1>2. provenance' \in [Arms -> RowFile]
  <2>1. [kind |-> "whole", rows |-> accumulated] \in RowFile
    BY <1>s DEF RowFile, Kinds
  <2> QED BY <2>1 DEF WriteFullCheckpoint, WriteProvenance, Inv, TypeOK
<1>3. TypeOK'
  BY <1>0, <1>1, <1>2 DEF Inv, TypeOK, Arms
<1>4. Shape'
  BY <1>0 DEF Inv, Shape, Arms
<1>5. Logs'
  BY <1>0 DEF Inv, Logs, Ordered
<1>6. Memory'
  BY <1>0 DEF Memory, Arms
<1>7. Counts'
  BY <1>0 DEF Inv, Counts, Arms
<1>8. Done'
  BY <1>0 DEF Inv, Done, Arms
<1> QED BY <1>3, <1>4, <1>5, <1>6, <1>7, <1>8 DEF Inv

\* The first rows of an ordered stream are ordered.
LEMMA OrderedCut ==
  ASSUME NEW s, NEW rows \in Seq(Row), Ordered(s, rows), NEW left \in Cut(rows)
  PROVE  Ordered(s, left.rows)
<1>1. /\ Len(left.rows) \in Nat /\ Len(left.rows) <= Len(rows) /\ Len(rows) \in Nat
      /\ \A i \in DOMAIN left.rows : i \in DOMAIN rows /\ left.rows[i] = rows[i]
  BY CutTypes
<1> QED BY <1>1, Bounds DEF Ordered

\* A crash, in whatever write: the rows that are left are the first of those
\* that were being written, and every call lost is paid for by the crash.
LEMMA CrashInv ==
  ASSUME Inv, Crash
  PROVE  Inv'
<1>0. /\ UNCHANGED <<run, at, accumulated, row, takes>>
      /\ pc # "off" /\ pc' = "off" /\ crashes < MaxCrashes /\ crashes' = crashes + 1
  BY DEF Crash
<1>t. /\ accumulated \in Seq(Row) /\ row \in Row /\ crashes \in Nat
      /\ Append(accumulated, row) \in Seq(Row)
  BY Appended, Bounds DEF Inv, TypeOK
<1>1. /\ \/ raw' = raw
         \/ /\ pc = "raw" /\ Stream \in Streams
            /\ \E left \in Cut(Append(accumulated, row)) : raw' = [raw EXCEPT ![Stream] = left]
      /\ \/ checkpoint' = checkpoint
         \/ /\ pc \in {"checkpoint", "generate"} /\ Stream \in Streams
            /\ checkpoint' = [checkpoint EXCEPT ![Stream].kind = "torn"]
      /\ state' = state \/ state' = [state EXCEPT !.kind = "torn"]
      /\ pc \in {"state", "stream"} => raw' = raw /\ checkpoint' = checkpoint
  BY StreamIs DEF Crash, Arms, Inv, Shape
<1>2. TypeOK'
  <2>1. raw' \in [Streams -> RowFile]
    <3>1. \A left \in Cut(Append(accumulated, row)) : left \in RowFile
      BY <1>t, CutTypes
    <3>2. raw \in [Streams -> RowFile]
      BY DEF Inv, TypeOK
    <3> QED BY <1>1, <3>1, <3>2
  <2>2. checkpoint' \in [Streams -> [kind : Kinds, run : RunIds, rows : SUBSET Row]]
    <3>1. checkpoint \in [Streams -> [kind : Kinds, run : RunIds, rows : SUBSET Row]]
      BY DEF Inv, TypeOK
    <3>2. CASE Stream \in Streams /\ checkpoint' = [checkpoint EXCEPT ![Stream].kind = "torn"]
      <4>1. [checkpoint[Stream] EXCEPT !.kind = "torn"]
              \in [kind : Kinds, run : RunIds, rows : SUBSET Row]
        BY <3>1, <3>2 DEF Kinds
      <4>2. checkpoint' = [checkpoint EXCEPT ![Stream] = [checkpoint[Stream] EXCEPT !.kind = "torn"]]
        BY <3>1, <3>2
      <4> QED BY <3>1, <3>2, <4>1, <4>2
    <3> QED BY <1>1, <3>1, <3>2
  <2>3. state' \in [kind : Kinds, run : RunIds, status : {"PARTIAL", "COMPLETE"}]
    BY <1>1 DEF Inv, TypeOK, Kinds
  <2>4. provenance' \in [Arms -> RowFile]
    BY <1>t, CutTypes DEF Crash, Inv, TypeOK
  <2>5. crashes' \in 0..MaxCrashes
    BY <1>0, <1>t, Bounds
  <2> QED BY <1>0, <2>1, <2>2, <2>3, <2>4, <2>5 DEF Inv, TypeOK
<1>3. Shape'
  <2>1. state.kind = "absent" => pc = "state" /\ \A s \in Streams : NotStarted(s)
    BY <1>0 DEF Inv, Shape
  <2>2. ASSUME NEW s \in Streams, raw'[s].kind = "absent" PROVE raw'[s].rows = <<>>
    <3>1. raw'[s] = raw[s] \/ raw'[s] \in Cut(Append(accumulated, row))
      BY <1>1 DEF Inv, TypeOK
    <3>2. raw'[s] = raw[s]
      BY <1>t, <2>2, <3>1, CutTypes
    <3> QED BY <2>2, <3>2 DEF Inv, Shape
  <2>3. state' = state \/ state'.kind = "torn"
    BY <1>1 DEF Inv, TypeOK
  <2>4. state'.kind = "absent" => state' = state /\ (\A s \in Streams : NotStarted(s)')
    BY <1>1, <2>1, <2>3 DEF NotStarted
  <2>5. state'.kind = "whole" => state'.run = run
    BY <2>3 DEF Inv, Shape
  <2> QED BY <1>0, <2>2, <2>4, <2>5 DEF Shape
<1>4. Logs'
  <2>1. ASSUME NEW s \in Streams PROVE Ordered(s, raw'[s].rows)
    <3>1. CASE raw'[s] = raw[s]
      BY <3>1 DEF Inv, Logs
    <3>2. CASE raw'[s] # raw[s]
      <4>1. /\ pc = "raw" /\ s = Stream
            /\ raw'[s] \in Cut(Append(accumulated, row))
        BY <1>1, <3>2 DEF Inv, TypeOK
      <4>2. Ordered(s, Append(accumulated, row))
        BY <1>t, <4>1, OrderedAppend DEF Inv, Memory
      <4> QED BY <1>t, <4>1, <4>2, OrderedCut
    <3> QED BY <3>1, <3>2
  <2> QED BY <1>0, <2>1 DEF Logs, Ordered
<1>5. Memory'
  BY <1>0 DEF Memory
<1>6. Counts'
  <2>1. ASSUME NEW s \in Streams, NEW x \in Samples PROVE takes[s][x] <= crashes + 1
    BY DEF Inv, Counts
  <2>2. \A s \in Streams : \A x \in Samples : takes[s][x] \in Nat
    BY Bounds DEF Inv, TypeOK, Takes
  <2> QED BY <1>0, <1>t, <2>1, <2>2 DEF Counts
<1>7. Done'
  <2>1. state'.kind = "whole" => state' = state
    BY <1>1 DEF Inv, TypeOK
  <2> QED BY <1>0, <1>1, <2>1 DEF Inv, Done, Verifies, Full, RowsOf
<1> QED BY <1>2, <1>3, <1>4, <1>5, <1>6, <1>7 DEF Inv

\* Every step keeps the invariant.
LEMMA InvNext ==
  ASSUME Inv, [Next]_vars
  PROVE  Inv'
<1>1. CASE UNCHANGED vars
  <2> USE <1>1 DEF vars
  <2>1. TypeOK' /\ Shape' /\ Logs'
    BY DEF Inv, TypeOK, Shape, NotStarted, Logs, Ordered
  <2>2. Memory'
    BY DEF Inv, Memory, Stream, Ordered, RowSet
  <2>3. Counts' /\ Done'
    BY DEF Inv, Counts, Done, Stream, Verifies, Full, RowsOf
  <2> QED BY <2>1, <2>2, <2>3 DEF Inv
<1> QED
  BY <1>1, LaunchInv, PassInv, WriteStateInv, EnterStreamInv, GenerateInv, WriteRawInv,
     WriteCheckpointInv, AfterRowsInv, CrashInv DEF Next, Work

\* The invariant always holds.
LEMMA InvAlways == Spec => []Inv
BY InvInit, InvNext, PTL DEF Spec

-----------------------------------------------------------------------------
\* Every variable keeps its type; a sample is called for at most once more than
\* there were crashes.
THEOREM TypeCorrect == Spec => []TypeOK
<1>1. Inv => TypeOK
  BY DEF Inv
<1> QED BY <1>1, InvAlways, PTL

\* All rows of all streams have one run_id, through crashes and resumes.
THEOREM RowsOfOneRun == Spec => []OneRunId
<1>1. ASSUME Inv PROVE OneRunId
  BY <1>1 DEF Inv, Logs, Ordered, Shape, OneRunId
<1> QED BY <1>1, InvAlways, PTL

\* Once a row counts as completed the model is never called for its sample.
THEOREM NoSecondCall == Spec => []CompletedNotRegenerated
<1>1. ASSUME Inv, NEW s \in Streams, NEW i \in DOMAIN Ledger[s].rows
      PROVE  takes[s][Ledger[s].rows[i].sample] = Ledger[s].rows[i].take
  <2>1. CASE Working(s)
    <3>1. Ledger[s].rows = accumulated
      BY <2>1 DEF Ledger
    <3>2. Ordered(s, accumulated)
      BY <1>1, <2>1 DEF Working, Inv, Memory
    <3> QED BY <1>1, <3>1, <3>2 DEF Ordered
  <2>2. CASE ~Working(s)
    <3>1. Ledger[s].rows = raw[s].rows \/ Ledger[s].rows = <<>>
      BY <2>2 DEF Ledger
    <3>2. Ordered(s, raw[s].rows)
      BY <1>1 DEF Inv, Logs
    <3> QED BY <1>1, <3>1, <3>2 DEF Ordered
  <2> QED BY <2>1, <2>2
<1>2. Inv => CompletedNotRegenerated
  BY <1>1 DEF CompletedNotRegenerated
<1> QED BY <1>2, InvAlways, PTL

\* A run state that says COMPLETE stays true of the files.
THEOREM CompleteStaysTrue == Spec => []CompleteIsComplete
<1>1. ASSUME Inv, state.kind = "whole", state.status = "COMPLETE", NEW s \in Streams
      PROVE  /\ raw[s].kind = "whole" /\ checkpoint[s].kind = "whole"
             /\ Len(raw[s].rows) = N /\ {r.sample : r \in RowsOf(s)} = Samples
             /\ checkpoint[s].rows = RowsOf(s)
  <2>1. Verifies(s, run) /\ Full(s)
    BY <1>1 DEF Inv, Done
  <2>2. raw[s].rows \in Seq(Row) /\ Len(raw[s].rows) = N
    BY <1>1, <2>1 DEF Inv, TypeOK, RowFile, Full
  <2>3. DOMAIN raw[s].rows = Samples
    BY <2>2 DEF Samples
  <2>4. \A i \in Samples : raw[s].rows[i].sample = i
    BY <1>1, <2>3 DEF Inv, Logs, Ordered
  <2>5. {r.sample : r \in RowsOf(s)} = Samples
    BY <2>3, <2>4 DEF RowsOf
  <2> QED BY <2>1, <2>2, <2>5 DEF Verifies
<1>2. Inv => CompleteIsComplete
  BY <1>1 DEF CompleteIsComplete
<1> QED BY <1>2, InvAlways, PTL

-----------------------------------------------------------------------------
(* The streams are the logs of StreamLedger.                                 *)

Usable(s) == NotStarted(s) \/ \E r \in RunIds : Verifies(s, r)
OnDisk(s) ==
  IF Usable(s) THEN [usable |-> TRUE, rows |-> raw[s].rows]
  ELSE [usable |-> FALSE, rows |-> <<>>]

\* A log is in memory or on disk.
LEMMA LedgerIs ==
  \A s \in Streams :
    /\ Ledger[s] = IF Working(s) THEN [usable |-> TRUE, rows |-> accumulated] ELSE OnDisk(s)
    /\ Ledger'[s] =
         IF Working(s)' THEN [usable |-> TRUE, rows |-> accumulated'] ELSE OnDisk(s)'
BY DEF Ledger, OnDisk, Usable

\* Files that are left alone hold the same log.
LEMMA OnDiskKept ==
  ASSUME NEW s \in Streams, raw'[s] = raw[s], checkpoint'[s] = checkpoint[s]
  PROVE  OnDisk(s)' = OnDisk(s)
<1>1. NotStarted(s)' <=> NotStarted(s)
  BY DEF NotStarted
<1>2. ASSUME NEW r \in RunIds PROVE Verifies(s, r)' <=> Verifies(s, r)
  BY DEF Verifies, RowsOf
<1> QED BY <1>1, <1>2 DEF OnDisk, Usable

\* One log spoiled, or all as they were, is a step of the specification or none.
LEMMA SpoilOrStay ==
  ASSUME NEW t \in Streams, Ledger[t].usable = TRUE,
         \A s \in Streams \ {t} : Ledger'[s] = Ledger[s],
         Ledger'[t] = Ledger[t] \/ Ledger'[t] = [usable |-> FALSE, rows |-> <<>>]
  PROVE  [Log!LNext]_Ledger
<1>1. /\ Ledger = [s \in Streams |-> Ledger[s]]
      /\ Ledger' = [s \in Streams |-> Ledger'[s]]
  BY DEF Ledger
<1>2. CASE Ledger'[t] = Ledger[t]
  <2>1. \A s \in Streams : Ledger'[s] = Ledger[s]
    BY <1>2
  <2>2. Ledger' = Ledger
    BY <1>1, <2>1
  <2> QED BY <2>2
<1>3. CASE Ledger'[t] = [usable |-> FALSE, rows |-> <<>>]
  <2>1. Ledger' = [Ledger EXCEPT ![t] = [usable |-> FALSE, rows |-> <<>>]]
    BY <1>1, <1>3
  <2>2. Log!Spoil(t)
    BY <2>1 DEF Log!Spoil, Log!Usable
  <2> QED BY <2>2 DEF Log!LNext
<1> QED BY <1>2, <1>3

\* A function that differs from another in one place.
LEMMA OnePlace ==
  ASSUME NEW S, NEW R, NEW f \in [S -> R], NEW g \in [S -> R], NEW t \in S,
         \A s \in S \ {t} : g[s] = f[s]
  PROVE  g = [f EXCEPT ![t] = g[t]]
OBVIOUS

\* Ledgers are functions on the streams.
LEMMA LedgerTypes ==
  /\ Ledger \in [Streams -> {Ledger[s] : s \in Streams} \cup {Ledger'[s] : s \in Streams}]
  /\ Ledger' \in [Streams -> {Ledger[s] : s \in Streams} \cup {Ledger'[s] : s \in Streams}]
<1>1. DOMAIN Ledger = Streams /\ DOMAIN Ledger' = Streams
  BY DEF Ledger
<1>2. /\ Ledger = [s \in Streams |-> Ledger[s]]
      /\ Ledger' = [s \in Streams |-> Ledger'[s]]
  BY DEF Ledger
<1> QED BY <1>1, <1>2

\* The row in hand added to the log of its stream is a step of the specification.
LEMMA AppendIsStep ==
  ASSUME Inv, pc = "checkpoint",
         \A s \in Streams \ {Stream} : Ledger'[s] = Ledger[s],
         Ledger'[Stream] = [usable |-> TRUE, rows |-> Append(accumulated, row)]
  PROVE  [Log!LNext]_Ledger
<1>s. Stream \in Streams /\ at <= Len(StreamOrder)
  BY StreamIs DEF Inv, Shape
<1>1. Ledger[Stream] = [usable |-> TRUE, rows |-> accumulated]
  BY <1>s, LedgerIs DEF Working
<1>2. /\ Len(accumulated) < N /\ row.sample = Len(accumulated) + 1
      /\ row \in Row /\ \A i \in DOMAIN accumulated : accumulated[i].run = row.run
  BY DEF Inv, Memory, Ordered, TypeOK
<1>3. Ledger' = [Ledger EXCEPT ![Stream] = Ledger'[Stream]]
  BY <1>s, LedgerTypes, OnePlace
<1>4. Ledger' = [Ledger EXCEPT ![Stream].rows = Append(accumulated, row)]
  <2> DEFINE log == Ledger[Stream]
             rows == Append(accumulated, row)
             A == Seq(Row)
  <2>1. log \in [usable : BOOLEAN, rows : A] /\ rows \in A /\ log.usable = TRUE
    BY <1>1, Appended DEF Inv, TypeOK
  <2>2. Ledger'[Stream] = [usable |-> TRUE, rows |-> rows]
    OBVIOUS
  <2>3. [log EXCEPT !.rows = rows] = Ledger'[Stream]
    <3> HIDE DEF log, rows, A
    <3>1. [log EXCEPT !.rows = rows] = [usable |-> log.usable, rows |-> rows]
      BY <2>1
    <3>2. [usable |-> log.usable, rows |-> rows] = [usable |-> TRUE, rows |-> rows]
      BY <2>1
    <3> QED BY <2>2, <3>1, <3>2, Zenon
  <2> QED BY <1>3, <2>3
<1>5. Ledger[Stream].rows = accumulated /\ Stream \in Log!Usable
  BY <1>1, <1>s DEF Log!Usable
<1>6. \E r \in Row :
        /\ r.sample = Len(Ledger[Stream].rows) + 1
        /\ \A i \in DOMAIN Ledger[Stream].rows : Ledger[Stream].rows[i].run = r.run
        /\ Ledger' = [Ledger EXCEPT ![Stream].rows = Append(Ledger[Stream].rows, r)]
  BY <1>2, <1>4, <1>5
<1>7. Len(Ledger[Stream].rows) < N
  BY <1>2, <1>5
<1>8. Log!Append1(Stream)
  BY <1>5, <1>6, <1>7 DEF Log!Append1
<1> QED BY <1>8, <1>s DEF Log!LNext

\* Steps that touch neither rows nor the rows in memory.
LEMMA StayMaps ==
  ASSUME UNCHANGED <<raw, checkpoint>>, \A s \in Streams : ~Working(s) /\ ~Working(s)'
  PROVE  Ledger' = Ledger
<1>1. \A s \in Streams : Ledger'[s] = Ledger[s]
  BY OnDiskKept, LedgerIs
<1> QED BY <1>1 DEF Ledger

\* The streams other than the one being worked on.
LEMMA OthersStay ==
  ASSUME at' = at, NEW s \in Streams, s # Stream,
         raw'[s] = raw[s], checkpoint'[s] = checkpoint[s]
  PROVE  Ledger'[s] = Ledger[s]
<1>1. ~Working(s) /\ ~Working(s)'
  BY DEF Working, Stream
<1> QED BY <1>1, LedgerIs, OnDiskKept

\* A stream whose rows in memory are those on disk, while they are held, and
\* when the process leaves the stream or dies.
LEMMA HeldMaps ==
  ASSUME Inv, Inv', pc \in {"generate", "raw", "checkpoint"}, at' = at,
         \A s \in Streams \ {Stream} : raw'[s] = raw[s] /\ checkpoint'[s] = checkpoint[s],
         \/ pc' \in {"generate", "raw", "checkpoint"} /\ accumulated' = accumulated
         \/ /\ pc' \notin {"generate", "raw", "checkpoint"}
            /\ Usable(Stream)' => raw'[Stream].rows = accumulated
  PROVE  [Log!LNext]_Ledger
<1>s. Stream \in Streams /\ at <= Len(StreamOrder) /\ Stream' = Stream
  BY StreamIs DEF Inv, Shape, Stream
<1>1. Ledger[Stream] = [usable |-> TRUE, rows |-> accumulated]
  BY <1>s, LedgerIs DEF Working
<1>2. \A s \in Streams \ {Stream} : Ledger'[s] = Ledger[s]
  BY OthersStay
<1>3. Ledger'[Stream] = Ledger[Stream] \/ Ledger'[Stream] = [usable |-> FALSE, rows |-> <<>>]
  <2>1. CASE pc' \in {"generate", "raw", "checkpoint"} /\ accumulated' = accumulated
    <3>1. Working(Stream)'
      BY <1>s, <2>1 DEF Working
    <3> QED BY <1>1, <1>s, <2>1, <3>1, LedgerIs
  <2>2. CASE /\ pc' \notin {"generate", "raw", "checkpoint"}
             /\ Usable(Stream)' => raw'[Stream].rows = accumulated
    <3>1. ~Working(Stream)'
      BY <2>2 DEF Working
    <3>2. Ledger'[Stream] = OnDisk(Stream)'
      BY <1>s, <3>1, LedgerIs
    <3> QED BY <1>1, <1>s, <2>2, <3>2 DEF OnDisk
  <2> QED BY <2>1, <2>2
<1>4. Ledger[Stream].usable = TRUE
  BY <1>1
<1> QED BY <1>2, <1>3, <1>4, <1>s, SpoilOrStay

\* A checkpoint that fits a cut raw file is that of all rows in memory: the
\* rows beyond a cut would be missing.
LEMMA CutIsSpoiled ==
  ASSUME Inv, pc = "raw", NEW left \in Cut(Append(accumulated, row)),
         raw' = [raw EXCEPT ![Stream] = left], checkpoint' = checkpoint, at' = at,
         Usable(Stream)'
  PROVE  left.rows = accumulated
<1>s. Stream \in Streams /\ Stream' = Stream /\ raw'[Stream] = left
  BY StreamIs DEF Inv, Shape, Stream, TypeOK
<1>t. /\ accumulated \in Seq(Row) /\ row \in Row
      /\ Append(accumulated, row) \in Seq(Row)
      /\ Len(Append(accumulated, row)) = Len(accumulated) + 1 /\ Len(accumulated) \in Nat
      /\ DOMAIN accumulated = 1..Len(accumulated)
      /\ \A i \in 1..Len(accumulated) : Append(accumulated, row)[i] = accumulated[i]
  BY Appended DEF Inv, TypeOK
<1>1. left.kind # "absent"
  BY <1>t, CutTypes
<1>2. PICK r \in RunIds : Verifies(Stream, r)'
  BY <1>s, <1>1 DEF Usable, NotStarted
<1>3. /\ left.kind = "whole" /\ checkpoint[Stream].kind = "whole"
      /\ checkpoint[Stream].rows = RowSet(left.rows)
  BY <1>2, <1>s DEF Verifies, RowsOf, RowSet
<1>4. RowSet(left.rows) = RowSet(accumulated)
  BY <1>3 DEF Inv, Memory
<1>5. /\ left.rows \in Seq(Row) /\ Len(left.rows) \in Nat /\ Len(left.rows) <= Len(accumulated)
      /\ DOMAIN left.rows = 1..Len(left.rows)
      /\ \A i \in 1..Len(left.rows) : left.rows[i] = accumulated[i]
  <2>1. /\ left \in RowFile /\ Len(left.rows) \in Nat
        /\ Len(left.rows) < Len(accumulated) + 1
        /\ DOMAIN left.rows = 1..Len(left.rows)
        /\ \A i \in DOMAIN left.rows : left.rows[i] = Append(accumulated, row)[i]
    BY <1>3, <1>t, CutTypes
  <2> QED BY <2>1, <1>t DEF RowFile
<1>6. Len(left.rows) = Len(accumulated)
  <2>1. SUFFICES ASSUME Len(left.rows) < Len(accumulated) PROVE FALSE
    BY <1>5, <1>t
  <2> DEFINE n == Len(accumulated)
  <2>a. n \in DOMAIN accumulated
    BY <1>5, <1>t, <2>1
  <2>b. accumulated[n] \in RowSet(accumulated)
    BY <2>a DEF RowSet
  <2>2. n \in DOMAIN accumulated /\ accumulated[n] \in RowSet(left.rows)
    BY <1>4, <2>a, <2>b
  <2>3. PICK i \in 1..Len(left.rows) : accumulated[n] = accumulated[i]
    BY <1>5, <2>2 DEF RowSet
  <2>4. accumulated[n].sample = n /\ accumulated[i].sample = i
    BY <1>5, <1>t, <2>1, <2>2 DEF Inv, Memory, Ordered
  <2> QED BY <2>1, <2>3, <2>4, <1>5, <1>t
<1> QED BY <1>5, <1>6, <1>t

\* A crash spoils the log of the stream being worked on, or leaves it; or the
\* row in hand is in both files, and so in the log.
LEMMA CrashMaps ==
  ASSUME Inv, Inv', Crash
  PROVE  [Log!LNext]_Ledger
<1>0. /\ pc' = "off" /\ at' = at /\ accumulated' = accumulated /\ row' = row /\ Stream' = Stream
  BY DEF Crash, Stream
<1>1. CASE pc \notin {"generate", "raw", "checkpoint"}
  <2>1. UNCHANGED <<raw, checkpoint>>
    BY <1>1 DEF Crash
  <2>2. \A s \in Streams : ~Working(s) /\ ~Working(s)'
    BY <1>0, <1>1 DEF Working
  <2> QED BY <2>1, <2>2, StayMaps
<1>2. CASE pc \in {"generate", "raw", "checkpoint"}
  <2>s. Stream \in Streams
    BY <1>2, StreamIs DEF Inv, Shape
  <2>1. \A s \in Streams \ {Stream} : raw'[s] = raw[s] /\ checkpoint'[s] = checkpoint[s]
    BY <1>2 DEF Crash, Arms, Inv, TypeOK
  <2>2. CASE Usable(Stream)' => raw'[Stream].rows = accumulated
    BY <1>0, <1>2, <2>1, <2>2, HeldMaps
  <2>3. CASE Usable(Stream)' /\ raw'[Stream].rows # accumulated
    <3>1. pc # "raw"
      <4>1. SUFFICES ASSUME pc = "raw" PROVE FALSE
        OBVIOUS
      <4>2. CASE raw' = raw
        BY <2>3, <4>1, <4>2 DEF Inv, Memory
      <4>3. CASE \E left \in Cut(Append(accumulated, row)) :
                   raw' = [raw EXCEPT ![Stream] = left] /\ checkpoint' = checkpoint
        <5>1. PICK left \in Cut(Append(accumulated, row)) :
                raw' = [raw EXCEPT ![Stream] = left] /\ checkpoint' = checkpoint
          BY <4>3
        <5>2. raw'[Stream].rows = accumulated
          BY <1>0, <2>3, <2>s, <4>1, <5>1, CutIsSpoiled DEF Inv, TypeOK
        <5> QED BY <2>3, <5>2
      <4> QED BY <4>1, <4>2, <4>3 DEF Crash, Arms
    <3>2. raw' = raw
      BY <1>2, <3>1 DEF Crash
    <3>3. pc = "checkpoint" /\ raw'[Stream].rows = Append(accumulated, row)
      BY <1>2, <2>3, <3>1, <3>2 DEF Inv, Memory
    <3>4. Ledger'[Stream] = [usable |-> TRUE, rows |-> Append(accumulated, row)]
      <4>1. ~Working(Stream)'
        BY <1>0 DEF Working
      <4>2. Ledger'[Stream] = OnDisk(Stream)'
        BY <2>s, <4>1, <1>0, LedgerIs
      <4> QED BY <1>0, <2>3, <3>3, <4>2 DEF OnDisk
    <3>5. \A s \in Streams \ {Stream} : Ledger'[s] = Ledger[s]
      BY <1>0, <2>1, OthersStay
    <3> QED BY <3>3, <3>4, <3>5, AppendIsStep
  <2> QED BY <2>2, <2>3
<1> QED BY <1>1, <1>2

\* A stream is taken up as it is on disk.
LEMMA EnterMaps ==
  ASSUME Inv, EnterStream
  PROVE  Ledger' = Ledger
<1>0. /\ pc = "stream" /\ pc' = "generate" /\ at' = at /\ at <= Len(StreamOrder)
      /\ UNCHANGED <<raw, checkpoint>> /\ accumulated' = raw[Stream].rows
      /\ Trusted(Stream, run) /\ run \in RunIds
  BY DEF EnterStream, Inv, TypeOK
<1>1. ASSUME NEW s \in Streams PROVE Ledger'[s] = Ledger[s]
  <2>1. CASE s = Stream
    <3>1. Ledger[s] = OnDisk(s) /\ Usable(s)
      BY <1>0, <2>1, LedgerIs DEF Working, Trusted, Usable
    <3>2. Working(s)'
      BY <1>0, <2>1 DEF Working, Stream
    <3> QED BY <1>0, <2>1, <3>1, <3>2, LedgerIs DEF OnDisk
  <2>2. CASE s # Stream
    BY <1>0, <2>2, OthersStay
  <2> QED BY <2>1, <2>2
<1> QED BY <1>1 DEF Ledger

\* A row whose checkpoint is written is in the log.
LEMMA CheckpointMaps ==
  ASSUME Inv, WriteCheckpoint
  PROVE  [Log!LNext]_Ledger
<1>0. /\ pc = "checkpoint" /\ pc' = "generate" /\ at' = at /\ raw' = raw
      /\ accumulated' = Append(accumulated, row) /\ Stream' = Stream
      /\ \A s \in Streams \ {Stream} : checkpoint'[s] = checkpoint[s]
  BY DEF WriteCheckpoint, Inv, TypeOK, Stream
<1>s. Stream \in Streams /\ at <= Len(StreamOrder)
  BY <1>0, StreamIs DEF Inv, Shape
<1>1. Working(Stream)'
  BY <1>0, <1>s DEF Working
<1>2. Ledger'[Stream] = [usable |-> TRUE, rows |-> Append(accumulated, row)]
  BY <1>0, <1>s, <1>1, LedgerIs
<1>3. \A s \in Streams \ {Stream} : Ledger'[s] = Ledger[s]
  BY <1>0, OthersStay
<1> QED BY <1>0, <1>2, <1>3, AppendIsStep

\* Every step is one of the logs, or none.
LEMMA StepMaps ==
  ASSUME Inv, Inv', [Next]_vars
  PROVE  [Log!LNext]_Ledger
<1>1. CASE LaunchInitial \/ LaunchResume \/ WriteState \/ Refuse \/ SkipStream \/ Exit
           \/ NextStream \/ WriteProvenance
  <2>1. /\ UNCHANGED <<raw, checkpoint>>
        /\ pc \notin {"generate", "raw", "checkpoint"}
        /\ pc' \notin {"generate", "raw", "checkpoint"}
    BY <1>1 DEF LaunchInitial, LaunchResume, WriteState, Refuse, SkipStream, Exit, NextStream,
                WriteProvenance, Arms
  <2>2. \A s \in Streams : ~Working(s) /\ ~Working(s)'
    BY <2>1 DEF Working
  <2> QED BY <2>1, <2>2, StayMaps
<1>2. CASE Generate \/ WriteRaw
  <2>1. /\ pc \in {"generate", "raw"} /\ pc' \in {"raw", "checkpoint"} /\ at' = at
        /\ accumulated' = accumulated
        /\ \A s \in Streams \ {Stream} : raw'[s] = raw[s] /\ checkpoint'[s] = checkpoint[s]
    BY <1>2 DEF Generate, WriteRaw, Inv, TypeOK
  <2> QED BY <2>1, HeldMaps
<1>3. CASE WriteFullCheckpoint
  <2>1. /\ pc = "generate" /\ pc' \notin {"generate", "raw", "checkpoint"} /\ at' = at
        /\ raw' = raw /\ raw[Stream].rows = accumulated
        /\ \A s \in Streams \ {Stream} : checkpoint'[s] = checkpoint[s]
    BY <1>3 DEF WriteFullCheckpoint, Inv, TypeOK, Memory
  <2> QED BY <2>1, HeldMaps
<1>4. CASE UNCHANGED vars
  <2>1. Ledger' = Ledger
    BY <1>4 DEF vars, Ledger, Working, Stream, NotStarted, Verifies, RowsOf
  <2> QED BY <2>1
<1> QED
  BY <1>1, <1>2, <1>3, <1>4, EnterMaps, CheckpointMaps, CrashMaps DEF Next, Work

\* The harness implements StreamLedger: however often it crashes, and in
\* whatever write, a stream is an append-only log or spoiled for good.
THEOREM Implements == Spec => ImplementsLedger
<1>1. Init => Log!LInit
  <2>1. ASSUME Init, NEW s \in Streams PROVE Ledger[s] = [usable |-> TRUE, rows |-> <<>>]
    <3>1. pc = "off" /\ raw[s] = NoRows /\ checkpoint[s] = NoCheckpoint
      BY <2>1 DEF Init
    <3>2. NotStarted(s) /\ raw[s].rows = <<>>
      BY <3>1 DEF NotStarted, NoRows, NoCheckpoint
    <3> QED BY <3>1, <3>2, LedgerIs DEF Working, OnDisk, Usable
  <2> QED BY <2>1 DEF Log!LInit, Ledger
<1>2. Inv /\ Inv' /\ [Next]_vars => [Log!LNext]_Ledger
  BY StepMaps
<1> QED BY <1>1, <1>2, InvAlways, PTL DEF Spec, ImplementsLedger, Log!LSpec

-----------------------------------------------------------------------------
(* What a crash costs.                                                       *)

\* The last call for a sample was lost when its row is not in the file of a
\* stream that can still be resumed and the process is not holding it.
Pending(s, x) ==
  /\ Ledger[s].usable
  /\ x > Len(raw[s].rows)
  /\ ~(pc = "raw" /\ s = Stream /\ x = row.sample)

\* The calls made again, and those that will be made again.
Spent ==
  {c \in Calls :
     /\ 1 <= c.take
     /\ \/ c.take < takes[c.stream][c.sample]
        \/ c.take = takes[c.stream][c.sample] /\ Pending(c.stream, c.sample)}

\* The strengthening of OneCallLostPerCrash: a lost call counts from the crash
\* on, not from the call that replaces it.
SpentInv == Cardinality(Spent) <= crashes

\* There are finitely many streams.
LEMMA StreamsFinite == IsFiniteSet(Streams)
<1> DEFINE n == Len(StreamOrder)
           f == [i \in 1..n |-> StreamOrder[i]]
<1>1. n \in Nat /\ DOMAIN StreamOrder = 1..n
  BY StreamOrderAssumption
<1>2. f \in Surjection(1..n, Streams)
  BY <1>1, Bounds DEF Surjection, Streams
<1>3. IsFiniteSet(1..n)
  BY <1>1, FS_Interval
<1> HIDE DEF f, n
<1> QED BY <1>2, <1>3, FS_Surjection

\* So are the calls that can be made.
LEMMA CallsFinite == IsFiniteSet(Calls)
<1> DEFINE P == (Streams \X Samples) \X Takes
           f == [p \in P |-> [stream |-> p[1][1], sample |-> p[1][2], take |-> p[2]]]
<1>1. IsFiniteSet(Samples) /\ IsFiniteSet(Takes)
  <2>1. IsFiniteSet(1..N) /\ IsFiniteSet(0..(MaxCrashes + 1))
    BY Bounds, FS_Interval
  <2> QED BY <2>1 DEF Samples, Takes
<1>2. IsFiniteSet(Streams \X Samples)
  BY <1>1, StreamsFinite, FS_Product
<1>3. IsFiniteSet(P)
  BY <1>1, <1>2, FS_Product
<1>4. f \in Surjection(P, Calls)
  <2>1. f \in [P -> Calls]
    BY DEF Calls
  <2>2. ASSUME NEW c \in Calls PROVE \E p \in P : f[p] = c
    <3>1. <<<<c.stream, c.sample>>, c.take>> \in P
      BY DEF Calls
    <3>2. f[<<<<c.stream, c.sample>>, c.take>>] = c
      BY <3>1 DEF Calls
    <3> QED BY <3>1, <3>2
  <2> HIDE DEF f, P
  <2> QED BY <2>1, <2>2 DEF Surjection
<1> HIDE DEF f, P
<1> QED BY <1>3, <1>4, FS_Surjection

\* Sets of calls are finite; fewer calls count less, one more counts one more.
LEMMA SpentFinite ==
  /\ IsFiniteSet(Spent) /\ Cardinality(Spent) \in Nat
  /\ IsFiniteSet(Spent') /\ Cardinality(Spent') \in Nat
<1>1. Spent \in SUBSET Calls /\ Spent' \in SUBSET Calls
  BY DEF Spent, Calls, Streams, Samples, Takes
<1> QED BY <1>1, CallsFinite, FS_Subset, FS_CardinalityType

\* A log that cannot be used is never used again.
LEMMA SpoiledForGood ==
  ASSUME Inv, Inv', [Next]_vars, NEW s \in Streams, Ledger'[s].usable
  PROVE  Ledger[s].usable
<1>1. CASE Ledger' = Ledger
  BY <1>1
<1>2. CASE Log!LNext
  <2>1. PICK t \in Streams : Log!Append1(t) \/ Log!Spoil(t)
    BY <1>2 DEF Log!LNext
  <2>2. Ledger[t].usable
    BY <2>1 DEF Log!Append1, Log!Spoil, Log!Usable
  <2>3. s # t => Ledger'[s] = Ledger[s]
    <3>1. DOMAIN Ledger = Streams
      BY DEF Ledger
    <3> QED BY <2>1, <3>1 DEF Log!Append1, Log!Spoil
  <2> QED BY <2>2, <2>3
<1> QED BY <1>1, <1>2, StepMaps

\* When no call is made, a call gets lost only by what happens to the files.
LEMMA SpentKept ==
  ASSUME takes' = takes, NEW E,
         \A s \in Streams, x \in Samples :
           Pending(s, x)' => \/ Pending(s, x)
                             \/ [stream |-> s, sample |-> x, take |-> takes[s][x]] \in E
  PROVE  Spent' \subseteq Spent \cup E
<1> SUFFICES ASSUME NEW c \in Spent' PROVE c \in Spent \cup E
  OBVIOUS
<1>1. /\ c \in Calls /\ 1 <= c.take
      /\ \/ c.take < takes[c.stream][c.sample]
         \/ c.take = takes[c.stream][c.sample] /\ Pending(c.stream, c.sample)'
  BY DEF Spent, Calls, Streams, Samples, Takes
<1>2. /\ c.stream \in Streams /\ c.sample \in Samples
      /\ c = [stream |-> c.stream, sample |-> c.sample, take |-> c.take]
  BY <1>1 DEF Calls
<1>3. CASE c.take < takes[c.stream][c.sample]
  BY <1>1, <1>3 DEF Spent
<1>4. CASE c.take = takes[c.stream][c.sample] /\ Pending(c.stream, c.sample)'
  BY <1>1, <1>2, <1>4 DEF Spent
<1> QED BY <1>1, <1>3, <1>4

\* A call for a sample whose last call was lost makes no more calls lost: the
\* new one is held, the old one counted already.
LEMMA GenerateSpent ==
  ASSUME Inv, Inv', Generate
  PROVE  Spent' \subseteq Spent
<1>0. /\ UNCHANGED <<raw, checkpoint, state, provenance, run, at, accumulated, crashes>>
      /\ pc = "generate" /\ pc' = "raw" /\ Len(accumulated) < N /\ Stream' = Stream
  BY DEF Generate, Stream
<1>s. Stream \in Streams /\ at <= Len(StreamOrder)
  BY <1>0, StreamIs DEF Inv, Shape
<1>1. PICK x \in Samples :
        /\ NextRequest(x)
        /\ takes' = [takes EXCEPT ![Stream][x] = @ + 1]
        /\ row' = NewRow(x)
  BY DEF Generate
<1>2. raw[Stream].rows = accumulated /\ x = Len(accumulated) + 1 /\ Len(accumulated) \in Nat
  BY <1>0, <1>1, NextIsFirst DEF Inv, TypeOK, Memory
<1>3. row'.sample = x
  BY <1>1 DEF NewRow
<1>4. /\ takes'[Stream][x] = takes[Stream][x] + 1 /\ takes[Stream][x] \in Nat
      /\ \A s \in Streams, y \in Samples : s # Stream \/ y # x => takes'[s][y] = takes[s][y]
  <2>1. takes \in [Streams -> [Samples -> Takes]] /\ Takes \subseteq Nat
    BY Bounds DEF Inv, TypeOK, Takes
  <2> QED BY <1>1, <1>s, <2>1
<1>5. Pending(Stream, x)
  <2>1. Ledger[Stream].usable
    BY <1>0, <1>s, LedgerIs DEF Working
  <2> QED BY <1>0, <1>2, <2>1 DEF Pending
<1>6. \A s \in Streams : Ledger'[s].usable => Ledger[s].usable
  BY SpoiledForGood DEF Next, Work
<1> SUFFICES ASSUME NEW c \in Spent' PROVE c \in Spent
  OBVIOUS
<1>7. /\ c \in Calls /\ 1 <= c.take /\ c.take \in Nat
      /\ c.stream \in Streams /\ c.sample \in Samples
      /\ \/ c.take < takes'[c.stream][c.sample]
         \/ c.take = takes'[c.stream][c.sample] /\ Pending(c.stream, c.sample)'
  <2>1. c \in Calls /\ 1 <= c.take /\ (\/ c.take < takes'[c.stream][c.sample]
                                       \/ c.take = takes'[c.stream][c.sample] /\ Pending(c.stream, c.sample)')
    BY DEF Spent, Calls, Streams, Samples, Takes
  <2>2. c.take \in Nat /\ c.stream \in Streams /\ c.sample \in Samples
    BY <2>1, Bounds DEF Calls, Takes
  <2> QED BY <2>1, <2>2
<1>8. CASE c.stream = Stream /\ c.sample = x
  <2>1. ~Pending(c.stream, c.sample)'
    BY <1>0, <1>3, <1>8 DEF Pending
  <2>2. c.take <= takes[Stream][x]
    BY <1>4, <1>7, <1>8, <2>1
  <2>3. c.take < takes[Stream][x] \/ c.take = takes[Stream][x]
    BY <1>4, <1>7, <2>2
  <2> QED BY <1>5, <1>7, <1>8, <2>3 DEF Spent
<1>9. CASE c.stream # Stream \/ c.sample # x
  <2>1. takes'[c.stream][c.sample] = takes[c.stream][c.sample]
    BY <1>4, <1>7, <1>9
  <2>2. Pending(c.stream, c.sample)' => Pending(c.stream, c.sample)
    BY <1>0, <1>6, <1>7 DEF Pending
  <2> QED BY <1>7, <2>1, <2>2 DEF Spent
<1> QED BY <1>8, <1>9

\* The other steps of a living process lose no call: the row that was held is
\* in the file afterwards.
LEMMA WorkSpent ==
  ASSUME Inv, Inv', LaunchInitial \/ LaunchResume \/ Work, ~Generate
  PROVE  Spent' \subseteq Spent
<1>1. takes' = takes
  BY DEF LaunchInitial, LaunchResume, Work, Refuse, WriteState, SkipStream, EnterStream, Exit,
         WriteRaw, WriteCheckpoint, WriteFullCheckpoint, WriteProvenance, NextStream
<1>2. \A s \in Streams : Ledger'[s].usable => Ledger[s].usable
  BY SpoiledForGood DEF Next, Work
<1>3. \/ pc # "raw" /\ raw' = raw
      \/ WriteRaw
  BY DEF LaunchInitial, LaunchResume, Work, Refuse, WriteState, SkipStream, EnterStream, Exit,
         WriteCheckpoint, WriteFullCheckpoint, WriteProvenance, NextStream, Arms
<1>4. ASSUME NEW s \in Streams, NEW x \in Samples, Pending(s, x)'
      PROVE  Pending(s, x)
  <2>1. CASE pc # "raw" /\ raw' = raw
    BY <1>2, <1>4, <2>1 DEF Pending
  <2>2. CASE WriteRaw
    <3>1. /\ pc = "raw" /\ accumulated \in Seq(Row) /\ row \in Row
          /\ row.sample = Len(accumulated) + 1 /\ raw[Stream].rows = accumulated
          /\ raw \in [Streams -> RowFile] /\ Stream \in Streams
          /\ raw' = [raw EXCEPT ![Stream] = [kind |-> "whole", rows |-> Append(accumulated, row)]]
      BY <2>2, StreamIs DEF WriteRaw, Inv, TypeOK, Shape, Memory
    <3>2. CASE s = Stream
      <4>1. raw'[s].rows = Append(accumulated, row)
        BY <3>1, <3>2
      <4>2. x > Len(accumulated) + 1 /\ x \in Int /\ Len(accumulated) \in Nat
        BY <1>4, <3>1, <4>1, Appended DEF Pending, Samples
      <4> QED BY <1>2, <1>4, <3>1, <3>2, <4>2 DEF Pending
    <3>3. CASE s # Stream
      <4>1. raw'[s] = raw[s]
        BY <3>1, <3>3
      <4> QED BY <1>2, <1>4, <3>3, <4>1 DEF Pending
    <3> QED BY <3>2, <3>3
  <2> QED BY <1>3, <2>1, <2>2
<1> HIDE DEF Work
<1>5. Spent' \subseteq Spent \cup {}
  BY <1>1, <1>4, SpentKept
<1> QED BY <1>5

\* A crash loses at most the call whose row the process holds.
LEMMA CrashSpent ==
  ASSUME Inv, Inv', Crash
  PROVE  \E c : Spent' \subseteq Spent \cup {c}
<1>0. /\ takes' = takes /\ pc' = "off" /\ at' = at /\ accumulated' = accumulated /\ Stream' = Stream
  BY DEF Crash, Stream
<1>1. \A s \in Streams : Ledger'[s].usable => Ledger[s].usable
  BY SpoiledForGood DEF Next
<1> DEFINE held == [stream |-> Stream, sample |-> row.sample, take |-> takes[Stream][row.sample]]
<1>2. ASSUME NEW s \in Streams, NEW x \in Samples, Pending(s, x)'
      PROVE  \/ Pending(s, x)
             \/ [stream |-> s, sample |-> x, take |-> takes[s][x]] \in {held}
  <2>1. CASE pc = "raw" /\ s = Stream /\ x = row.sample
    BY <2>1
  <2>2. CASE ~(pc = "raw" /\ s = Stream /\ x = row.sample)
    <3>1. Len(raw'[s].rows) = Len(raw[s].rows)
      <4>1. CASE raw'[s] = raw[s]
        BY <4>1
      <4>2. CASE raw'[s] # raw[s]
        <5>1. /\ pc = "raw" /\ s = Stream /\ checkpoint' = checkpoint
              /\ \E left \in Cut(Append(accumulated, row)) : raw' = [raw EXCEPT ![Stream] = left]
          BY <4>2 DEF Crash, Inv, TypeOK
        <5>2. PICK left \in Cut(Append(accumulated, row)) : raw' = [raw EXCEPT ![Stream] = left]
          BY <5>1
        <5>3. Usable(Stream)'
          <6>1. ~Working(s)'
            BY <1>0 DEF Working
          <6>2. Ledger'[s] = OnDisk(s)' /\ Ledger'[s].usable
            BY <1>2, <6>1, LedgerIs DEF Pending
          <6> QED BY <1>0, <5>1, <6>2 DEF OnDisk
        <5>4. left.rows = accumulated
          BY <1>0, <5>1, <5>2, <5>3, CutIsSpoiled
        <5>5. raw'[s].rows = accumulated /\ raw[s].rows = accumulated
          BY <5>1, <5>2, <5>4 DEF Inv, TypeOK, Memory
        <5> QED BY <5>5
      <4> QED BY <4>1, <4>2
    <3> QED BY <1>1, <1>2, <2>2, <3>1 DEF Pending
  <2> QED BY <2>1, <2>2
<1> HIDE DEF held
<1>3. Spent' \subseteq Spent \cup {held}
  BY <1>0, <1>2, SpentKept
<1> QED BY <1>3

\* However the run is crashed and resumed, at most one call of the model is
\* lost per crash, for any number of streams and samples.
THEOREM CrashCostsOneCall == Spec => []OneCallLostPerCrash
<1>1. Init => SpentInv
  <2> SUFFICES ASSUME Init PROVE SpentInv
    OBVIOUS
  <2>1. \A s \in Streams, x \in Samples : takes[s][x] = 0
    BY DEF Init
  <2>2. Spent = {}
    <3>1. \A c \in Calls : c.stream \in Streams /\ c.sample \in Samples /\ c.take \in Nat
      BY Bounds DEF Calls, Takes
    <3>2. \A c \in Calls : ~(1 <= c.take /\ c.take <= takes[c.stream][c.sample])
      BY <2>1, <3>1
    <3>3. \A c \in Calls : 1 <= c.take /\ c.take < takes[c.stream][c.sample] => FALSE
      BY <2>1, <3>1
    <3>4. \A c \in Calls : 1 <= c.take /\ c.take = takes[c.stream][c.sample] => FALSE
      BY <2>1, <3>1
    <3> QED BY <3>3, <3>4 DEF Spent
  <2>3. crashes = 0
    BY DEF Init
  <2> QED BY <2>2, <2>3, FS_EmptySet DEF SpentInv
<1>2. Inv /\ Inv' /\ SpentInv /\ [Next]_vars => SpentInv'
  <2> SUFFICES ASSUME Inv, Inv', SpentInv, [Next]_vars PROVE SpentInv'
    OBVIOUS
  <2>0. crashes \in Nat
    BY Bounds DEF Inv, TypeOK
  <2>1. ASSUME Spent' \subseteq Spent, crashes' = crashes PROVE SpentInv'
    <3>1. Cardinality(Spent') <= Cardinality(Spent)
      BY <2>1, SpentFinite, FS_Subset
    <3> QED BY <2>0, <2>1, <3>1, SpentFinite DEF SpentInv
  <2>2. CASE Generate
    BY <2>1, <2>2, GenerateSpent DEF Generate
  <2>3. CASE (LaunchInitial \/ LaunchResume \/ Work) /\ ~Generate
    <3>1. crashes' = crashes
      BY <2>3 DEF LaunchInitial, LaunchResume, Work, Refuse, WriteState, SkipStream, EnterStream,
                  Exit, WriteRaw, WriteCheckpoint, WriteFullCheckpoint, WriteProvenance, NextStream
    <3>2. Spent' \subseteq Spent
      BY <2>3, WorkSpent
    <3> QED BY <2>1, <3>1, <3>2
  <2>4. CASE Crash
    <3>1. PICK c : Spent' \subseteq Spent \cup {c}
      BY <2>4, CrashSpent
    <3>2. IsFiniteSet(Spent \cup {c}) /\ Cardinality(Spent \cup {c}) <= Cardinality(Spent) + 1
      BY SpentFinite, FS_AddElement
    <3>3. Cardinality(Spent') <= Cardinality(Spent \cup {c})
      BY <3>1, <3>2, FS_Subset
    <3>4. crashes' = crashes + 1
      BY <2>4 DEF Crash
    <3>5. Cardinality(Spent \cup {c}) \in Nat
      BY <3>2, FS_CardinalityType
    <3> QED BY <2>0, <3>2, <3>3, <3>4, <3>5, SpentFinite DEF SpentInv
  <2>5. CASE UNCHANGED vars
    <3>1. Spent' = Spent /\ crashes' = crashes
      BY <2>5 DEF vars, Spent, Pending, Ledger, Working, Stream, NotStarted, Verifies, RowsOf
    <3> QED BY <2>1, <3>1
  <2> QED
    BY <2>2, <2>3, <2>4, <2>5 DEF Next, Work
<1>3. Inv /\ SpentInv => OneCallLostPerCrash
  <2> SUFFICES ASSUME Inv, SpentInv PROVE OneCallLostPerCrash
    OBVIOUS
  <2>1. LostCalls \subseteq Spent
    BY DEF LostCalls, Spent
  <2>2. IsFiniteSet(LostCalls) /\ Cardinality(LostCalls) <= Cardinality(Spent)
    BY <2>1, SpentFinite, FS_Subset
  <2>3. Cardinality(LostCalls) \in Nat /\ crashes \in Nat
    BY <2>2, FS_CardinalityType, Bounds DEF Inv, TypeOK
  <2> QED BY <2>2, <2>3, SpentFinite DEF SpentInv, OneCallLostPerCrash
<1> QED BY <1>1, <1>2, <1>3, InvAlways, PTL DEF Spec

-----------------------------------------------------------------------------
\* The rows a log has are those it had, in their places.
Extends(old, new) ==
  /\ DOMAIN old.rows \subseteq DOMAIN new.rows
  /\ \A i \in DOMAIN old.rows : new.rows[i] = old.rows[i]

RowsKept ==
  \A s \in Streams :
    Ledger'[s].usable => Ledger[s].usable /\ Extends(Ledger[s], Ledger'[s])

\* "completed_rows_are_immutable", said of every step: as long as a stream can
\* be resumed at all, no step, crash or relaunch changes, moves or drops a row
\* that counts as completed.
THEOREM RowsImmutable == Spec => [][RowsKept]_vars
<1>1. Inv /\ Inv' /\ [Next]_vars => RowsKept
  <2> SUFFICES ASSUME Inv, Inv', [Next]_vars, NEW s \in Streams, Ledger'[s].usable
               PROVE  Ledger[s].usable /\ Extends(Ledger[s], Ledger'[s])
    BY DEF RowsKept
  <2>1. Ledger[s].usable
    BY SpoiledForGood
  <2>2. CASE Ledger'[s] = Ledger[s]
    BY <2>2 DEF Extends
  <2>3. CASE Log!LNext
    <3>1. PICK t \in Streams : Log!Append1(t) \/ Log!Spoil(t)
      BY <2>3 DEF Log!LNext
    <3>2. DOMAIN Ledger = Streams
      BY DEF Ledger
    <3>3. CASE s # t
      <4>1. Ledger'[s] = Ledger[s]
        BY <3>1, <3>2, <3>3 DEF Log!Append1, Log!Spoil
      <4> QED BY <4>1, <2>2
    <3>4. CASE s = t /\ Log!Append1(t)
      <4>1. PICK r \in Row :
              Ledger' = [Ledger EXCEPT ![t].rows = Append(Ledger[t].rows, r)]
        BY <3>4 DEF Log!Append1
      <4>2. Ledger'[s].rows = Append(Ledger[s].rows, r)
        BY <3>2, <3>4, <4>1 DEF Ledger
      <4>3. Ledger[s].rows \in Seq(Row)
        BY DEF Ledger, Inv, TypeOK, RowFile
      <4> DEFINE rows == Ledger[s].rows
      <4>4. /\ DOMAIN rows \subseteq DOMAIN Append(rows, r)
            /\ \A i \in DOMAIN rows : Append(rows, r)[i] = rows[i]
        <5> HIDE DEF rows
        <5> QED BY <4>3, Appended DEF rows
      <4> QED BY <2>1, <4>2, <4>4 DEF Extends
    <3>5. CASE s = t /\ Log!Spoil(t)
      <4>1. Ledger'[s].usable = FALSE
        BY <3>2, <3>5 DEF Log!Spoil
      <4> QED BY <4>1
    <3> QED BY <3>1, <3>3, <3>4, <3>5
  <2>4. [Log!LNext]_Ledger
    BY StepMaps
  <2> QED BY <2>1, <2>2, <2>3, <2>4
<1> QED BY <1>1, InvAlways, PTL DEF Spec

-----------------------------------------------------------------------------
(* What there is of termination without fairness: every step of a process    *)
(* brings its end closer.                                                    *)

\* What is left of the stream at hand, the row at hand included.
RowsLeft == N - Len(accumulated)
StreamLeft ==
  CASE pc = "off"        -> 0
    [] pc = "next"       -> 1
    [] pc = "d_f_g1"     -> 2
    [] pc = "d_g1"       -> 3
    [] pc = "checkpoint" -> 3 * RowsLeft + 2
    [] pc = "raw"        -> 3 * RowsLeft + 3
    [] pc = "generate"   -> 3 * RowsLeft + 4
    [] pc = "stream"     -> 3 * N + 7
    [] pc = "state"      -> 3 * N + 8

\* As many streams are to come, each at most that long.
StreamsLeft == IF pc = "off" THEN 0 ELSE Len(StreamOrder) + 1 - at
Width == 3 * N + 8
Left == StreamsLeft * Width + StreamLeft
LessLeft == Left \in Nat /\ Left' \in Nat /\ Left' < Left

\* The three are numbers, and a process has something left.
Counted ==
  /\ RowsLeft \in Nat /\ StreamLeft \in Nat /\ StreamsLeft \in Nat
  /\ pc # "off" => StreamLeft > 0

LEMMA LeftTypes == TypeOK => Counted
<1> SUFFICES ASSUME TypeOK
             PROVE  /\ RowsLeft \in Nat /\ StreamLeft \in Nat /\ StreamsLeft \in Nat
                    /\ pc # "off" => StreamLeft > 0
  BY DEF Counted
<1>1. N \in Nat /\ Len(StreamOrder) \in Nat
  BY Bounds
<1>2. RowsLeft \in Nat
  <2>1. accumulated \in Seq(Row) /\ Len(accumulated) <= N
    BY DEF TypeOK
  <2>2. Len(accumulated) \in Nat
    BY <2>1
  <2> QED BY <1>1, <2>1, <2>2 DEF RowsLeft
<1>3. StreamsLeft \in Nat
  <2>1. at \in 1..(Len(StreamOrder) + 1)
    BY DEF TypeOK
  <2> QED BY <1>1, <2>1 DEF StreamsLeft
<1>4. pc \in {"off", "state", "stream", "generate", "raw", "checkpoint", "next", "d_g1",
              "d_f_g1"}
  BY DEF TypeOK, Arms
<1>5. /\ 3 * N + 7 \in Nat \ {0} /\ 3 * N + 8 \in Nat \ {0}
      /\ 3 * RowsLeft + 2 \in Nat \ {0} /\ 3 * RowsLeft + 3 \in Nat \ {0}
      /\ 3 * RowsLeft + 4 \in Nat \ {0}
  BY <1>1, <1>2
<1>6. /\ StreamLeft \in {0, 1, 2, 3, 3 * N + 7, 3 * N + 8, 3 * RowsLeft + 2,
                         3 * RowsLeft + 3, 3 * RowsLeft + 4}
      /\ pc # "off" => StreamLeft \in {1, 2, 3, 3 * N + 7, 3 * N + 8, 3 * RowsLeft + 2,
                                       3 * RowsLeft + 3, 3 * RowsLeft + 4}
  <2> HIDE DEF RowsLeft
  <2> QED BY <1>4 DEF StreamLeft
<1> HIDE DEF RowsLeft, StreamLeft, StreamsLeft
<1>7. \A k \in {0, 1, 2, 3, 3 * N + 7, 3 * N + 8, 3 * RowsLeft + 2,
                3 * RowsLeft + 3, 3 * RowsLeft + 4} : k \in Nat /\ (k # 0 => k > 0)
  BY <1>5
<1>8. \A k \in {1, 2, 3, 3 * N + 7, 3 * N + 8, 3 * RowsLeft + 2,
                3 * RowsLeft + 3, 3 * RowsLeft + 4} : k # 0
  BY <1>5
<1> QED BY <1>2, <1>3, <1>6, <1>7, <1>8

\* One stream less, or less of the stream.
LEMMA Fewer ==
  /\ \A k, a, b \in Nat :
       /\ k * Width + a \in Nat
       /\ b < a => k * Width + b < k * Width + a
  /\ \A k, a, b \in Nat :
       k > 0 /\ b < Width + a => (k - 1) * Width + b < k * Width + a
  /\ \A k, a \in Nat : a > 0 => 0 * Width + 0 < k * Width + a
<1>1. Width \in Nat
  BY Bounds DEF Width
<1>2. \A k \in Nat : k * Width \in Nat
  BY <1>1
<1>3. \A k \in Nat : k > 0 => k - 1 \in Nat /\ k * Width = (k - 1) * Width + Width
  BY <1>1
<1>4. ASSUME NEW k \in Nat, NEW a \in Nat, NEW b \in Nat
      PROVE  /\ k * Width + a \in Nat
             /\ b < a => k * Width + b < k * Width + a
             /\ k > 0 /\ b < Width + a => (k - 1) * Width + b < k * Width + a
             /\ a > 0 => 0 * Width + 0 < k * Width + a
  <2> DEFINE x == k * Width
             y == (k - 1) * Width
  <2>1. x \in Nat
    BY <1>2
  <2>2. k > 0 => y \in Nat /\ x = y + Width
    BY <1>2, <1>3
  <2>3. 0 * Width = 0
    BY <1>1
  <2> HIDE DEF x, y
  <2>4. /\ x + a \in Nat
        /\ b < a => x + b < x + a
        /\ k > 0 /\ b < Width + a => y + b < x + a
        /\ a > 0 => 0 < x + a
    BY <1>1, <2>1, <2>2
  <2> QED BY <2>3, <2>4 DEF x, y
<1> QED BY <1>4

\* Every step a process makes leaves it less to do, over all streams: a process
\* that is let go on fills the streams, or refuses, and exits.  Only crashes and
\* the operator's relaunches are without such a measure.
THEOREM EveryStepCounts == Spec => [][Work => LessLeft]_vars
<1>1. Inv /\ TypeOK' /\ Counted /\ Counted' /\ [Next]_vars => [Work => LessLeft]_vars
  <2> SUFFICES ASSUME Inv, TypeOK', Counted, Counted', Work
               PROVE  LessLeft
    OBVIOUS
  <2>1. /\ RowsLeft \in Nat /\ StreamLeft \in Nat /\ StreamsLeft \in Nat
        /\ RowsLeft' \in Nat /\ StreamLeft' \in Nat /\ StreamsLeft' \in Nat
        /\ pc # "off" => StreamLeft > 0
    BY DEF Counted
  <2>t. N \in Nat /\ Len(StreamOrder) \in Nat /\ at \in 1..(Len(StreamOrder) + 1)
    BY Bounds DEF Inv, TypeOK
  <2>2. /\ Left = StreamsLeft * Width + StreamLeft
        /\ Left' = StreamsLeft' * Width + StreamLeft'
    BY DEF Left, Width
  <2>3. (StreamsLeft' = StreamsLeft /\ StreamLeft' < StreamLeft) => LessLeft
    <3> HIDE DEF StreamsLeft, StreamLeft, Width
    <3> QED BY <2>1, <2>2, Fewer DEF LessLeft
  <2>4. (/\ StreamsLeft > 0 /\ StreamsLeft' = StreamsLeft - 1
         /\ StreamLeft' < Width + StreamLeft) => LessLeft
    <3> HIDE DEF StreamsLeft, StreamLeft, Width
    <3> QED BY <2>1, <2>2, Fewer DEF LessLeft
  <2>5. (pc # "off" /\ pc' = "off") => LessLeft
    <3> SUFFICES ASSUME pc # "off", pc' = "off" PROVE LessLeft
      OBVIOUS
    <3>1. StreamsLeft' = 0 /\ StreamLeft' = 0 /\ StreamLeft > 0
      BY <2>1 DEF StreamsLeft, StreamLeft
    <3> HIDE DEF StreamsLeft, StreamLeft, Width
    <3> QED BY <2>1, <2>2, <3>1, Fewer DEF LessLeft
  <2>6. CASE Refuse \/ Exit
    BY <2>5, <2>6 DEF Refuse, Exit
  <2>7. CASE WriteState
    <3>1. pc = "state" /\ pc' = "stream" /\ at' = at
      BY <2>7 DEF WriteState
    <3>2. StreamLeft = 3 * N + 8 /\ StreamLeft' = 3 * N + 7 /\ StreamsLeft' = StreamsLeft
      BY <3>1 DEF StreamLeft, StreamsLeft
    <3> QED BY <2>t, <2>3, <3>2
  <2>8. CASE SkipStream
    <3>1. pc = "stream" /\ pc' = "stream" /\ at' = at + 1 /\ at <= Len(StreamOrder)
      BY <2>8 DEF SkipStream
    <3>2. StreamLeft = 3 * N + 7 /\ StreamLeft' = 3 * N + 7
      BY <3>1 DEF StreamLeft
    <3>3. StreamsLeft > 0 /\ StreamsLeft' = StreamsLeft - 1
      BY <2>t, <3>1 DEF StreamsLeft
    <3> QED BY <2>t, <2>4, <3>2, <3>3 DEF Width
  <2>9. CASE EnterStream
    <3>1. pc = "stream" /\ pc' = "generate" /\ at' = at
      BY <2>9 DEF EnterStream
    <3>2. StreamLeft = 3 * N + 7 /\ StreamLeft' = 3 * RowsLeft' + 4 /\ StreamsLeft' = StreamsLeft
      BY <3>1 DEF StreamLeft, StreamsLeft
    <3>3. RowsLeft' <= N
      <4>1. accumulated' \in Seq(Row)
        BY DEF TypeOK
      <4>2. Len(accumulated') \in Nat
        BY <4>1
      <4> QED BY <2>t, <4>2 DEF RowsLeft
    <3>4. 3 * RowsLeft' + 4 < 3 * N + 7
      <4> DEFINE k == RowsLeft'
      <4>1. k \in Nat /\ k <= N
        BY <2>1, <3>3
      <4> HIDE DEF k
      <4>2. 3 * k + 4 < 3 * N + 7
        BY <2>t, <4>1
      <4> QED BY <4>2 DEF k
    <3> QED BY <2>3, <3>2, <3>4
  <2>10. CASE Generate \/ WriteRaw
    <3>1. /\ \/ pc = "generate" /\ pc' = "raw"
             \/ pc = "raw" /\ pc' = "checkpoint"
          /\ at' = at /\ accumulated' = accumulated
      BY <2>10 DEF Generate, WriteRaw
    <3>2. RowsLeft' = RowsLeft /\ StreamsLeft' = StreamsLeft
      BY <3>1 DEF RowsLeft, StreamsLeft
    <3>3. StreamLeft' < StreamLeft
      <4> HIDE DEF RowsLeft
      <4>1. CASE pc = "generate" /\ pc' = "raw"
        <5>1. StreamLeft = 3 * RowsLeft + 4 /\ StreamLeft' = 3 * RowsLeft' + 3
          BY <4>1 DEF StreamLeft
        <5> QED BY <2>1, <3>2, <5>1
      <4>2. CASE pc = "raw" /\ pc' = "checkpoint"
        <5>1. StreamLeft = 3 * RowsLeft + 3 /\ StreamLeft' = 3 * RowsLeft' + 2
          BY <4>2 DEF StreamLeft
        <5> QED BY <2>1, <3>2, <5>1
      <4> QED BY <3>1, <4>1, <4>2
    <3> QED BY <2>3, <3>2, <3>3
  <2>11. CASE WriteCheckpoint
    <3>1. pc = "checkpoint" /\ pc' = "generate" /\ at' = at /\ accumulated' = Append(accumulated, row)
      BY <2>11 DEF WriteCheckpoint
    <3>2. RowsLeft' = RowsLeft - 1
      <4>1. accumulated \in Seq(Row) /\ row \in Row
        BY DEF Inv, TypeOK
      <4>2. Len(accumulated') = Len(accumulated) + 1 /\ Len(accumulated) \in Nat
        BY <3>1, <4>1, Appended
      <4> QED BY <2>t, <4>2 DEF RowsLeft
    <3>3. StreamLeft = 3 * RowsLeft + 2 /\ StreamLeft' = 3 * RowsLeft' + 4 /\ StreamsLeft' = StreamsLeft
      BY <3>1 DEF StreamLeft, StreamsLeft
    <3> HIDE DEF RowsLeft
    <3> QED BY <2>1, <2>3, <3>2, <3>3
  <2>12. CASE WriteFullCheckpoint
    <3>1. pc = "generate" /\ pc' \in {"d_g1", "next"} /\ at' = at
      BY <2>12 DEF WriteFullCheckpoint
    <3>2. StreamLeft = 3 * RowsLeft + 4 /\ StreamLeft' \in {1, 3} /\ StreamsLeft' = StreamsLeft
      BY <3>1 DEF StreamLeft, StreamsLeft
    <3> HIDE DEF RowsLeft
    <3> QED BY <2>1, <2>3, <3>2
  <2>13. CASE WriteProvenance
    <3>1. /\ \/ pc = "d_g1" /\ pc' = "d_f_g1"
             \/ pc = "d_f_g1" /\ pc' = "next"
          /\ at' = at
      BY <2>13 DEF WriteProvenance, Arms
    <3>2. StreamsLeft' = StreamsLeft
      BY <3>1 DEF StreamsLeft
    <3>3. StreamLeft' < StreamLeft
      <4>1. CASE pc = "d_g1" /\ pc' = "d_f_g1"
        <5>1. StreamLeft = 3 /\ StreamLeft' = 2
          BY <4>1 DEF StreamLeft
        <5> QED BY <5>1
      <4>2. CASE pc = "d_f_g1" /\ pc' = "next"
        <5>1. StreamLeft = 2 /\ StreamLeft' = 1
          BY <4>2 DEF StreamLeft
        <5> QED BY <5>1
      <4> QED BY <3>1, <4>1, <4>2
    <3> QED BY <2>3, <3>2, <3>3
  <2>14. CASE NextStream
    <3>1. pc = "next" /\ pc' = "state" /\ at' = at + 1 /\ at <= Len(StreamOrder)
      BY <2>14 DEF NextStream, Inv, Shape
    <3>2. StreamLeft = 1 /\ StreamLeft' = 3 * N + 8
      BY <3>1 DEF StreamLeft
    <3>3. StreamsLeft > 0 /\ StreamsLeft' = StreamsLeft - 1
      BY <2>t, <3>1 DEF StreamsLeft
    <3> QED BY <2>t, <2>4, <3>2, <3>3 DEF Width
  <2> QED
    BY <2>6, <2>7, <2>8, <2>9, <2>10, <2>11, <2>12, <2>13, <2>14 DEF Work
<1> QED BY <1>1, LeftTypes, InvAlways, TypeCorrect, PTL DEF Spec
===============================================================================
