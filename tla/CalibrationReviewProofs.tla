---------------------- MODULE CalibrationReviewProofs ----------------------
(***************************************************************************)
(* For every set of people and samples: the types; an approval in a sample *)
(* file is in the ledger; a frozen sample was approved by two people as it *)
(* is frozen; the files of a freeze stay as they are.                      *)
(***************************************************************************)
EXTENDS CalibrationReview, FiniteSetTheorems, TLAPS

\* The bounds, as numbers.
LEMMA BoundsNat == MaxCommands \in Nat /\ MaxAssigns \in Nat /\ MaxCrashes \in Nat
BY BoundsAssumption

\* The hash of a sample is a hash.
LEMMA HashType == \A sample \in Sample : Hash(sample) \in Hashes
BY DEF Hash, Hashes, Sample

\* The slots nobody filled are slots.
LEMMA SlotTypes == NoSlot \in Slot /\ Pending \in Slot
BY ContentsAssumption DEF NoSlot, Pending, Slot, Hashes

\* What the absent samples and the locals of no command hold is of the right type.
LEMMA BlankTypes ==
  /\ Blank \in Sample
  /\ NoDataset \in Datasets
  /\ Idle \in Command
  /\ Resting \in Coordinator
<1>1. Blank \in Sample
  BY SlotTypes, ContentsAssumption DEF Blank, Sample
<1>2. NoDataset \in Datasets
  BY <1>1 DEF NoDataset, Datasets
<1>3. (CHOOSE s \in Samples : TRUE) \in Samples
  BY SamplesAssumption
<1>4. Idle \in Command
  BY <1>1, <1>3 DEF Idle, Command
<1> QED
  BY <1>1, <1>2, <1>4 DEF Resting, Coordinator

\* A decision leaves a sample a sample.
LEMMA RecordedType ==
  ASSUME NEW sample \in Sample, NEW r \in People, NEW decision \in {"approved", "rejected"}
  PROVE  Recorded(sample, r, decision) \in Sample
<1> DEFINE slot == [decision |-> decision, of |-> Hash(sample)]
           reviewed == [sample EXCEPT !.reviews[r] = slot]
<1>1. slot \in Slot
  BY HashType DEF Slot
<1>2. reviewed \in Sample
  BY <1>1 DEF Sample
<1> QED
  BY <1>2 DEF Recorded, Sample

\* So does a new team.
LEMMA AssignedType ==
  ASSUME NEW sample \in Sample, NEW author \in People \cup {NoOne}, NEW reviewers \in SUBSET People
  PROVE  Assigned(sample, author, reviewers) \in Sample
BY SlotTypes DEF Assigned, Sample

\* So does a new revision.
LEMMA RevisedType ==
  ASSUME NEW sample \in Sample
  PROVE  Revised(sample) \in Sample
<1>1. sample.revision + 1 \in Nat \ {0}
  BY DEF Sample
<1>2. [r \in People |-> IF r \in Reviewers(sample) THEN Pending ELSE NoSlot] \in [People -> Slot]
  BY SlotTypes
<1> QED
  BY <1>1, <1>2 DEF Revised, Sample

-----------------------------------------------------------------------------
\* The values of the variables a command of the author or a reviewer changes.
PeopleTypes ==
  /\ file \in [Samples -> Sample]
  /\ torn \subseteq Samples
  /\ ledger \in Seq(Row)
  /\ work \in [People -> Command]
  /\ \A p \in People : work[p].pc = "append" => work[p].decision # "none"
  /\ lost \subseteq Samples

\* And those that the coordinator's change.
CoordinatorTypes ==
  /\ coord \in Coordinator
  /\ dataset \in Datasets
  /\ written \subseteq Targets
  /\ out \in Output
  /\ frozen \in BOOLEAN

\* The counters of the bounds.
CounterTypes ==
  commands \in 0..MaxCommands /\ assigns \in 0..MaxAssigns /\ crashes \in 0..MaxCrashes

\* The three parts together are the types.
LEMMA TypeParts == TypeOK <=> PeopleTypes /\ CoordinatorTypes /\ CounterTypes
BY DEF TypeOK, PeopleTypes, CoordinatorTypes, CounterTypes

\* Also after a step.
LEMMA TypePartsNext == TypeOK' <=> PeopleTypes' /\ CoordinatorTypes' /\ CounterTypes'
BY DEF TypeOK, PeopleTypes, CoordinatorTypes, CounterTypes

\* Initially the types hold.
LEMMA InitTypes == Init => TypeOK
<1> SUFFICES ASSUME Init PROVE TypeOK
  OBVIOUS
<1>1. PeopleTypes
  <2>1. file \in [Samples -> Sample]
    BY BlankTypes DEF Init
  <2>2. ledger \in Seq(Row)
    BY DEF Init
  <2>3. work \in [People -> Command]
    BY BlankTypes DEF Init
  <2>4. \A p \in People : work[p].pc = "append" => work[p].decision # "none"
    BY DEF Init, Idle
  <2> QED
    BY <2>1, <2>2, <2>3, <2>4 DEF Init, PeopleTypes
<1>2. CoordinatorTypes
  <2>1. [s \in Samples |-> 0] \in [Samples -> Contents]
    BY ContentsAssumption
  <2>2. out \in Output
    BY <2>1, BlankTypes DEF Init, Output
  <2> QED
    BY <2>2, BlankTypes DEF Init, CoordinatorTypes
<1>3. CounterTypes
  BY BoundsNat DEF Init, CounterTypes
<1> QED
  BY <1>1, <1>2, <1>3, TypeParts

\* A command that is given a value to write is a command.
LEMMA CommandType ==
  ASSUME NEW q \in People, PeopleTypes,
         NEW pc \in {"append", "write"}, NEW s \in Samples, NEW value \in Sample,
         NEW decision \in {"approved", "rejected", "none"},
         pc = "append" => decision # "none",
         work' = [work EXCEPT ![q] = [pc |-> pc, sample |-> s, read |-> file[s],
                                      value |-> value, decision |-> decision]]
  PROVE  /\ work' \in [People -> Command]
         /\ \A p \in People : (work[p].pc = "append")' => (work[p].decision # "none")'
<1>1. [pc |-> pc, sample |-> s, read |-> file[s], value |-> value, decision |-> decision]
        \in Command
  BY DEF Command, PeopleTypes
<1> QED
  BY <1>1 DEF PeopleTypes

\* So is none.
LEMMA IdleType ==
  ASSUME NEW q \in People, PeopleTypes, work' = [work EXCEPT ![q] = Idle]
  PROVE  /\ work' \in [People -> Command]
         /\ \A p \in People : (work[p].pc = "append")' => (work[p].decision # "none")'
BY BlankTypes DEF PeopleTypes, Idle

\* Steps of the author and the reviewers keep the types.
LEMMA PeopleStepTypes ==
  ASSUME TypeOK, NEW p \in People,
         \/ \E s \in Samples :
              \/ \E decision \in {"approved", "rejected"} : StartRecord(p, s, decision)
              \/ StartRevision(p, s)
              \/ \E content \in Contents : Edit(p, s, content)
         \/ AppendLedger(p) \/ WriteBack(p) \/ Die(p)
  PROVE  TypeOK'
<1> USE TypeParts, TypePartsNext
<1>1. PeopleTypes /\ CoordinatorTypes /\ CounterTypes
  OBVIOUS
<1>2. ASSUME NEW s \in Samples, NEW decision \in {"approved", "rejected"},
             StartRecord(p, s, decision)
      PROVE  TypeOK'
  <2>1. file[s] \in Sample
    BY <1>1 DEF PeopleTypes
  <2>2. Recorded(file[s], p, decision) \in Sample
    BY <2>1, RecordedType
  <2>3. /\ work' \in [People -> Command]
        /\ \A q \in People : (work[q].pc = "append")' => (work[q].decision # "none")'
    BY <1>1, <1>2, <2>2, CommandType DEF StartRecord
  <2>4. PeopleTypes'
    BY <1>1, <1>2, <2>3 DEF PeopleTypes, StartRecord
  <2>5. CoordinatorTypes'
    BY <1>1, <1>2 DEF CoordinatorTypes, StartRecord
  <2>6. CounterTypes'
    BY <1>1, <1>2, BoundsNat DEF CounterTypes, StartRecord, Reading
  <2> QED
    BY <2>4, <2>5, <2>6
<1>3. ASSUME NEW s \in Samples, StartRevision(p, s)
      PROVE  TypeOK'
  <2>1. file[s] \in Sample
    BY <1>1 DEF PeopleTypes
  <2>2. Revised(file[s]) \in Sample
    BY <2>1, RevisedType
  <2>3. /\ work' \in [People -> Command]
        /\ \A q \in People : (work[q].pc = "append")' => (work[q].decision # "none")'
    BY <1>1, <1>3, <2>2, CommandType DEF StartRevision, Rewrite
  <2>4. PeopleTypes'
    BY <1>1, <1>3, <2>3 DEF PeopleTypes, StartRevision
  <2>5. CoordinatorTypes'
    BY <1>1, <1>3 DEF CoordinatorTypes, StartRevision
  <2>6. CounterTypes'
    BY <1>1, <1>3, BoundsNat DEF CounterTypes, StartRevision, Reading
  <2> QED
    BY <2>4, <2>5, <2>6
<1>4. ASSUME NEW s \in Samples, NEW content \in Contents, Edit(p, s, content)
      PROVE  TypeOK'
  <2>1. file[s] \in Sample
    BY <1>1 DEF PeopleTypes
  <2>2. [file[s] EXCEPT !.content = content] \in Sample
    BY <2>1 DEF Sample
  <2>3. /\ work' \in [People -> Command]
        /\ \A q \in People : (work[q].pc = "append")' => (work[q].decision # "none")'
    BY <1>1, <1>4, <2>2, CommandType DEF Edit, Rewrite
  <2>4. PeopleTypes'
    BY <1>1, <1>4, <2>3 DEF PeopleTypes, Edit
  <2>5. CoordinatorTypes'
    BY <1>1, <1>4 DEF CoordinatorTypes, Edit
  <2>6. CounterTypes'
    BY <1>1, <1>4, BoundsNat DEF CounterTypes, Edit, Reading
  <2> QED
    BY <2>4, <2>5, <2>6
<1>5. ASSUME AppendLedger(p)
      PROVE  TypeOK'
  <2> DEFINE row == [sample |-> work[p].sample, reviewer |-> p, decision |-> work[p].decision,
                     of |-> Hash(work[p].read), content |-> work[p].read.content]
  <2>1. work[p] \in Command /\ work[p].decision \in {"approved", "rejected"}
    BY <1>1, <1>5 DEF PeopleTypes, AppendLedger, Command
  <2>2. row \in Row
    BY <2>1, HashType DEF Row, Command, Sample
  <2>3. ledger' = Append(ledger, row)
    BY <1>5 DEF AppendLedger
  <2>4. ledger' \in Seq(Row)
    BY <1>1, <2>2, <2>3 DEF PeopleTypes
  <2>5. work' \in [People -> Command]
    BY <1>1, <1>5 DEF PeopleTypes, AppendLedger, Command
  <2>6. \A q \in People : (work[q].pc = "append")' => (work[q].decision # "none")'
    BY <1>1, <1>5 DEF PeopleTypes, AppendLedger, Command
  <2>7. PeopleTypes'
    BY <1>1, <1>5, <2>4, <2>5, <2>6 DEF PeopleTypes, AppendLedger
  <2>8. CoordinatorTypes' /\ CounterTypes'
    BY <1>1, <1>5 DEF CoordinatorTypes, CounterTypes, AppendLedger
  <2> QED
    BY <2>7, <2>8
<1>6. ASSUME WriteBack(p)
      PROVE  TypeOK'
  <2>1. work[p].sample \in Samples /\ work[p].value \in Sample
    BY <1>1 DEF PeopleTypes, Command
  <2>2. /\ work' \in [People -> Command]
        /\ \A q \in People : (work[q].pc = "append")' => (work[q].decision # "none")'
    BY <1>1, <1>6, IdleType DEF WriteBack
  <2>3. file' \in [Samples -> Sample] /\ torn' \subseteq Samples /\ lost' \subseteq Samples
    BY <1>1, <1>6, <2>1 DEF PeopleTypes, WriteBack
  <2>4. PeopleTypes'
    BY <1>1, <1>6, <2>2, <2>3 DEF PeopleTypes, WriteBack
  <2>5. CoordinatorTypes' /\ CounterTypes'
    BY <1>1, <1>6 DEF CoordinatorTypes, CounterTypes, WriteBack
  <2> QED
    BY <2>4, <2>5
<1>7. ASSUME Die(p)
      PROVE  TypeOK'
  <2>1. work[p].sample \in Samples
    BY <1>1 DEF PeopleTypes, Command
  <2>2. /\ work' \in [People -> Command]
        /\ \A q \in People : (work[q].pc = "append")' => (work[q].decision # "none")'
    BY <1>1, <1>7, IdleType DEF Die
  <2>3. torn' \subseteq Samples /\ lost' \subseteq Samples
    BY <1>1, <1>7, <2>1 DEF PeopleTypes, Die
  <2>4. PeopleTypes'
    BY <1>1, <1>7, <2>2, <2>3 DEF PeopleTypes, Die
  <2>5. CoordinatorTypes' /\ CounterTypes'
    BY <1>1, <1>7, BoundsNat DEF CoordinatorTypes, CounterTypes, Die
  <2> QED
    BY <2>4, <2>5
<1> QED
  BY <1>2, <1>3, <1>4, <1>5, <1>6, <1>7

\* Steps of the coordinator keep them.
LEMMA CoordinatorStepTypes ==
  ASSUME TypeOK,
         \/ StartAssign \/ StartAssemble
         \/ \E s \in Samples : ReadSample(s) \/ AssignSample(s)
         \/ WriteDataset
         \/ StartFreeze \/ FreezeDataset \/ FreezePlans
         \/ FreezeLedger \/ FreezeManifest \/ CoordinatorDies
  PROVE  TypeOK'
<1> USE TypeParts, TypePartsNext
<1>1. PeopleTypes /\ CoordinatorTypes /\ CounterTypes
  OBVIOUS
<1>2. CASE StartAssign
  <2>1. PICK author \in People, reviewers \in SUBSET People :
           coord' = [Resting EXCEPT !.pc = "assign", !.todo = Samples,
                                    !.team = [author |-> author, reviewers |-> reviewers]]
    BY <1>2 DEF StartAssign
  <2>2. coord' \in Coordinator
    BY <2>1, BlankTypes DEF Coordinator
  <2>3. PeopleTypes'
    BY <1>1, <1>2 DEF StartAssign, PeopleTypes
  <2>4. CoordinatorTypes'
    BY <1>1, <1>2, <2>2 DEF StartAssign, CoordinatorTypes
  <2>5. assigns < MaxAssigns /\ assigns' = assigns + 1 /\ UNCHANGED <<commands, crashes>>
    BY <1>2 DEF StartAssign
  <2>6. CounterTypes'
    BY <1>1, <2>5, BoundsNat DEF CounterTypes
  <2> QED
    BY <2>3, <2>4, <2>6
<1>3. CASE StartAssemble
  <2>1. coord' \in Coordinator
    BY <1>3, BlankTypes DEF StartAssemble, Coordinator
  <2> QED
    BY <1>1, <1>3, <2>1 DEF StartAssemble, PeopleTypes, CoordinatorTypes, CounterTypes
<1>4. ASSUME NEW s \in Samples, ReadSample(s)
      PROVE  TypeOK'
  <2> DEFINE read == [coord EXCEPT !.seen = @ \cup {s}, !.got[s] = file[s]]
  <2>1. file[s] \in Sample /\ coord \in Coordinator
    BY <1>1 DEF PeopleTypes, CoordinatorTypes
  <2>2. read \in Coordinator
    BY <2>1 DEF Coordinator, Datasets
  <2>3. coord' = Resting \/ coord' = read
    BY <1>4 DEF ReadSample
  <2>4. coord' \in Coordinator
    BY <2>2, <2>3, BlankTypes
  <2>5. PeopleTypes'
    BY <1>1, <1>4 DEF ReadSample, PeopleTypes
  <2>6. CoordinatorTypes' /\ CounterTypes'
    BY <1>1, <1>4, <2>4 DEF ReadSample, CoordinatorTypes, CounterTypes
  <2> QED
    BY <2>5, <2>6
<1>5. ASSUME NEW s \in Samples, AssignSample(s)
      PROVE  TypeOK'
  <2>1. /\ coord.got[s] \in Sample
        /\ coord.team.author \in People \cup {NoOne}
        /\ coord.team.reviewers \in SUBSET People
    BY <1>1 DEF CoordinatorTypes, Coordinator, Datasets
  <2>2. Assigned(coord.got[s], coord.team.author, coord.team.reviewers) \in Sample
    BY <2>1, AssignedType
  <2>3. file' \in [Samples -> Sample]
    BY <1>1, <1>5, <2>2 DEF AssignSample, PeopleTypes
  <2>4. torn' \subseteq Samples /\ lost' \subseteq Samples
    BY <1>1, <1>5 DEF AssignSample, PeopleTypes
  <2>5. coord' \in Coordinator
    BY <1>1, <1>5, BlankTypes DEF AssignSample, Coordinator, CoordinatorTypes
  <2>6. PeopleTypes'
    BY <1>1, <1>5, <2>3, <2>4 DEF AssignSample, PeopleTypes
  <2>7. CoordinatorTypes' /\ CounterTypes'
    BY <1>1, <1>5, <2>5 DEF AssignSample, CoordinatorTypes, CounterTypes
  <2> QED
    BY <2>6, <2>7
<1>6. CASE WriteDataset
  <2>1. coord' \in Coordinator /\ dataset' \in Datasets
    BY <1>1, <1>6, BlankTypes DEF WriteDataset, Coordinator, CoordinatorTypes
  <2> QED
    BY <1>1, <1>6, <2>1 DEF WriteDataset, PeopleTypes, CoordinatorTypes, CounterTypes
<1>7. CASE StartFreeze
  <2>1. coord' \in Coordinator
    BY <1>1, <1>7, BlankTypes DEF StartFreeze, Coordinator, CoordinatorTypes, Targets
  <2> QED
    BY <1>1, <1>7, <2>1 DEF StartFreeze, PeopleTypes, CoordinatorTypes, CounterTypes
<1>8. CASE FreezeDataset
  <2>1. coord' \in Coordinator /\ out' \in Output /\ written' \subseteq Targets
    BY <1>1, <1>8 DEF FreezeDataset, Coordinator, CoordinatorTypes, Targets, Output
  <2> QED
    BY <1>1, <1>8, <2>1 DEF FreezeDataset, PeopleTypes, CoordinatorTypes, CounterTypes
<1>9. CASE FreezePlans
  <2>1. [s \in Samples |-> coord.got[s].content] \in [Samples -> Contents]
    BY <1>1 DEF CoordinatorTypes, Coordinator, Datasets, Sample
  <2>2. coord' \in Coordinator /\ out' \in Output /\ written' \subseteq Targets
    BY <1>1, <1>9, <2>1 DEF FreezePlans, Coordinator, CoordinatorTypes, Targets, Output
  <2> QED
    BY <1>1, <1>9, <2>2 DEF FreezePlans, PeopleTypes, CoordinatorTypes, CounterTypes
<1>10. CASE FreezeLedger
  <2>1. coord' \in Coordinator /\ out' \in Output /\ written' \subseteq Targets
    BY <1>1, <1>10
    DEF FreezeLedger, Coordinator, CoordinatorTypes, PeopleTypes, Targets, Output
  <2> QED
    BY <1>1, <1>10, <2>1 DEF FreezeLedger, PeopleTypes, CoordinatorTypes, CounterTypes
<1>11. CASE FreezeManifest
  <2>1. coord' \in Coordinator /\ written' \subseteq Targets
    BY <1>1, <1>11, BlankTypes DEF FreezeManifest, Coordinator, CoordinatorTypes, Targets
  <2> QED
    BY <1>1, <1>11, <2>1 DEF FreezeManifest, PeopleTypes, CoordinatorTypes, CounterTypes
<1>12. CASE CoordinatorDies
  <2>1. coord' \in Coordinator /\ dataset' \in Datasets /\ written' \subseteq Targets
    BY <1>1, <1>12, BlankTypes DEF CoordinatorDies, CoordinatorTypes
  <2>2. torn' \subseteq Samples /\ lost' \subseteq Samples
    BY <1>1, <1>12 DEF CoordinatorDies, PeopleTypes, CoordinatorTypes, Coordinator
  <2>3. PeopleTypes'
    BY <1>1, <1>12, <2>2 DEF CoordinatorDies, PeopleTypes
  <2>4. CoordinatorTypes'
    BY <1>1, <1>12, <2>1 DEF CoordinatorDies, CoordinatorTypes
  <2>5. CounterTypes'
    BY <1>1, <1>12, BoundsNat DEF CoordinatorDies, CounterTypes
  <2> QED
    BY <2>3, <2>4, <2>5
<1> QED
  BY <1>2, <1>3, <1>4, <1>5, <1>6, <1>7, <1>8, <1>9, <1>10, <1>11, <1>12

\* Every step keeps the types.
LEMMA StepTypes == TypeOK /\ [Next]_vars => TypeOK'
<1> SUFFICES ASSUME TypeOK, [Next]_vars PROVE TypeOK'
  OBVIOUS
<1>1. CASE Next
  BY <1>1, PeopleStepTypes, CoordinatorStepTypes DEF Next
<1>2. CASE UNCHANGED vars
  BY <1>2 DEF TypeOK, vars
<1> QED
  BY <1>1, <1>2

\* The variables keep their types.
THEOREM TypesHold == Spec => []TypeOK
BY InitTypes, StepTypes, PTL DEF Spec

-----------------------------------------------------------------------------
(* Approvals and the ledger.                                                 *)

\* A row that is appended is there, with those that were.
LEMMA AppendedRows ==
  ASSUME NEW L \in Seq(Row), NEW row \in Row
  PROVE  Rows(Append(L, row)) = Rows(L) \cup {row}
<1> DEFINE M == Append(L, row)
<1>1. /\ DOMAIN M = 1..(Len(L) + 1)
      /\ DOMAIN L = 1..Len(L)
      /\ Len(L) \in Nat
      /\ \A i \in 1..Len(L) : M[i] = L[i]
      /\ M[Len(L) + 1] = row
  OBVIOUS
<1>2. 1..(Len(L) + 1) = (1..Len(L)) \cup {Len(L) + 1}
  BY <1>1
<1> HIDE DEF M
<1>3. ASSUME NEW i \in DOMAIN M
      PROVE  M[i] \in {L[j] : j \in DOMAIN L} \cup {row}
  BY <1>1, <1>2
<1>4. ASSUME NEW i \in DOMAIN L
      PROVE  L[i] \in {M[j] : j \in DOMAIN M}
  BY <1>1, <1>2
<1>5. row \in {M[j] : j \in DOMAIN M}
  BY <1>1, <1>2
<1>6. {M[i] : i \in DOMAIN M} = {L[i] : i \in DOMAIN L} \cup {row}
  BY <1>3, <1>4, <1>5
<1> QED
  BY <1>6 DEF Rows, M

\* What a ledger backs it goes on backing when it grows.
LEMMA BackedGrows ==
  ASSUME NEW L \in Seq(Row), NEW row \in Row, NEW s \in Samples, NEW sample \in Sample,
         Backed(s, sample, L)
  PROVE  Backed(s, sample, Append(L, row))
BY AppendedRows DEF Backed

\* A recorded decision is backed once its row is in the ledger.
LEMMA BackedRecorded ==
  ASSUME NEW L \in Seq(Row), NEW s \in Samples, NEW sample \in Sample, NEW p \in People,
         NEW decision \in {"approved", "rejected"}, NEW row \in Row,
         Backed(s, sample, L),
         row.sample = s, row.reviewer = p, row.decision = decision, row.of = Hash(sample)
  PROVE  Backed(s, Recorded(sample, p, decision), Append(L, row))
<1> DEFINE slot == [decision |-> decision, of |-> Hash(sample)]
           recorded == Recorded(sample, p, decision)
<1>1. recorded.reviews = [sample.reviews EXCEPT ![p] = slot]
  BY DEF Recorded, Sample
<1>2. ASSUME NEW r \in Reviewers(recorded), recorded.reviews[r].decision = "approved"
      PROVE  \E w \in Rows(Append(L, row)) :
               /\ w.sample = s /\ w.reviewer = r
               /\ w.decision = "approved"
               /\ w.of = recorded.reviews[r].of
  <2>1. r \in People
    BY DEF Reviewers
  <2>2. CASE r = p
    <3>1. recorded.reviews[r] = slot
      BY <1>1, <2>1, <2>2 DEF Sample
    <3>2. row \in Rows(Append(L, row)) /\ decision = "approved" /\ slot.of = Hash(sample)
      BY <1>2, <3>1, AppendedRows
    <3> QED
      BY <2>2, <3>1, <3>2
  <2>3. CASE r # p
    <3>1. recorded.reviews[r] = sample.reviews[r]
      BY <1>1, <2>1, <2>3 DEF Sample
    <3>2. r \in Reviewers(sample)
      BY <1>2, <2>1, <3>1 DEF Reviewers
    <3>3. Rows(L) \subseteq Rows(Append(L, row))
      BY AppendedRows
    <3> QED
      BY <1>2, <3>1, <3>2, <3>3 DEF Backed
  <2> QED
    BY <2>2, <2>3
<1> QED
  BY <1>2 DEF Backed

\* Slots that are reset claim nothing.
LEMMA BackedReset ==
  ASSUME NEW L, NEW s, NEW sample,
         \A r \in People : sample.reviews[r] \in {Pending, NoSlot}
  PROVE  Backed(s, sample, L)
BY DEF Backed, Reviewers, Pending, NoSlot

\* What a file, or a value about to be written into one, approves is in the
\* ledger; a command about to append has yet to earn its value.
Evidence ==
  /\ \A s \in Samples : Backed(s, file[s], ledger)
  /\ \A p \in People :
       /\ work[p].pc = "append" =>
            /\ Backed(work[p].sample, work[p].read, ledger)
            /\ work[p].value = Recorded(work[p].read, p, work[p].decision)
       /\ work[p].pc = "write" => Backed(work[p].sample, work[p].value, ledger)

\* Initially nothing is approved.
LEMMA InitEvidence == Init => Evidence
<1> SUFFICES ASSUME Init PROVE Evidence
  OBVIOUS
<1>1. \A s \in Samples : \A r \in People : file[s].reviews[r] \in {Pending, NoSlot}
  BY DEF Init, Blank
<1>2. \A p \in People : work[p].pc = "idle"
  BY DEF Init, Idle
<1> QED
  BY <1>1, <1>2, BackedReset DEF Evidence

\* A command that reads a file and will write a backed value keeps the evidence.
LEMMA EvidenceOfRewrite ==
  ASSUME TypeOK, Evidence, NEW p \in People, NEW s \in Samples, NEW value,
         Backed(s, value, ledger), Rewrite(p, s, value), UNCHANGED <<file, ledger>>
  PROVE  Evidence'
<1>1. work' = [work EXCEPT ![p] = [pc |-> "write", sample |-> s, read |-> file[s],
                                   value |-> value, decision |-> "none"]]
  BY DEF Rewrite
<1>2. \A q \in People : q # p => work'[q] = work[q]
  BY <1>1 DEF TypeOK
<1>3. work'[p].pc = "write" /\ work'[p].sample = s /\ work'[p].value = value
  BY <1>1 DEF TypeOK
<1> QED
  BY <1>2, <1>3 DEF Evidence

\* Every step keeps the evidence.
LEMMA StepEvidence == TypeOK /\ Evidence /\ [Next]_vars => Evidence'
<1> SUFFICES ASSUME TypeOK, Evidence, [Next]_vars PROVE Evidence'
  OBVIOUS
<1>1. file \in [Samples -> Sample] /\ ledger \in Seq(Row) /\ work \in [People -> Command]
  BY DEF TypeOK
<1>2. ASSUME NEW p \in People, NEW s \in Samples, NEW decision \in {"approved", "rejected"},
             StartRecord(p, s, decision)
      PROVE  Evidence'
  <2>1. work' = [work EXCEPT ![p] =
          [pc |-> "append", sample |-> s, read |-> file[s],
           value |-> Recorded(file[s], p, decision), decision |-> decision]]
    BY <1>2 DEF StartRecord
  <2>2. \A q \in People : q # p => work'[q] = work[q]
    BY <1>1, <2>1
  <2>3. /\ work'[p].pc = "append" /\ work'[p].sample = s /\ work'[p].read = file[s]
        /\ work'[p].value = Recorded(file[s], p, decision) /\ work'[p].decision = decision
    BY <1>1, <2>1
  <2>4. UNCHANGED <<file, ledger>>
    BY <1>2 DEF StartRecord
  <2> QED
    BY <2>2, <2>3, <2>4 DEF Evidence
<1>3. ASSUME NEW p \in People, NEW s \in Samples, StartRevision(p, s)
      PROVE  Evidence'
  <2>1. \A r \in People : Revised(file[s]).reviews[r] \in {Pending, NoSlot}
    BY <1>1 DEF Revised, Sample
  <2>2. Backed(s, Revised(file[s]), ledger)
    BY <2>1, BackedReset
  <2> QED
    BY <1>3, <2>2, EvidenceOfRewrite DEF StartRevision
<1>4. ASSUME NEW p \in People, NEW s \in Samples, NEW content \in Contents, Edit(p, s, content)
      PROVE  Evidence'
  <2> DEFINE edited == [file[s] EXCEPT !.content = content]
  <2>1. edited.reviews = file[s].reviews
    BY <1>1 DEF Sample
  <2>2. Backed(s, edited, ledger)
    BY <2>1 DEF Evidence, Backed, Reviewers
  <2> QED
    BY <1>4, <2>2, EvidenceOfRewrite DEF Edit
<1>5. ASSUME NEW p \in People, AppendLedger(p)
      PROVE  Evidence'
  <2> DEFINE row == [sample |-> work[p].sample, reviewer |-> p, decision |-> work[p].decision,
                     of |-> Hash(work[p].read), content |-> work[p].read.content]
  <2>1. /\ work[p] \in Command /\ work[p].decision \in {"approved", "rejected"}
        /\ work[p].sample \in Samples /\ work[p].read \in Sample /\ work[p].value \in Sample
    BY <1>1, <1>5 DEF TypeOK, AppendLedger, Command
  <2>2. row \in Row
    BY <2>1, HashType DEF Row, Command, Sample
  <2>3. ledger' = Append(ledger, row) /\ file' = file /\ work[p].pc = "append"
    BY <1>5 DEF AppendLedger
  <2>4. \A q \in People : work'[q] = IF q = p THEN [work[p] EXCEPT !.pc = "write"] ELSE work[q]
    BY <1>1, <1>5 DEF AppendLedger
  <2>5. Backed(work[p].sample, work[p].value, ledger')
    BY <1>1, <2>1, <2>2, <2>3, BackedRecorded DEF Evidence
  <2>6. \A s \in Samples : Backed(s, file[s], ledger')
    BY <1>1, <2>2, <2>3, BackedGrows DEF Evidence
  <2>7. ASSUME NEW q \in People, q # p
        PROVE  /\ work[q].pc = "append" => Backed(work[q].sample, work[q].read, ledger')
               /\ work[q].pc = "write" => Backed(work[q].sample, work[q].value, ledger')
    <3>1. work[q].sample \in Samples /\ work[q].read \in Sample /\ work[q].value \in Sample
      BY <1>1 DEF Command
    <3> QED
      BY <1>1, <2>2, <2>3, <3>1, BackedGrows DEF Evidence
  <2>8. work'[p].pc = "write" /\ work'[p].sample = work[p].sample /\ work'[p].value = work[p].value
    BY <2>1, <2>4 DEF Command
  <2> QED
    BY <2>3, <2>4, <2>5, <2>6, <2>7, <2>8 DEF Evidence
<1>6. ASSUME NEW p \in People, WriteBack(p)
      PROVE  Evidence'
  <2>1. /\ work[p].pc = "write" /\ work[p].sample \in Samples
        /\ file' = [file EXCEPT ![work[p].sample] = work[p].value]
        /\ work' = [work EXCEPT ![p] = Idle] /\ ledger' = ledger
    BY <1>1, <1>6 DEF WriteBack, Command
  <2>2. \A s \in Samples : Backed(s, file'[s], ledger)
    BY <1>1, <2>1 DEF Evidence
  <2>3. \A q \in People : work'[q] = work[q] \/ work'[q].pc = "idle"
    BY <1>1, <2>1 DEF Idle
  <2> QED
    BY <2>1, <2>2, <2>3 DEF Evidence
<1>7. ASSUME NEW p \in People, Die(p)
      PROVE  Evidence'
  <2>1. \A q \in People : work'[q] = work[q] \/ work'[q].pc = "idle"
    BY <1>1, <1>7 DEF Die, Idle
  <2> QED
    BY <1>7, <2>1 DEF Die, Evidence
<1>8. ASSUME NEW s \in Samples, AssignSample(s)
      PROVE  Evidence'
  <2> DEFINE assigned == Assigned(coord.got[s], coord.team.author, coord.team.reviewers)
  <2>1. coord.got[s] \in Sample
    BY DEF TypeOK, Coordinator, Datasets
  <2>2. \A r \in People : assigned.reviews[r] \in {Pending, NoSlot}
    BY <2>1 DEF Assigned, Sample
  <2>3. Backed(s, assigned, ledger)
    BY <2>2, BackedReset
  <2>4. \A t \in Samples : Backed(t, file'[t], ledger)
    BY <1>1, <1>8, <2>3 DEF AssignSample, Evidence
  <2> QED
    BY <1>8, <2>4 DEF AssignSample, Evidence
<1>9. ASSUME UNCHANGED <<file, ledger, work>> PROVE Evidence'
  BY <1>9 DEF Evidence
<1> QED
  BY <1>2, <1>3, <1>4, <1>5, <1>6, <1>7, <1>8, <1>9
  DEF Next, vars, StartAssign, StartAssemble, ReadSample, WriteDataset, StartFreeze,
      FreezeDataset, FreezePlans, FreezeLedger, FreezeManifest, CoordinatorDies

\* An approval in a sample file has its row in the ledger, whatever dies.
THEOREM ApprovalsHaveEvidence == Spec => []ApprovalHasEvidence
<1>1. Evidence => ApprovalHasEvidence
  BY DEF Evidence, ApprovalHasEvidence
<1> QED
  BY <1>1, InitTypes, StepTypes, InitEvidence, StepEvidence, PTL DEF Spec
-----------------------------------------------------------------------------
(* The freeze.                                                               *)

\* A set of two has two different members.
LEMMA TwoMembers ==
  ASSUME NEW A, IsFiniteSet(A), Cardinality(A) = 2
  PROVE  \E a, b \in A : a # b
<1>1. PICK a : a \in A
  BY FS_EmptySet
<1>2. IsFiniteSet(A \ {a}) /\ Cardinality(A \ {a}) = 1
  BY <1>1, FS_RemoveElement
<1>3. PICK b : b \in A \ {a}
  BY <1>2, FS_EmptySet
<1> QED
  BY <1>1, <1>3

\* What the hash was taken of is what the row says.
Honest(L) == \A row \in Rows(L) : row.content = row.of[3]

\* The audit is passed by what two people approved.
LEMMA PassesApproved ==
  ASSUME NEW L \in Seq(Row), Honest(L), NEW s \in Samples, NEW sample \in Sample,
         Passes(s, sample, L)
  PROVE  ApprovedByTwo(s, sample, L)
<1> DEFINE approvals == Approvals(s, sample, L)
<1>1. Rows(L) \subseteq Row
  BY DEF Rows
<1>2. approvals \subseteq People
  BY <1>1 DEF Approvals, Row
<1>3. IsFiniteSet(approvals \ {sample.author})
  BY <1>2, PeopleAssumption, FS_Subset
<1>4. PICK r1, r2 \in approvals \ {sample.author} : r1 # r2
  BY <1>3, TwoMembers DEF Passes
<1>5. ASSUME NEW r \in approvals
      PROVE  \E row \in Rows(L) :
               /\ row.sample = s /\ row.reviewer = r /\ row.decision = "approved"
               /\ row.of[2] = sample.revision
               /\ row.content = sample.content
  <2>1. PICK row \in Rows(L) : /\ row.sample = s /\ row.of = Hash(sample)
                               /\ row.decision = "approved" /\ row.reviewer = r
    BY DEF Approvals
  <2>2. row.of[2] = sample.revision /\ row.of[3] = sample.content
    BY <2>1 DEF Hash
  <2> QED
    BY <2>1, <2>2 DEF Honest
<1> HIDE DEF approvals
<1> QED
  BY <1>2, <1>4, <1>5 DEF ApprovedByTwo

\* An approval outlives a growing ledger.
LEMMA ApprovedGrows ==
  ASSUME NEW L \in Seq(Row), NEW row \in Row, NEW s \in Samples, NEW sample \in Sample,
         ApprovedByTwo(s, sample, L)
  PROVE  ApprovedByTwo(s, sample, Append(L, row))
<1>1. Rows(L) \subseteq Rows(Append(L, row))
  BY AppendedRows
<1>2. PICK r1, r2 \in People \ {sample.author} :
        /\ r1 # r2
        /\ \A r \in {r1, r2} : \E w \in Rows(L) :
             /\ w.sample = s /\ w.reviewer = r /\ w.decision = "approved"
             /\ w.of[2] = sample.revision
             /\ w.content = sample.content
  BY DEF ApprovedByTwo
<1>3. \A r \in {r1, r2} : \E w \in Rows(Append(L, row)) :
             /\ w.sample = s /\ w.reviewer = r /\ w.decision = "approved"
             /\ w.of[2] = sample.revision
             /\ w.content = sample.content
  BY <1>1, <1>2
<1> QED
  BY <1>2, <1>3 DEF ApprovedByTwo

\* The files a freeze has written before it writes f.
Before(f) == CASE f = "dataset" -> {}
               [] f = "plans" -> {"dataset"}
               [] f = "ledger" -> {"dataset", "plans"}
               [] f = "manifest" -> {"dataset", "plans", "ledger"}

\* While a freeze runs: its dataset stays what it audited and the ledger goes on
\* approving it, and what it has written is of that dataset.
Running ==
  coord.pc \in Targets =>
    /\ ~frozen
    /\ written = Before(coord.pc)
    /\ coord.got = dataset
    /\ \A s \in Samples : ApprovedByTwo(s, dataset[s], ledger)
    /\ "dataset" \in written => out.dataset = dataset
    /\ "plans" \in written => \A s \in Samples : out.plans[s] = dataset[s].content
    /\ "ledger" \in written => \A s \in Samples : ApprovedByTwo(s, dataset[s], out.ledger)

Freezing ==
  /\ Honest(ledger)
  /\ Running
  /\ frozen => "manifest" \in written
  /\ FrozenIsApproved

\* Initially no freeze has run.
LEMMA InitFreezing == Init => Freezing
BY DEF Init, Freezing, Honest, Rows, Running, Resting, Targets, FrozenIsApproved

\* A row that is appended is honest, and takes no approval away.
LEMMA FreezingAppend ==
  ASSUME TypeOK, Freezing, NEW p \in People, AppendLedger(p)
  PROVE  Freezing'
<1> DEFINE row == [sample |-> work[p].sample, reviewer |-> p, decision |-> work[p].decision,
                   of |-> Hash(work[p].read), content |-> work[p].read.content]
<1>1. /\ work[p] \in Command /\ work[p].decision \in {"approved", "rejected"}
      /\ work[p].sample \in Samples /\ work[p].read \in Sample
  BY DEF TypeOK, AppendLedger, Command
<1>2. row \in Row
  BY <1>1, HashType DEF Row, Sample
<1>3. ledger' = Append(ledger, row) /\ ledger \in Seq(Row)
  BY DEF AppendLedger, TypeOK
<1>4. UNCHANGED <<coord, dataset, written, out, frozen>>
  BY DEF AppendLedger
<1>5. Honest(ledger')
  <2>1. row.content = row.of[3]
    BY DEF Hash
  <2> QED
    BY <1>2, <1>3, <2>1, AppendedRows DEF Honest, Freezing
<1>6. ASSUME coord.pc \in Targets
      PROVE  \A s \in Samples : ApprovedByTwo(s, dataset[s], ledger')
  BY <1>2, <1>3, <1>6, ApprovedGrows DEF TypeOK, Datasets, Freezing, Running
<1>7. Running'
  BY <1>4, <1>6 DEF Freezing, Running
<1> QED
  BY <1>4, <1>5, <1>7 DEF Freezing, FrozenIsApproved

\* Every step of the coordinator keeps it.
LEMMA FreezingCoordinator ==
  ASSUME TypeOK, Freezing, UNCHANGED ledger,
         \/ StartAssign \/ StartAssemble
         \/ \E s \in Samples : ReadSample(s) \/ AssignSample(s)
         \/ WriteDataset
         \/ StartFreeze \/ FreezeDataset \/ FreezePlans
         \/ FreezeLedger \/ FreezeManifest \/ CoordinatorDies
  PROVE  Freezing'
<1>1. Honest(ledger') /\ ledger' \in Seq(Row)
  BY DEF Freezing, Honest, Rows, TypeOK
<1>2. ASSUME coord'.pc \notin Targets, UNCHANGED <<out, frozen>>, written \subseteq written'
      PROVE  Freezing'
  BY <1>1, <1>2 DEF Freezing, Running, FrozenIsApproved
<1>3. CASE StartAssign
  <2>1. coord'.pc = "assign"
    BY <1>3 DEF StartAssign, Resting
  <2> QED
    BY <1>2, <1>3, <2>1 DEF StartAssign, Targets
<1>4. CASE StartAssemble
  <2>1. coord'.pc = "assemble"
    BY <1>4 DEF StartAssemble, Resting
  <2> QED
    BY <1>2, <1>4, <2>1 DEF StartAssemble, Targets
<1>5. ASSUME NEW s \in Samples, ReadSample(s) PROVE Freezing'
  <2>1. coord'.pc \in {"idle", "assign", "assemble"}
    BY <1>5 DEF ReadSample, Resting, TypeOK, Coordinator
  <2> QED
    BY <1>2, <1>5, <2>1 DEF ReadSample, Targets
<1>6. ASSUME NEW s \in Samples, AssignSample(s) PROVE Freezing'
  <2>1. coord'.pc \in {"idle", "assign"}
    BY <1>6 DEF AssignSample, Resting, TypeOK, Coordinator
  <2> QED
    BY <1>2, <1>6, <2>1 DEF AssignSample, Targets
<1>7. CASE WriteDataset
  BY <1>2, <1>7 DEF WriteDataset, Resting, Targets
<1>8. CASE StartFreeze
  <2>1. /\ coord'.pc = "dataset" /\ coord'.got = dataset /\ written = {} /\ Ready
        /\ UNCHANGED <<ledger, dataset, written, out, frozen>>
    BY <1>8 DEF StartFreeze, Resting
  <2>2. ~frozen
    BY <2>1 DEF Freezing
  <2>3. \A s \in Samples : ApprovedByTwo(s, dataset[s], ledger)
    BY <2>1, PassesApproved DEF Ready, Freezing, TypeOK, Datasets
  <2>4. Running'
    BY <2>1, <2>2, <2>3 DEF Running, Before
  <2> QED
    BY <1>1, <2>1, <2>2, <2>4 DEF Freezing, FrozenIsApproved
<1>9. CASE FreezeDataset
  <2>1. /\ coord.pc = "dataset" /\ coord'.pc = "plans" /\ coord'.got = coord.got
        /\ written' = written \cup {"dataset"} /\ out'.dataset = dataset
        /\ UNCHANGED <<ledger, dataset, frozen>>
    BY <1>9 DEF FreezeDataset, TypeOK, Coordinator, Output
  <2>2. /\ ~frozen /\ written = {} /\ coord.got = dataset
        /\ \A s \in Samples : ApprovedByTwo(s, dataset[s], ledger)
    BY <2>1 DEF Freezing, Running, Before, Targets
  <2>3. written' = Before("plans")
    BY <2>1, <2>2 DEF Before
  <2>4. Running'
    BY <2>1, <2>2, <2>3 DEF Running, Before
  <2> QED
    BY <1>1, <2>1, <2>2, <2>4 DEF Freezing, FrozenIsApproved
<1>10. CASE FreezePlans
  <2>1. /\ coord.pc = "plans" /\ coord'.pc = "ledger" /\ coord'.got = coord.got
        /\ written' = written \cup {"plans"} /\ out'.dataset = out.dataset
        /\ out'.plans = [s \in Samples |-> coord.got[s].content]
        /\ UNCHANGED <<ledger, dataset, frozen>>
    BY <1>10 DEF FreezePlans, TypeOK, Coordinator, Output
  <2>2. /\ ~frozen /\ written = {"dataset"} /\ coord.got = dataset /\ out.dataset = dataset
        /\ \A s \in Samples : ApprovedByTwo(s, dataset[s], ledger)
    BY <2>1 DEF Freezing, Running, Before, Targets
  <2>3. written' = Before("ledger")
    BY <2>1, <2>2 DEF Before
  <2>4. Running'
    BY <2>1, <2>2, <2>3 DEF Running, Before
  <2> QED
    BY <1>1, <2>1, <2>2, <2>4 DEF Freezing, FrozenIsApproved
<1>11. CASE FreezeLedger
  <2>1. /\ coord.pc = "ledger" /\ coord'.pc = "manifest" /\ coord'.got = coord.got
        /\ written' = written \cup {"ledger"} /\ out'.dataset = out.dataset
        /\ out'.plans = out.plans /\ out'.ledger = ledger
        /\ UNCHANGED <<ledger, dataset, frozen>>
    BY <1>11 DEF FreezeLedger, TypeOK, Coordinator, Output
  <2>2. /\ ~frozen /\ written = {"dataset", "plans"} /\ coord.got = dataset
        /\ out.dataset = dataset /\ \A s \in Samples : out.plans[s] = dataset[s].content
        /\ \A s \in Samples : ApprovedByTwo(s, dataset[s], ledger)
    BY <2>1 DEF Freezing, Running, Before, Targets
  <2>3. written' = Before("manifest")
    BY <2>1, <2>2 DEF Before
  <2>4. Running'
    BY <2>1, <2>2, <2>3 DEF Running
  <2> QED
    BY <1>1, <2>1, <2>2, <2>4 DEF Freezing, FrozenIsApproved
<1>12. CASE FreezeManifest
  <2>1. /\ coord.pc = "manifest" /\ coord'.pc = "idle" /\ written' = written \cup {"manifest"}
        /\ UNCHANGED <<ledger, dataset, out>>
    BY <1>12 DEF FreezeManifest, Resting
  <2>2. /\ written = {"dataset", "plans", "ledger"} /\ out.dataset = dataset
        /\ \A s \in Samples : out.plans[s] = dataset[s].content
        /\ \A s \in Samples : ApprovedByTwo(s, dataset[s], out.ledger)
    BY <2>1 DEF Freezing, Running, Before, Targets
  <2>3. FrozenIsApproved'
    BY <2>1, <2>2 DEF FrozenIsApproved
  <2> QED
    BY <1>1, <2>1, <2>3 DEF Freezing, Running, Targets
<1>13. CASE CoordinatorDies
  BY <1>2, <1>13 DEF CoordinatorDies, Resting, Targets
<1> QED
  BY <1>3, <1>4, <1>5, <1>6, <1>7, <1>8, <1>9, <1>10, <1>11, <1>12, <1>13

\* Every step keeps it.
LEMMA StepFreezing == TypeOK /\ Freezing /\ [Next]_vars => Freezing'
<1> SUFFICES ASSUME TypeOK, Freezing, [Next]_vars PROVE Freezing'
  OBVIOUS
<1>1. ASSUME NEW p \in People, AppendLedger(p) PROVE Freezing'
  BY <1>1, FreezingAppend
<1>2. ASSUME UNCHANGED <<ledger, coord, dataset, written, out, frozen>> PROVE Freezing'
  BY <1>2 DEF Freezing, Honest, Running, FrozenIsApproved
<1>3. ASSUME UNCHANGED ledger,
             \/ StartAssign \/ StartAssemble
             \/ \E s \in Samples : ReadSample(s) \/ AssignSample(s)
             \/ WriteDataset
             \/ StartFreeze \/ FreezeDataset \/ FreezePlans
             \/ FreezeLedger \/ FreezeManifest \/ CoordinatorDies
      PROVE  Freezing'
  BY <1>3, FreezingCoordinator
<1> QED
  BY <1>1, <1>2, <1>3
  DEF Next, vars, StartRecord, StartRevision, Edit, WriteBack, Die,
      StartAssign, StartAssemble, ReadSample, AssignSample, WriteDataset, StartFreeze,
      FreezeDataset, FreezePlans, FreezeLedger, FreezeManifest, CoordinatorDies

\* What is frozen was approved, as it is frozen, by two people who did not
\* write it, and the frozen ledger says so.
THEOREM FrozenWasApproved == Spec => []FrozenIsApproved
<1>1. Freezing => FrozenIsApproved
  BY DEF Freezing
<1> QED
  BY <1>1, InitTypes, StepTypes, InitFreezing, StepFreezing, PTL DEF Spec

\* A freeze, whatever dies, writes over nothing an earlier one wrote.
LEMMA StepFiles ==
  TypeOK /\ Freezing /\ [Next]_vars =>
    /\ written \subseteq written'
    /\ \A f \in written \ {"manifest"} : out'[f] = out[f]
<1> SUFFICES ASSUME TypeOK, Freezing, [Next]_vars
             PROVE  /\ written \subseteq written'
                    /\ \A f \in written \ {"manifest"} : out'[f] = out[f]
  OBVIOUS
<1>1. ASSUME UNCHANGED out, written \subseteq written'
      PROVE  /\ written \subseteq written'
             /\ \A f \in written \ {"manifest"} : out'[f] = out[f]
  BY <1>1
<1>2. CASE FreezeDataset
  BY <1>2 DEF FreezeDataset, Freezing, Running, Before, Targets
<1>3. CASE FreezePlans
  <2>1. written = {"dataset"} /\ written' = written \cup {"plans"}
    BY <1>3 DEF FreezePlans, Freezing, Running, Before, Targets
  <2>2. out'["dataset"] = out["dataset"]
    BY <1>3 DEF FreezePlans, TypeOK, Output
  <2> QED
    BY <2>1, <2>2
<1>4. CASE FreezeLedger
  <2>1. written = {"dataset", "plans"} /\ written' = written \cup {"ledger"}
    BY <1>4 DEF FreezeLedger, Freezing, Running, Before, Targets
  <2>2. out'["dataset"] = out["dataset"] /\ out'["plans"] = out["plans"]
    BY <1>4 DEF FreezeLedger, TypeOK, Output
  <2> QED
    BY <2>1, <2>2
<1> QED
  BY <1>1, <1>2, <1>3, <1>4
  DEF Next, vars, StartRecord, AppendLedger, StartRevision, Edit, WriteBack, Die,
      StartAssign, StartAssemble, ReadSample, AssignSample, WriteDataset, StartFreeze,
      FreezeManifest, CoordinatorDies

\* The files of a freeze stay as they were first written.
THEOREM FilesStay == Spec => FrozenFilesStay
BY InitTypes, StepTypes, InitFreezing, StepFreezing, StepFiles, PTL
   DEF Spec, FrozenFilesStay

-----------------------------------------------------------------------------
(* Decisions taken back.                                                     *)

\* The rows of a reviewer on a sample as it was at a hash, by their place.
RowsFor(L, s, r, of) ==
  {i \in DOMAIN L : L[i].sample = s /\ L[i].reviewer = r /\ L[i].of = of}

\* The last of them has the decision of the slot.
LatestIs(L, s, r, slot) ==
  \E i \in RowsFor(L, s, r, slot.of) :
    /\ L[i].decision = slot.decision
    /\ \A j \in RowsFor(L, s, r, slot.of) : j <= i

Decided(slot) == slot.decision \in {"approved", "rejected"}

\* The reviewer whose row is in the ledger and whose slot is not in the file yet.
Filling(r, s) == work[r].pc = "write" /\ work[r].sample = s /\ work[r].decision # "none"
OwnSlot(r) == [decision |-> work[r].decision, of |-> Hash(work[r].read)]

\* The slots of a sample none of whose writes was lost follow the ledger.
SlotsFollow ==
  \A s \in Samples \ lost : \A r \in People :
    Decided(file[s].reviews[r]) /\ ~Filling(r, s) => LatestIs(ledger, s, r, file[s].reviews[r])

\* So will the slot of a reviewer whose row has just been appended.
HeldFollow ==
  \A p \in People :
    Filling(p, work[p].sample) => LatestIs(ledger, work[p].sample, p, OwnSlot(p))

\* A command changes no slot but its reviewer's, or resets them.
ValueFollows(p, w) ==
  w.pc # "idle" =>
    \A r \in People :
      IF r = p /\ w.decision # "none"
      THEN w.value.reviews[r] = [decision |-> w.decision, of |-> Hash(w.read)]
      ELSE w.value.reviews[r] \in {w.read.reviews[r], Pending, NoSlot}

ValuesFollow == \A p \in People : ValueFollows(p, work[p])

Sequel == SlotsFollow /\ HeldFollow /\ ValuesFollow

\* A row of another reviewer or sample changes nothing, one of the reviewer's
\* own is the last.
LEMMA LatestAfterAppend ==
  ASSUME NEW L \in Seq(Row), NEW row \in Row, NEW s, NEW r, NEW slot
  PROVE  /\ LatestIs(L, s, r, slot) /\ (row.sample # s \/ row.reviewer # r)
              => LatestIs(Append(L, row), s, r, slot)
         /\ row.sample = s /\ row.reviewer = r /\ row.of = slot.of /\ row.decision = slot.decision
              => LatestIs(Append(L, row), s, r, slot)
<1> DEFINE M == Append(L, row)
<1>1. /\ DOMAIN M = 1..(Len(L) + 1) /\ DOMAIN L = 1..Len(L) /\ Len(L) \in Nat
      /\ \A i \in 1..Len(L) : M[i] = L[i]
      /\ M[Len(L) + 1] = row
  OBVIOUS
<1>2. \A i : i \in 1..(Len(L) + 1) <=> i \in 1..Len(L) \/ i = Len(L) + 1
  BY <1>1
<1> HIDE DEF M
<1>3. ASSUME LatestIs(L, s, r, slot), row.sample # s \/ row.reviewer # r
      PROVE  LatestIs(M, s, r, slot)
  <2>1. RowsFor(M, s, r, slot.of) = RowsFor(L, s, r, slot.of)
    BY <1>1, <1>2, <1>3 DEF RowsFor
  <2>2. \A i \in RowsFor(L, s, r, slot.of) : M[i] = L[i]
    BY <1>1 DEF RowsFor
  <2> QED BY <1>3, <2>1, <2>2 DEF LatestIs
<1>4. ASSUME row.sample = s, row.reviewer = r, row.of = slot.of, row.decision = slot.decision
      PROVE  LatestIs(M, s, r, slot)
  <2>1. Len(L) + 1 \in RowsFor(M, s, r, slot.of)
    BY <1>1, <1>2, <1>4 DEF RowsFor
  <2>2. \A j \in RowsFor(M, s, r, slot.of) : j <= Len(L) + 1
    BY <1>1 DEF RowsFor
  <2> QED BY <1>1, <1>4, <2>1, <2>2 DEF LatestIs
<1> QED BY <1>3, <1>4 DEF M

\* Initially nothing is decided.
LEMMA InitSequel == Init => Sequel
<1> SUFFICES ASSUME Init PROVE Sequel
  OBVIOUS
<1>1. \A s \in Samples : \A r \in People : file[s].reviews[r] = NoSlot
  BY DEF Init, Blank
<1>2. \A p \in People : work[p].pc = "idle"
  BY DEF Init, Idle
<1> QED
  BY <1>1, <1>2 DEF Sequel, SlotsFollow, HeldFollow, ValuesFollow, ValueFollows, Filling,
                    Decided, NoSlot

\* A command that has started has changed nothing yet.
LEMMA StartSequel ==
  ASSUME TypeOK, Sequel, NEW p \in People, NEW w, work[p].pc = "idle",
         w.decision = "none" \/ w.pc = "append", ValueFollows(p, w),
         work' = [work EXCEPT ![p] = w], UNCHANGED <<file, ledger, lost>>
  PROVE  Sequel'
<1>1. work'[p] = w /\ \A q \in People : q # p => work'[q] = work[q]
  BY DEF TypeOK
<1>2. \A q \in People : \A s : Filling(q, s)' <=> Filling(q, s)
  BY <1>1 DEF Filling
<1>3. SlotsFollow'
  BY <1>2 DEF Sequel, SlotsFollow
<1>4. HeldFollow'
  <2>1. ASSUME NEW q \in People, Filling(q, work[q].sample)'
        PROVE  LatestIs(ledger', work'[q].sample, q, OwnSlot(q)')
    <3>1. q # p
      BY <1>1, <2>1 DEF Filling
    <3>2. work'[q] = work[q] /\ OwnSlot(q)' = OwnSlot(q) /\ Filling(q, work[q].sample)
      BY <1>1, <2>1, <3>1 DEF OwnSlot, Filling
    <3> QED BY <3>2 DEF Sequel, HeldFollow
  <2> QED BY <2>1 DEF HeldFollow
<1>5. ValuesFollow'
  BY <1>1 DEF Sequel, ValuesFollow
<1> QED BY <1>3, <1>4, <1>5 DEF Sequel

\* Steps that touch neither files, ledger nor commands.
LEMMA StaySequel ==
  ASSUME Sequel, UNCHANGED <<file, ledger, work>>, lost \subseteq lost'
  PROVE  Sequel'
BY DEF Sequel, SlotsFollow, HeldFollow, ValuesFollow, Filling, OwnSlot

\* A row is appended: the slot in the file is behind, until it is written.
LEMMA AppendSequel ==
  ASSUME TypeOK, Sequel, NEW p \in People, AppendLedger(p)
  PROVE  Sequel'
<1> DEFINE row == [sample |-> work[p].sample, reviewer |-> p, decision |-> work[p].decision,
                   of |-> Hash(work[p].read), content |-> work[p].read.content]
<1>1. /\ ledger \in Seq(Row) /\ work[p] \in Command /\ work[p].decision \in {"approved", "rejected"}
      /\ work[p].pc = "append"
  BY DEF TypeOK, AppendLedger, Command
<1>2. row \in Row
  BY <1>1, HashType DEF Row, Command, Sample
<1>3. ledger' = Append(ledger, row) /\ file' = file /\ lost' = lost
  BY DEF AppendLedger
<1>4. /\ \A q \in People : q # p => work'[q] = work[q]
      /\ work'[p] = [work[p] EXCEPT !.pc = "write"]
  BY DEF TypeOK, AppendLedger
<1>5. /\ work'[p].pc = "write" /\ work'[p].sample = work[p].sample /\ work'[p].read = work[p].read
      /\ work'[p].value = work[p].value /\ work'[p].decision = work[p].decision
  BY <1>1, <1>4 DEF Command
<1>6. /\ row.sample = work[p].sample /\ row.reviewer = p
      /\ row.decision = work[p].decision /\ row.of = Hash(work[p].read)
  OBVIOUS
<1> HIDE DEF row
<1>7. SlotsFollow'
  <2>1. ASSUME NEW s \in Samples \ lost, NEW r \in People, Decided(file[s].reviews[r]),
               ~Filling(r, s)'
        PROVE  LatestIs(ledger', s, r, file[s].reviews[r])
    <3>1. r # p \/ s # work[p].sample
      BY <1>1, <1>5, <2>1 DEF Filling
    <3>2. ~Filling(r, s)
      BY <1>1, <1>4, <2>1 DEF Filling
    <3>3. LatestIs(ledger, s, r, file[s].reviews[r])
      BY <2>1, <3>2 DEF Sequel, SlotsFollow
    <3> QED BY <1>1, <1>2, <1>3, <1>6, <3>1, <3>3, LatestAfterAppend
  <2> QED BY <1>3, <2>1 DEF SlotsFollow
<1>8. HeldFollow'
  <2>1. ASSUME NEW q \in People, Filling(q, work[q].sample)'
        PROVE  LatestIs(ledger', work'[q].sample, q, OwnSlot(q)')
    <3>1. CASE q = p
      <4>1. OwnSlot(q)' = [decision |-> row.decision, of |-> row.of]
        BY <1>5, <1>6, <3>1 DEF OwnSlot
      <4> QED BY <1>1, <1>2, <1>3, <1>5, <1>6, <3>1, <4>1, LatestAfterAppend
    <3>2. CASE q # p
      <4>1. work'[q] = work[q] /\ OwnSlot(q)' = OwnSlot(q) /\ Filling(q, work[q].sample)
        BY <1>4, <2>1, <3>2 DEF OwnSlot, Filling
      <4>2. LatestIs(ledger, work[q].sample, q, OwnSlot(q))
        BY <4>1 DEF Sequel, HeldFollow
      <4> QED BY <1>1, <1>2, <1>3, <1>6, <3>2, <4>1, <4>2, LatestAfterAppend
    <3> QED BY <3>1, <3>2
  <2> QED BY <2>1 DEF HeldFollow
<1>9. ValuesFollow'
  <2>1. ValueFollows(p, work'[p])
    BY <1>1, <1>5 DEF Sequel, ValuesFollow, ValueFollows
  <2> QED BY <1>4, <2>1 DEF Sequel, ValuesFollow
<1> QED BY <1>7, <1>8, <1>9 DEF Sequel

\* A command ends, or dies: no other command changes.
LEMMA EndSequel ==
  ASSUME TypeOK, Sequel, NEW p \in People, work' = [work EXCEPT ![p] = Idle], ledger' = ledger
  PROVE  /\ HeldFollow' /\ ValuesFollow'
         /\ \A q \in People : \A s : q # p \/ s # work[p].sample => (Filling(q, s)' <=> Filling(q, s))
<1>1. /\ \A q \in People : q # p => work'[q] = work[q]
      /\ work'[p] = Idle /\ Idle.pc = "idle"
  BY DEF TypeOK, Idle
<1>2. \A q \in People : \A s : q # p \/ s # work[p].sample => (Filling(q, s)' <=> Filling(q, s))
  BY <1>1 DEF Filling
<1>3. ASSUME NEW q \in People, Filling(q, work[q].sample)'
      PROVE  LatestIs(ledger', work'[q].sample, q, OwnSlot(q)')
  <2>1. q # p
    BY <1>1, <1>3 DEF Filling
  <2>2. work'[q] = work[q] /\ OwnSlot(q)' = OwnSlot(q) /\ Filling(q, work[q].sample)
    BY <1>1, <1>3, <2>1 DEF OwnSlot, Filling
  <2> QED BY <2>2 DEF Sequel, HeldFollow
<1>4. HeldFollow'
  BY <1>3 DEF HeldFollow
<1>5. ValuesFollow'
  BY <1>1 DEF Sequel, ValuesFollow, ValueFollows
<1> QED BY <1>2, <1>4, <1>5

\* A value is written: unless a write is lost, it differs from the file in what
\* the command did to the slots only.
LEMMA WriteSequel ==
  ASSUME TypeOK, Sequel, NEW p \in People, WriteBack(p)
  PROVE  Sequel'
<1> DEFINE w == work[p]
<1>1. /\ w.pc = "write" /\ w.sample \in Samples
      /\ file' = [file EXCEPT ![w.sample] = w.value]
      /\ lost' = (IF file[w.sample] = w.read THEN lost ELSE lost \cup {w.sample})
      /\ work' = [work EXCEPT ![p] = Idle] /\ ledger' = ledger
  BY DEF WriteBack, TypeOK, Command
<1>2. /\ HeldFollow' /\ ValuesFollow'
      /\ \A q \in People : \A s : q # p \/ s # w.sample => (Filling(q, s)' <=> Filling(q, s))
  BY <1>1, EndSequel
<1>3. ASSUME NEW s \in Samples \ lost', NEW r \in People, Decided(file'[s].reviews[r]),
             ~Filling(r, s)'
      PROVE  LatestIs(ledger, s, r, file'[s].reviews[r])
  <2>1. CASE s # w.sample
    <3>1. file'[s] = file[s] /\ s \in Samples \ lost
      BY <1>1, <1>3, <2>1 DEF TypeOK
    <3>2. ~Filling(r, s)
      BY <1>2, <1>3, <2>1
    <3> QED BY <1>3, <3>1, <3>2 DEF Sequel, SlotsFollow
  <2>2. CASE s = w.sample
    <3>1. file'[s] = w.value /\ file[s] = w.read /\ s \in Samples \ lost
      BY <1>1, <1>3, <2>2 DEF TypeOK
    <3>2. CASE r = p /\ w.decision # "none"
      <4>1. Filling(p, w.sample)
        BY <1>1, <3>2 DEF Filling
      <4>2. w.value.reviews[r] = OwnSlot(p)
        BY <1>1, <3>2 DEF Sequel, ValuesFollow, ValueFollows, OwnSlot
      <4> QED BY <2>2, <3>1, <3>2, <4>1, <4>2 DEF Sequel, HeldFollow
    <3>3. CASE ~(r = p /\ w.decision # "none")
      <4>1. w.value.reviews[r] \in {w.read.reviews[r], Pending, NoSlot}
        BY <1>1, <3>3 DEF Sequel, ValuesFollow, ValueFollows
      <4>2. w.value.reviews[r] = file[s].reviews[r]
        BY <1>3, <3>1, <4>1 DEF Decided, Pending, NoSlot
      <4>3. ~Filling(r, s)
        BY <1>2, <1>3, <3>3 DEF Filling
      <4> QED BY <1>3, <3>1, <4>2, <4>3 DEF Sequel, SlotsFollow
    <3> QED BY <3>2, <3>3
  <2> QED BY <2>1, <2>2
<1>4. SlotsFollow'
  BY <1>1, <1>3 DEF SlotsFollow
<1> QED BY <1>2, <1>4 DEF Sequel

\* A command that dies loses its write.
LEMMA DieSequel ==
  ASSUME TypeOK, Sequel, NEW p \in People, Die(p)
  PROVE  Sequel'
<1>1. /\ lost' = lost \cup {work[p].sample} /\ file' = file
      /\ work' = [work EXCEPT ![p] = Idle] /\ ledger' = ledger
  BY DEF Die
<1>2. /\ HeldFollow' /\ ValuesFollow'
      /\ \A q \in People : \A s : q # p \/ s # work[p].sample => (Filling(q, s)' <=> Filling(q, s))
  BY <1>1, EndSequel
<1>3. ASSUME NEW s \in Samples \ lost', NEW r \in People, Decided(file[s].reviews[r]),
             ~Filling(r, s)'
      PROVE  LatestIs(ledger, s, r, file[s].reviews[r])
  <2>1. s \in Samples \ lost /\ s # work[p].sample
    BY <1>1, <1>3
  <2>2. ~Filling(r, s)
    BY <1>2, <1>3, <2>1
  <2> QED BY <1>3, <2>1, <2>2 DEF Sequel, SlotsFollow
<1>4. SlotsFollow'
  BY <1>1, <1>3 DEF SlotsFollow
<1> QED BY <1>2, <1>4 DEF Sequel

\* A new team has decided nothing.
LEMMA AssignSequel ==
  ASSUME TypeOK, Sequel, NEW t \in Samples, AssignSample(t)
  PROVE  Sequel'
<1> DEFINE assigned == Assigned(coord.got[t], coord.team.author, coord.team.reviewers)
<1>1. /\ file' = [file EXCEPT ![t] = assigned] /\ lost \subseteq lost'
      /\ UNCHANGED <<ledger, work>>
  BY DEF AssignSample
<1>2. \A r \in People : assigned.reviews[r] \in {Pending, NoSlot}
  BY DEF Assigned, Sample, TypeOK, Coordinator, Datasets
<1>3. ~Decided(Pending) /\ ~Decided(NoSlot)
  BY DEF Decided, Pending, NoSlot
<1> HIDE DEF assigned
<1>4. ASSUME NEW s \in Samples \ lost', NEW r \in People, Decided(file'[s].reviews[r]),
             ~Filling(r, s)
      PROVE  LatestIs(ledger, s, r, file'[s].reviews[r])
  <2>1. CASE s = t
    <3>1. file'[s] = assigned
      BY <1>1, <2>1 DEF TypeOK
    <3> QED BY <1>2, <1>3, <1>4, <3>1
  <2>2. CASE s # t
    <3>1. file'[s] = file[s] /\ s \in Samples \ lost
      BY <1>1, <1>4, <2>2 DEF TypeOK
    <3> QED BY <1>4, <3>1 DEF Sequel, SlotsFollow
  <2> QED BY <2>1, <2>2
<1>6. SlotsFollow'
  BY <1>1, <1>4 DEF SlotsFollow, Filling
<1>7. HeldFollow' /\ ValuesFollow'
  BY <1>1 DEF Sequel, HeldFollow, ValuesFollow, Filling, OwnSlot
<1> QED BY <1>6, <1>7 DEF Sequel

\* Every step keeps slots and ledger in step.
LEMMA StepSequel == TypeOK /\ Sequel /\ [Next]_vars => Sequel'
<1> SUFFICES ASSUME TypeOK, Sequel, [Next]_vars PROVE Sequel'
  OBVIOUS
<1>1. file \in [Samples -> Sample] /\ work \in [People -> Command]
  BY DEF TypeOK
<1>2. ASSUME NEW p \in People, NEW s \in Samples, NEW decision \in {"approved", "rejected"},
             StartRecord(p, s, decision)
      PROVE  Sequel'
  <2> DEFINE w == [pc |-> "append", sample |-> s, read |-> file[s],
                   value |-> Recorded(file[s], p, decision), decision |-> decision]
             slot == [decision |-> decision, of |-> Hash(file[s])]
  <2>1. Recorded(file[s], p, decision).reviews = [file[s].reviews EXCEPT ![p] = slot]
    BY <1>1 DEF Recorded, Sample
  <2>2. \A r \in People : Recorded(file[s], p, decision).reviews[r] =
                            IF r = p THEN slot ELSE file[s].reviews[r]
    BY <1>1, <2>1 DEF Sample
  <2>3. /\ w.pc = "append" /\ w.decision = decision /\ decision # "none" /\ w.read = file[s]
        /\ w.value = Recorded(file[s], p, decision)
    OBVIOUS
  <2>4. work[p].pc = "idle" /\ work' = [work EXCEPT ![p] = w] /\ UNCHANGED <<file, ledger, lost>>
    BY <1>2 DEF StartRecord, Reading
  <2> HIDE DEF w
  <2>5. ValueFollows(p, w)
    BY <2>2, <2>3 DEF ValueFollows
  <2> QED BY <2>3, <2>4, <2>5, StartSequel
<1>3. ASSUME NEW p \in People, NEW s \in Samples, NEW value, work[p].pc = "idle",
             Rewrite(p, s, value), UNCHANGED <<file, ledger, lost>>,
             \A r \in People : value.reviews[r] \in {file[s].reviews[r], Pending, NoSlot}
      PROVE  Sequel'
  <2> DEFINE w == [pc |-> "write", sample |-> s, read |-> file[s], value |-> value,
                   decision |-> "none"]
  <2>1. w.decision = "none" /\ w.read = file[s] /\ w.value = value
    OBVIOUS
  <2>2. work' = [work EXCEPT ![p] = w]
    BY <1>3 DEF Rewrite
  <2> HIDE DEF w
  <2>3. ValueFollows(p, w)
    BY <1>3, <2>1 DEF ValueFollows
  <2> QED BY <1>3, <2>1, <2>2, <2>3, StartSequel
<1>4. ASSUME NEW p \in People, NEW s \in Samples, StartRevision(p, s)
      PROVE  Sequel'
  <2>1. \A r \in People : Revised(file[s]).reviews[r] \in {Pending, NoSlot}
    BY <1>1 DEF Revised, Sample
  <2> QED BY <1>3, <1>4, <2>1 DEF StartRevision, Reading
<1>5. ASSUME NEW p \in People, NEW s \in Samples, NEW content \in Contents, Edit(p, s, content)
      PROVE  Sequel'
  <2> DEFINE edited == [file[s] EXCEPT !.content = content]
  <2>1. edited.reviews = file[s].reviews
    BY <1>1 DEF Sample
  <2>2. Rewrite(p, s, edited) /\ work[p].pc = "idle" /\ UNCHANGED <<file, ledger, lost>>
    BY <1>5 DEF Edit, Reading
  <2> HIDE DEF edited
  <2> QED BY <1>3, <2>1, <2>2
<1>6. ASSUME StartAssign \/ StartAssemble \/ WriteDataset \/ StartFreeze \/ FreezeDataset
             \/ FreezePlans \/ FreezeLedger \/ FreezeManifest \/ CoordinatorDies
             \/ UNCHANGED vars \/ (\E s \in Samples : ReadSample(s))
      PROVE  Sequel'
  <2>1. UNCHANGED <<file, ledger, work>> /\ lost \subseteq lost'
    BY <1>6 DEF vars, StartAssign, StartAssemble, ReadSample, WriteDataset, StartFreeze,
      FreezeDataset, FreezePlans, FreezeLedger, FreezeManifest, CoordinatorDies
  <2> QED BY <2>1, StaySequel
<1> QED
  BY <1>2, <1>4, <1>5, <1>6, AppendSequel, WriteSequel, DieSequel, AssignSequel DEF Next

\* The latest decision of a reviewer is the one the audit would find.
LEMMA LatestFound ==
  ASSUME NEW s \in Samples, NEW r \in People, NEW sample, NEW slot,
         ledger \in Seq(Row), LatestIs(ledger, s, r, slot), slot.of = Hash(sample)
  PROVE  Latest(s, r, sample) = slot.decision
<1> DEFINE mine == RowsFor(ledger, s, r, Hash(sample))
           last == CHOOSE i \in mine : \A j \in mine : j <= i
<1>1. mine \subseteq Nat
  BY DEF RowsFor
<1>2. PICK i \in mine : ledger[i].decision = slot.decision /\ \A j \in mine : j <= i
  BY DEF LatestIs
<1>3. Latest(s, r, sample) = ledger[last].decision
  BY DEF Latest, RowsFor
<1> HIDE DEF mine
<1>4. last \in mine /\ \A j \in mine : j <= last
  BY <1>2
<1> HIDE DEF last
<1>5. last = i
  BY <1>1, <1>2, <1>4
<1> QED BY <1>2, <1>3, <1>5

\* A sample that passes the audits is approved in the slot of every reviewer.
LEMMA PassingSlots ==
  ASSUME NEW s \in Samples, NEW sample \in Sample, NEW L, Passes(s, sample, L),
         NEW r \in Reviewers(sample)
  PROVE  sample.reviews[r] = [decision |-> "approved", of |-> Hash(sample)]
<1>1. /\ Embedded(sample) = Approvals(s, sample, L)
      /\ sample.author \notin Approvals(s, sample, L)
      /\ Cardinality(Approvals(s, sample, L) \ {sample.author}) = 2
      /\ Cardinality(Reviewers(sample)) = 2
  BY DEF Passes
<1>2. Cardinality(Embedded(sample)) = 2
  <2>1. Approvals(s, sample, L) \ {sample.author} = Approvals(s, sample, L)
    BY <1>1
  <2> QED BY <1>1, <2>1
<1>3. IsFiniteSet(Reviewers(sample))
  <2>1. Reviewers(sample) \in SUBSET People
    BY DEF Reviewers
  <2> QED BY <2>1, PeopleAssumption, FS_Subset
<1>4. Embedded(sample) \in SUBSET Reviewers(sample)
  BY DEF Embedded
<1>5. Embedded(sample) = Reviewers(sample)
  BY <1>1, <1>2, <1>3, <1>4, FS_Subset
<1> QED BY <1>5 DEF Embedded

\* The audit counts an approval that was taken back; in a settled kit there is
\* none to count.
THEOREM NothingTakenBack == Spec => LatestDecisionApproves
<1>1. ASSUME TypeOK, Sequel, StartFreeze, Settled,
             NEW s \in Samples, NEW r \in Reviewers(dataset[s])
      PROVE  Latest(s, r, dataset[s]) = "approved"
  <2>1. /\ r \in People /\ dataset = file /\ lost = {} /\ work[r].pc = "idle"
        /\ file[s] \in Sample /\ ledger \in Seq(Row) /\ Passes(s, file[s], ledger)
    BY <1>1 DEF Reviewers, Settled, StartFreeze, Ready, TypeOK
  <2>2. file[s].reviews[r] = [decision |-> "approved", of |-> Hash(file[s])]
    BY <1>1, <2>1, PassingSlots
  <2>3. Decided(file[s].reviews[r]) /\ ~Filling(r, s)
    BY <2>1, <2>2 DEF Decided, Filling
  <2>4. LatestIs(ledger, s, r, file[s].reviews[r])
    BY <1>1, <2>1, <2>3 DEF Sequel, SlotsFollow
  <2>5. /\ file[s].reviews[r].of = Hash(file[s])
        /\ file[s].reviews[r].decision = "approved"
    BY <2>2
  <2> QED BY <2>1, <2>4, <2>5, LatestFound
<1>2. TypeOK /\ Sequel /\ [Next]_vars =>
        [(StartFreeze /\ Settled) =>
           \A s \in Samples : \A r \in Reviewers(dataset[s]) :
             Latest(s, r, dataset[s]) = "approved"]_vars
  BY <1>1
<1> QED
  BY <1>2, InitTypes, StepTypes, InitSequel, StepSequel, PTL DEF Spec, LatestDecisionApproves
=============================================================================
