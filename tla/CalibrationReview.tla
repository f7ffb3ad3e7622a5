------------------------- MODULE CalibrationReview -------------------------
(***************************************************************************)
(* data/authoring.py and data/calibration_freeze.py: people author         *)
(* calibration samples, review them and freeze them.  Every command is a   *)
(* process of its own that reads a JSON file, works on what it read and    *)
(* writes the whole file back; nothing locks the files.                    *)
(*                                                                         *)
(* A coordinator assigns the author and the two reviewers, assembles the   *)
(* sample files into a dataset and freezes it.  The author edits a sample  *)
(* by hand and starts new revisions; a reviewer records decisions, each a  *)
(* row of the review ledger and a slot of the sample file.                 *)
(***************************************************************************)
EXTENDS Integers, Sequences, FiniteSets

CONSTANTS
  Samples,     \* sample ids
  People,      \* who may be author or reviewer
  NoOne,       \* the placeholder author of a new sample
  Contents,    \* what an author may write, 0 for a sample still blank
  Sound,       \* contents the metadata, asset and semantics audits accept
  MaxCommands, \* bound: commands the author and the reviewers start
  MaxAssigns,  \* bound: times the participants are assigned
  MaxCrashes   \* bound: commands that die

ASSUME SamplesAssumption == Samples # {}
ASSUME PeopleAssumption == IsFiniteSet(People) /\ NoOne \notin People
ASSUME ContentsAssumption == 0 \in Contents /\ Sound \subseteq Contents \ {0}
ASSUME BoundsAssumption == MaxCommands \in Nat /\ MaxAssigns \in Nat /\ MaxCrashes \in Nat

VARIABLES
  file,     \* the sample files
  torn,     \* sample files a dying process left cut off: nobody can parse them
  ledger,   \* review_ledger.csv
  work,     \* the command each person is running
  coord,    \* where the coordinator's command is, and what it has still to do
  dataset,  \* the assembled dataset, NoDataset when there is none to parse
  written,  \* files in the output directory
  out,      \* and what they say
  frozen,   \* the manifest is there, complete
  commands, \* commands people started (bounded by MaxCommands)
  assigns,  \* times the participants were assigned (bounded by MaxAssigns)
  crashes,  \* commands that died (bounded by MaxCrashes)
  lost      \* auxiliary: samples of which a command's write was lost

vars == <<file, torn, ledger, work, coord, dataset, written, out,
          frozen, commands, assigns, crashes, lost>>

-----------------------------------------------------------------------------
\* Mutant: the hash leaves out what the author wrote.
HashOfRevision(sample) == <<sample.author, sample.revision, 0>>

\* authored_content_sha256: the author and the revision are hashed too.
Hash(sample) == <<sample.author, sample.revision, sample.content>>

Hashes == (People \cup {NoOne}) \X Nat \X Contents
Slot == [decision : {"none", "pending", "approved", "rejected"}, of : Hashes]

\* Nobody's slot; an assigned reviewer's, or one that a new revision reset.
NoSlot == [decision |-> "none", of |-> <<NoOne, 0, 0>>]
Pending == [decision |-> "pending", of |-> <<NoOne, 0, 0>>]

Sample ==
  [ author   : People \cup {NoOne},
    content  : Contents,
    revision : Nat \ {0},
    status   : {"draft", "authored_pending_review", "approved"},
    reviews  : [People -> Slot] ]

\* A row of the ledger; content is what the hash was taken of.
Row == [sample : Samples, reviewer : People, decision : {"approved", "rejected"},
        of : Hashes, content : Contents]

Reviewers(sample) == {r \in People : sample.reviews[r] # NoSlot}

\* Reviewers whose slot approves what the sample now says.
Embedded(sample) ==
  {r \in Reviewers(sample) : sample.reviews[r] = [decision |-> "approved", of |-> Hash(sample)]}

\* Mutant: a rejection leaves the slot as it was.
RecordedApprovals(sample, r, decision) ==
  LET reviewed == IF decision = "approved"
                  THEN [sample EXCEPT !.reviews[r] = [decision |-> decision, of |-> Hash(sample)]]
                  ELSE sample
  IN  [reviewed EXCEPT !.status = IF Cardinality(Embedded(reviewed)) = 2
                                  THEN "approved" ELSE "authored_pending_review"]

\* Mutant: a rejected sample gets a status of its own.
RecordedRejected(sample, r, decision) ==
  [sample EXCEPT !.reviews[r] = [decision |-> decision, of |-> Hash(sample)],
                 !.status = decision]

\* The sample with a decision recorded in it.
Recorded(sample, r, decision) ==
  LET reviewed == [sample EXCEPT !.reviews[r] = [decision |-> decision, of |-> Hash(sample)]]
  IN  [reviewed EXCEPT !.status = IF Cardinality(Embedded(reviewed)) = 2
                                  THEN "approved" ELSE "authored_pending_review"]

\* The slots are reset, the status is not.
Assigned(sample, author, reviewers) ==
  [sample EXCEPT !.author = author,
                 !.reviews = [r \in People |-> IF r \in reviewers THEN Pending ELSE NoSlot]]

Revised(sample) ==
  [sample EXCEPT !.revision = sample.revision + 1,
                 !.status = "authored_pending_review",
                 !.reviews = [r \in People |->
                   IF r \in Reviewers(sample) THEN Pending ELSE NoSlot]]

-----------------------------------------------------------------------------
(* audit_review_ledger and audit_calibration_authoring_completion.           *)

Rows(L) == {L[i] : i \in DOMAIN L}

\* Any approving row of the current hash counts, whatever came after it.
Approvals(s, sample, L) ==
  {row.reviewer : row \in {w \in Rows(L) : /\ w.sample = s
                                           /\ w.of = Hash(sample)
                                           /\ w.decision = "approved"}}

Passes(s, sample, L) ==
  LET approvals == Approvals(s, sample, L)
  IN  /\ sample.author \notin approvals
      /\ Cardinality(approvals \ {sample.author}) = 2
      /\ Embedded(sample) = approvals
      /\ sample.status = "approved"
      /\ sample.author # NoOne
      /\ Cardinality(Reviewers(sample)) = 2
      /\ sample.content \in Sound

-----------------------------------------------------------------------------
Targets == {"dataset", "plans", "ledger", "manifest"}

Blank == [author |-> NoOne, content |-> 0, revision |-> 1, status |-> "draft",
          reviews |-> [r \in People |-> NoSlot]]

\* No dataset, or one that cannot be parsed: like blank samples, it cannot pass.
NoDataset == [s \in Samples |-> Blank]

\* What the locals of a command hold outside of any.
Idle == [pc |-> "idle", sample |-> CHOOSE s \in Samples : TRUE, read |-> Blank,
         value |-> Blank, decision |-> "none"]
Resting == [pc |-> "idle", todo |-> {}, seen |-> {}, got |-> NoDataset,
            team |-> [author |-> NoOne, reviewers |-> {}]]

Init ==
  /\ file = [s \in Samples |-> Blank]
  /\ torn = {}
  /\ ledger = <<>>
  /\ work = [p \in People |-> Idle]
  /\ coord = Resting
  /\ dataset = NoDataset
  /\ written = {}
  /\ out = [dataset |-> NoDataset, plans |-> [s \in Samples |-> 0], ledger |-> <<>>]
  /\ frozen = FALSE
  /\ commands = 0
  /\ assigns = 0
  /\ crashes = 0
  /\ lost = {}

-----------------------------------------------------------------------------
(* The author and the reviewers.  A command reads the sample file, and later *)
(* writes back what it made of it.                                           *)

Reading(p, s) ==
  /\ work[p].pc = "idle"
  /\ s \in Samples \ torn
  /\ commands < MaxCommands
  /\ commands' = commands + 1

\* record_calibration_review: every check, then the decision.
StartRecord(p, s, decision) ==
  /\ Reading(p, s)
  /\ p # file[s].author
  /\ file[s].content # 0
  /\ p \in Reviewers(file[s])
  /\ work' = [work EXCEPT ![p] =
       [pc |-> "append", sample |-> s, read |-> file[s],
        value |-> Recorded(file[s], p, decision), decision |-> decision]]
  /\ UNCHANGED <<file, torn, ledger, coord, dataset, written, out,
                 frozen, assigns, crashes, lost>>

\* Mutant: the sample file is written first and the ledger after it.
AppendAndWrite(p) ==
  /\ work[p].pc = "append"
  /\ file' = [file EXCEPT ![work[p].sample] = work[p].value]
  /\ work' = [work EXCEPT ![p].pc = "write"]
  /\ UNCHANGED <<torn, ledger, coord, dataset, written, out,
                 frozen, commands, assigns, crashes, lost>>

\* The row is in the ledger before the decision is in the sample file.
AppendLedger(p) ==
  /\ work[p].pc = "append"
  /\ ledger' = Append(ledger,
       [sample |-> work[p].sample, reviewer |-> p, decision |-> work[p].decision,
        of |-> Hash(work[p].read), content |-> work[p].read.content])
  /\ work' = [work EXCEPT ![p].pc = "write"]
  /\ UNCHANGED <<file, torn, coord, dataset, written, out, frozen,
                 commands, assigns, crashes, lost>>

Rewrite(p, s, value) ==
  work' = [work EXCEPT ![p] = [pc |-> "write", sample |-> s, read |-> file[s],
                               value |-> value, decision |-> "none"]]

StartRevision(p, s) ==
  /\ Reading(p, s)
  /\ p = file[s].author
  /\ Rewrite(p, s, Revised(file[s]))
  /\ UNCHANGED <<file, torn, ledger, coord, dataset, written, out,
                 frozen, assigns, crashes, lost>>

\* The author's text editor.
Edit(p, s, content) ==
  /\ Reading(p, s)
  /\ p = file[s].author
  /\ content \notin {0, file[s].content}
  /\ Rewrite(p, s, [file[s] EXCEPT !.content = content])
  /\ UNCHANGED <<file, torn, ledger, coord, dataset, written, out,
                 frozen, assigns, crashes, lost>>

\* The whole file is replaced, with whatever others wrote since it was read.
WriteBack(p) ==
  LET w == work[p]
  IN  /\ w.pc = "write"
      /\ file' = [file EXCEPT ![w.sample] = w.value]
      /\ torn' = torn \ {w.sample}
      /\ lost' = IF file[w.sample] = w.read THEN lost ELSE lost \cup {w.sample}
      /\ work' = [work EXCEPT ![p] = Idle]
      /\ UNCHANGED <<ledger, coord, dataset, written, out, frozen, commands, assigns, crashes>>

\* A command dies between two steps, or in the middle of writing the file.  One
\* that dies before it wrote anything might as well not have been started.
Die(p) ==
  LET w == work[p]
  IN  /\ w.pc = "write"
      /\ crashes < MaxCrashes
      /\ crashes' = crashes + 1
      /\ work' = [work EXCEPT ![p] = Idle]
      /\ torn' \in {torn, torn \cup {w.sample}}
      /\ lost' = lost \cup {w.sample}
      /\ UNCHANGED <<file, ledger, coord, dataset, written, out, frozen, commands, assigns>>

-----------------------------------------------------------------------------
(* The coordinator runs one command at a time.                               *)

\* assign_calibration_participants: three distinct people, for every sample.
StartAssign ==
  /\ coord.pc = "idle"
  /\ assigns < MaxAssigns
  /\ assigns' = assigns + 1
  /\ \E author \in People, reviewers \in SUBSET People :
       /\ Cardinality(reviewers) = 2
       /\ author \notin reviewers
       /\ coord' = [Resting EXCEPT !.pc = "assign", !.todo = Samples,
                                  !.team = [author |-> author, reviewers |-> reviewers]]
  /\ UNCHANGED <<file, torn, ledger, work, dataset, written, out,
                 frozen, commands, crashes, lost>>

\* assemble_calibration_samples.
StartAssemble ==
  /\ coord.pc = "idle"
  /\ coord' = [Resting EXCEPT !.pc = "assemble", !.todo = Samples]
  /\ UNCHANGED <<file, torn, ledger, work, dataset, written, out,
                 frozen, commands, assigns, crashes, lost>>

\* The next sample file is read; both commands fail on one they cannot parse.
ReadSample(s) ==
  /\ coord.pc \in {"assign", "assemble"}
  /\ s \in coord.todo \ coord.seen
  /\ coord.pc = "assign" => coord.seen = {}
  /\ coord' = IF s \in torn THEN Resting
              ELSE [coord EXCEPT !.seen = @ \cup {s}, !.got[s] = file[s]]
  /\ UNCHANGED <<file, torn, ledger, work, dataset, written, out,
                 frozen, commands, assigns, crashes, lost>>

\* A sample file is written back with the team in it.
AssignSample(s) ==
  /\ coord.pc = "assign"
  /\ s \in coord.seen
  /\ file' = [file EXCEPT ![s] =
       Assigned(coord.got[s], coord.team.author, coord.team.reviewers)]
  /\ torn' = torn \ {s}
  /\ lost' = IF file[s] = coord.got[s] THEN lost ELSE lost \cup {s}
  /\ coord' = IF coord.todo = {s} THEN Resting
              ELSE [coord EXCEPT !.todo = @ \ {s}, !.seen = {}, !.got = NoDataset]
  /\ UNCHANGED <<ledger, work, dataset, written, out, frozen, commands, assigns, crashes>>

WriteDataset ==
  /\ coord.pc = "assemble"
  /\ coord.seen = Samples
  /\ dataset' = coord.got
  /\ coord' = Resting
  /\ UNCHANGED <<file, torn, ledger, work, written, out, frozen, commands, assigns, crashes, lost>>

-----------------------------------------------------------------------------
(* freeze_calibration_authoring.                                             *)

\* evaluate_calibration_freeze_readiness loads the dataset and reads the ledger
\* as it is now; an issue raises ValueError.
Ready == \A s \in Samples : Passes(s, dataset[s], ledger)

\* Mutant: only the manifest is looked for.
StartFreezeOverPartial ==
  /\ coord.pc = "idle"
  /\ Ready
  /\ "manifest" \notin written
  /\ coord' = [Resting EXCEPT !.pc = "dataset", !.got = dataset]
  /\ UNCHANGED <<file, torn, ledger, work, dataset, written, out, frozen,
                 commands, assigns, crashes, lost>>

\* Any file of a freeze in the output directory raises FileExistsError.
StartFreeze ==
  /\ coord.pc = "idle"
  /\ Ready
  /\ written = {}
  /\ coord' = [Resting EXCEPT !.pc = "dataset", !.got = dataset]
  /\ UNCHANGED <<file, torn, ledger, work, dataset, written, out, frozen,
                 commands, assigns, crashes, lost>>

\* dataset.json from a second load of the dataset, and the ids.
FreezeDataset ==
  /\ coord.pc = "dataset"
  /\ coord' = [coord EXCEPT !.pc = "plans"]
  /\ written' = written \cup {"dataset"}
  /\ out' = [out EXCEPT !.dataset = dataset]
  /\ UNCHANGED <<file, torn, ledger, work, dataset, frozen, commands, assigns, crashes, lost>>

\* The plans were made by the audit, from the first load.
FreezePlans ==
  /\ coord.pc = "plans"
  /\ coord' = [coord EXCEPT !.pc = "ledger"]
  /\ written' = written \cup {"plans"}
  /\ out' = [out EXCEPT !.plans = [s \in Samples |-> coord.got[s].content]]
  /\ UNCHANGED <<file, torn, ledger, work, dataset, frozen, commands, assigns, crashes, lost>>

\* The ledger as it is by now, and the reserved databases.
FreezeLedger ==
  /\ coord.pc = "ledger"
  /\ coord' = [coord EXCEPT !.pc = "manifest"]
  /\ written' = written \cup {"ledger"}
  /\ out' = [out EXCEPT !.ledger = ledger]
  /\ UNCHANGED <<file, torn, ledger, work, dataset, frozen, commands, assigns, crashes, lost>>

FreezeManifest ==
  /\ coord.pc = "manifest"
  /\ coord' = Resting
  /\ written' = written \cup {"manifest"}
  /\ frozen' = TRUE
  /\ UNCHANGED <<file, torn, ledger, work, dataset, out, commands, assigns, crashes, lost>>

\* The coordinator's command dies; the file it was writing may be cut off.
CoordinatorDies ==
  /\ coord.seen # {} \/ coord.pc \in Targets
  /\ crashes < MaxCrashes
  /\ crashes' = crashes + 1
  /\ coord' = Resting
  /\ IF coord.pc = "assign"
       THEN /\ torn' \in {torn, torn \cup coord.seen}
            /\ lost' = lost \cup coord.seen
       ELSE UNCHANGED <<torn, lost>>
  /\ dataset' \in IF coord.pc = "assemble" THEN {dataset, NoDataset} ELSE {dataset}
  /\ written' \in {written} \cup {written \cup {f} : f \in {coord.pc} \cap Targets}
  /\ UNCHANGED <<file, ledger, work, out, frozen, commands, assigns>>

Next ==
  \/ \E p \in People, s \in Samples :
       \/ \E decision \in {"approved", "rejected"} : StartRecord(p, s, decision)
       \/ StartRevision(p, s)
       \/ \E content \in Contents : Edit(p, s, content)
  \/ \E p \in People : AppendLedger(p) \/ WriteBack(p) \/ Die(p)
  \/ StartAssign \/ StartAssemble
  \/ \E s \in Samples : ReadSample(s) \/ AssignSample(s)
  \/ WriteDataset
  \/ StartFreeze \/ FreezeDataset \/ FreezePlans
  \/ FreezeLedger \/ FreezeManifest \/ CoordinatorDies

Spec == Init /\ [][Next]_vars

-----------------------------------------------------------------------------
Datasets == [Samples -> Sample]

Command == [pc : {"idle", "append", "write"}, sample : Samples, read : Sample,
            value : Sample, decision : {"approved", "rejected", "none"}]

Coordinator ==
  [pc : {"idle", "assign", "assemble"} \cup Targets,
   todo : SUBSET Samples, seen : SUBSET Samples, got : Datasets,
   team : [author : People \cup {NoOne}, reviewers : SUBSET People]]

Output == [dataset : Datasets, plans : [Samples -> Contents], ledger : Seq(Row)]

TypeOK ==
  /\ file \in [Samples -> Sample]
  /\ torn \subseteq Samples
  /\ ledger \in Seq(Row)
  /\ work \in [People -> Command]
  /\ \A p \in People : work[p].pc = "append" => work[p].decision # "none"
  /\ coord \in Coordinator
  /\ dataset \in Datasets
  /\ written \subseteq Targets
  /\ out \in Output
  /\ frozen \in BOOLEAN
  /\ commands \in 0..MaxCommands
  /\ assigns \in 0..MaxAssigns
  /\ crashes \in 0..MaxCrashes
  /\ lost \subseteq Samples

\* Every approval in a sample has its row in a ledger.
Backed(s, sample, L) ==
  \A r \in Reviewers(sample) :
    sample.reviews[r].decision = "approved" =>
      \E row \in Rows(L) : /\ row.sample = s /\ row.reviewer = r
                           /\ row.decision = "approved"
                           /\ row.of = sample.reviews[r].of

\* An approval in a sample file is in the ledger: a command that dies between
\* the two leaves the ledger ahead of the file, never behind it.
ApprovalHasEvidence == \A s \in Samples : Backed(s, file[s], ledger)

\* Two people other than its author approved a sample, at its revision and with
\* its content.
ApprovedByTwo(s, sample, L) ==
  \E r1, r2 \in People \ {sample.author} :
    /\ r1 # r2
    /\ \A r \in {r1, r2} : \E row \in Rows(L) :
         /\ row.sample = s /\ row.reviewer = r /\ row.decision = "approved"
         /\ row.of[2] = sample.revision
         /\ row.content = sample.content

\* "Both reviewers must approve the same current revision and authored-content
\* hash": what is frozen was approved by two people as it is frozen, the frozen
\* ledger says so, and the frozen plans are of the same content.
FrozenIsApproved ==
  frozen => \A s \in Samples :
    /\ ApprovedByTwo(s, out.dataset[s], out.ledger)
    /\ out.plans[s] = out.dataset[s].content

\* Files of a freeze stay as they were first written.
FrozenFilesStay ==
  [][/\ written \subseteq written'
     /\ \A f \in written \ {"manifest"} : out'[f] = out[f]]_vars

\* No command is in progress, none ever lost its write, and the dataset is what
\* the sample files say.
Settled ==
  /\ \A p \in People : work[p].pc = "idle"
  /\ lost = {}
  /\ dataset = file

Latest(s, r, sample) ==
  LET mine == {i \in DOMAIN ledger : /\ ledger[i].sample = s
                                     /\ ledger[i].reviewer = r
                                     /\ ledger[i].of = Hash(sample)}
  IN  ledger[CHOOSE i \in mine : \A j \in mine : j <= i].decision

\* The audit counts an approval that its reviewer has since taken back.  In a
\* settled kit that changes nothing: what is admitted to a freeze has for latest
\* decision of each reviewer an approval.
LatestDecisionApproves ==
  [][(StartFreeze /\ Settled) =>
       \A s \in Samples : \A r \in Reviewers(dataset[s]) :
         Latest(s, r, dataset[s]) = "approved"]_vars
=============================================================================
