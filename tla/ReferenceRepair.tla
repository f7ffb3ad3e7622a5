-------------------------- MODULE ReferenceRepair --------------------------
(***************************************************************************)
(* vnext/reference_repair.py (Stage2-F) and vnext/targeted_repair.py       *)
(* (Stage2-G) as pipeline.py runs them: a predicted plan names             *)
(* collections, tables, columns and evidence by reference, the resolver    *)
(* rejects the references it does not know, and a bounded repair replaces  *)
(* some of them before the one retry.                                      *)
(*                                                                         *)
(* A plan is a function from its places, the positions that hold a         *)
(* reference, to references.  In a mapping plan an entry of field_mapping  *)
(* is two places, its key ("source") and its value ("target"), and a       *)
(* constant is one ("constant"), its key.  In a free-text plan a cell of a *)
(* row is two places, its key ("cell") and the evidence it copies.         *)
(* A place keeps its identity when a repair renames the key it stands for, *)
(* so that an assignment overwritten by another is seen.                   *)
(***************************************************************************)
EXTENDS Naturals, FiniteSets

CONSTANTS
  Plans,         \* the predicted plans
  Refs, Blank,   \* references; Blank is the empty one
  Spaces,        \* references of white space only
  CollectionOf,  \* collection named by a reference: by its id and by its name
  CollectionIds, \* those of them that are ids
  SelectorOf,    \* collection whose selector a reference names
  FieldOf,       \* per collection, the field a reference (id or name) means
  TableOf,       \* table named by a reference
  ColumnsOf,     \* per table, the references of its columns
  Insertable,    \* column references an INSERT may assign
  PolicyOf,      \* per table, the conflict targets and update columns it has
  Evidence,      \* references of the spans found in the request
  Untimely,      \* those whose slot asks for a date, and which are none
  LaterDates,    \* per untimely span, the dates G2 may put in its place
  Trimmed,       \* per span, the spans one terminal punctuation shorter
  NameOf,        \* identifier named by a candidate, for those that have one
  KeyOf          \* identifier a reference spells once quotes, prefix and case go

Parts == {"collection", "selector", "table", "source", "target", "constant",
          "policy", "cell", "evidence"}
Place == [group : Nat, part : Parts, row : Nat, entry : Nat]

Of(p, part) == [p EXCEPT !.part = part]
Top(p, part) == [group |-> p.group, part |-> part, row |-> 0, entry |-> 0]

\* The references that give a place its closed set, and the key it stands under.
Context(p) ==
  CASE p.part \in {"source", "target"} -> {Top(p, "collection"), Top(p, "table")}
    [] p.part \in {"constant", "policy", "cell", "evidence"} -> {Top(p, "table")}
    [] OTHER -> {}

KeyPlace(p) ==
  CASE p.part = "target" -> {Of(p, "source")}
    [] p.part = "evidence" -> {Of(p, "cell")}
    [] OTHER -> {}

\* A plan has the references its references depend on, and the keys of a
\* JSON object differ.
WellFormed(pl) ==
  /\ DOMAIN pl \subseteq Place /\ IsFiniteSet(DOMAIN pl)
  /\ pl \in [DOMAIN pl -> Refs]
  /\ \A p \in DOMAIN pl : Context(p) \cup KeyPlace(p) \subseteq DOMAIN pl
  /\ \A p, q \in DOMAIN pl :
       p # q /\ p.part \in {"source", "constant", "cell"} /\ q = [p EXCEPT !.entry = q.entry]
         => pl[p] # pl[q]

ASSUME PlansAssumption == \A pl \in Plans : WellFormed(pl)

\* References that name nothing: the slot that holds one is missing.
Missing == {Blank} \cup Spaces

\* A field may have any name, the other candidates are enumerated.
ASSUME CandidatesAssumption ==
  /\ DOMAIN CollectionOf \cup DOMAIN SelectorOf \cup DOMAIN TableOf \cup Evidence
       \subseteq Refs \ Missing
  /\ CollectionIds \subseteq DOMAIN CollectionOf
  /\ \A r \in DOMAIN CollectionOf : DOMAIN FieldOf[CollectionOf[r]] \subseteq Refs
  /\ \A r \in DOMAIN TableOf : ColumnsOf[TableOf[r]] \subseteq Refs \ Missing
  /\ \A e \in Evidence : LaterDates[e] \cup Trimmed[e] \subseteq Evidence \ {e}

VARIABLES
  plan,      \* the predicted plan
  copy,      \* the copy that is repaired, resolved and materialized
  phase,     \* how far the pipeline is
  todo,      \* places whose diagnostic the batch has still to look at
  applied,   \* places whose trace says repair_applied
  succeeded, \* places whose trace says repair_succeeded
  chosen     \* places whose evidence G1 or G2 replaced

vars == <<plan, copy, phase, todo, applied, succeeded, chosen>>

-----------------------------------------------------------------------------
(* The resolver *)

\* References the resolver knows at a place of a plan.
Known(pl, p) ==
  CASE p.part = "collection" -> DOMAIN CollectionOf
    [] p.part = "selector" -> DOMAIN SelectorOf
    [] p.part = "table" -> DOMAIN TableOf
    [] p.part = "source" -> DOMAIN FieldOf[CollectionOf[pl[Top(p, "collection")]]]
    [] p.part \in {"target", "constant", "cell"} -> ColumnsOf[TableOf[pl[Top(p, "table")]]]
    [] p.part = "policy" -> PolicyOf[TableOf[pl[Top(p, "table")]]]
    [] p.part = "evidence" -> Evidence

Bad(pl, p) == pl[p] \notin Known(pl, p)

\* An entry is looked at only when its collection and table are known, and
\* what stands under a key only when the key is.
Reached(pl, p) ==
  /\ \A q \in Context(p) : ~Bad(pl, q)
  /\ \A q \in KeyPlace(p) : ~Bad(pl, q)

\* The UNKNOWN_... diagnostics.
Unknown(pl) == {p \in DOMAIN pl : Reached(pl, p) /\ Bad(pl, p)}

Resolved(pl, p) == Reached(pl, p) /\ ~Bad(pl, p)

\* NON_INSERTABLE_COLUMN_ID, which only the resolver of a mapping plan reports.
NonInsertable(pl) ==
  {p \in DOMAIN pl : p.part \in {"target", "constant"} /\ Resolved(pl, p)
                       /\ pl[p] \notin Insertable}

\* SOURCE_REFERENCE_MISMATCH, of a group's collection and its selector.
Mismatched(pl) ==
  {p \in DOMAIN pl : /\ p.part = "selector"
                     /\ Resolved(pl, p) /\ Resolved(pl, Top(p, "collection"))
                     /\ SelectorOf[pl[p]] # CollectionOf[pl[Top(p, "collection")]]}

\* TYPED_NORMALIZATION_REJECTED.
Rejected(pl) == {p \in DOMAIN pl : p.part = "evidence" /\ Resolved(pl, p) /\ pl[p] \in Untimely}

\* What a resolved assignment reads or writes: a field of its group's
\* collection, a column of its group's table.
Fields(pl, p) == FieldOf[CollectionOf[pl[Top(p, "collection")]]]

Assignments(pl) == {p \in DOMAIN pl : p.part \in {"source", "target", "constant", "cell"}}

Means(pl, p) ==
  <<p.group, p.row, IF p.part = "source" THEN <<"field", Fields(pl, p)[pl[p]]>>
                                          ELSE <<"column", pl[p]>>>>

\* The path a diagnostic has: an entry is named by its key.
Key(pl, p) ==
  CASE p.part = "target" -> pl[Of(p, "source")]
    [] p.part = "evidence" -> pl[Of(p, "cell")]
    [] p.part \in {"source", "constant", "cell"} -> pl[p]
    [] OTHER -> Blank

Path(pl, p) ==
  <<p.group, IF p.part = "target" THEN "source" ELSE p.part, p.row, Key(pl, p)>>

Diagnostics(pl) ==
       {[path |-> Path(pl, p), code |-> <<"unknown", p.part>>] : p \in Unknown(pl)}
  \cup {[path |-> Path(pl, p), code |-> <<"non_insertable", p.part>>] : p \in NonInsertable(pl)}
  \cup {[path |-> Path(pl, p), code |-> <<"mismatch", p.part>>] : p \in Mismatched(pl)}
  \cup {[path |-> Path(pl, p), code |-> <<"rejected", p.part>>] : p \in Rejected(pl)}

-----------------------------------------------------------------------------
(* Stage2-F *)

\* The closed set of a diagnostic.
Candidates(pl, p) == IF p.part = "collection" THEN CollectionIds ELSE Known(pl, p)

\* What F takes for the reference that stands in a slot.  For an empty column it
\* is the last segment of the diagnostic's path: of a mapping entry the source
\* key, of a constant the empty key itself.
Raw(pl, p) == IF p.part = "target" /\ pl[p] = Blank THEN pl[Of(p, "source")] ELSE pl[p]

\* Candidates of the name that was written or, when none has it, all of them.
Matching(pl, p) ==
  LET named == {r \in Candidates(pl, p) \cap DOMAIN NameOf : NameOf[r] = KeyOf[Raw(pl, p)]}
  IN  IF named = {} THEN Candidates(pl, p) ELSE named

\* A policy and an evidence reference are protected; nothing is repaired that is
\* taken for missing, or for valid already.
Fixes(pl, p) ==
  {r \in Matching(pl, p) :
     /\ p.part \in {"collection", "selector", "table", "source", "target", "constant", "cell"}
     /\ Raw(pl, p) \notin Missing \cup Candidates(pl, p)
     /\ Matching(pl, p) = {r}}

Fixable(pl) == {p \in Unknown(pl) : Fixes(pl, p) # {}}

Fix(pl, p) == CHOOSE r \in Fixes(pl, p) : TRUE

\* Mutant: constants are left out of the target columns a group assigns.
RivalsOfOnePart(pl, p) ==
  {q \in DOMAIN pl \ {p} : q.group = p.group /\ q.row = p.row /\ q.part = p.part
                             /\ p.part \in {"source", "target", "constant", "cell"}}

\* Places that must not come to mean what a replacement means.
Rivals(pl, p) ==
  {q \in DOMAIN pl \ {p} :
     /\ q.group = p.group
     /\ q.row = p.row
     /\ \E kind \in {{"source"}, {"target", "constant", "cell"}} :
          p.part \in kind /\ q.part \in kind}

\* A source key may be the id or the name of a field: both mean the field.
Collides(pl, p, r) ==
  \E q \in Rivals(pl, p) :
    \/ pl[q] = r
    \/ /\ p.part = "source"
       /\ pl[q] \in DOMAIN Fields(pl, p)
       /\ Fields(pl, p)[pl[q]] = Fields(pl, p)[r]

IsFreeText == \E p \in DOMAIN plan : p.part = "cell"

Resolve ==
  /\ phase = "predicted"
  /\ IF Diagnostics(plan) = {}
       THEN /\ phase' = IF IsFreeText THEN "materialized" ELSE "accepted"
            /\ UNCHANGED todo
       ELSE /\ phase' = "repairing"
            /\ todo' = Unknown(plan)
  /\ UNCHANGED <<plan, copy, applied, succeeded, chosen>>

\* Mutant: a collision leaves out its own replacement and keeps the others.
RepairOthers(p) ==
  /\ phase = "repairing"
  /\ p \in todo
  /\ todo' = todo \ {p}
  /\ IF p \notin Fixable(plan) \/ Collides(copy, p, Fix(plan, p))
       THEN UNCHANGED <<copy, applied>>
       ELSE copy' = [copy EXCEPT ![p] = Fix(plan, p)] /\ applied' = applied \cup {p}
  /\ UNCHANGED <<plan, phase, succeeded, chosen>>

\* Mutant: a rolled back batch keeps its traces.
RepairUnmarked(p) ==
  /\ phase = "repairing"
  /\ p \in todo
  /\ IF p \notin Fixable(plan)
       THEN todo' = todo \ {p} /\ UNCHANGED <<copy, applied>>
     ELSE IF Collides(copy, p, Fix(plan, p))
       THEN todo' = {} /\ copy' = plan /\ UNCHANGED applied
     ELSE /\ todo' = todo \ {p}
          /\ copy' = [copy EXCEPT ![p] = Fix(plan, p)]
          /\ applied' = applied \cup {p}
  /\ UNCHANGED <<plan, phase, succeeded, chosen>>

\* Mutant: a slot that was repaired stays in the batch.
RepairAgain(p) ==
  /\ phase = "repairing"
  /\ p \in todo
  /\ IF p \notin Fixable(plan)
       THEN todo' = todo \ {p} /\ UNCHANGED <<copy, applied>>
     ELSE IF Collides(copy, p, Fix(plan, p))
       THEN todo' = {} /\ copy' = plan /\ applied' = {}
     ELSE /\ copy' = [copy EXCEPT ![p] = Fix(plan, p)]
          /\ applied' = applied \cup {p}
          /\ UNCHANGED todo
  /\ UNCHANGED <<plan, phase, succeeded, chosen>>

\* One diagnostic of the batch.  Its closed set is of the plan as predicted,
\* its collisions are looked for in the copy as repaired so far; a collision
\* undoes the whole batch and ends it.
Repair(p) ==
  /\ phase = "repairing"
  /\ p \in todo
  /\ IF p \notin Fixable(plan)
       THEN todo' = todo \ {p} /\ UNCHANGED <<copy, applied>>
     ELSE IF Collides(copy, p, Fix(plan, p))
       THEN todo' = {} /\ copy' = plan /\ applied' = {}
     ELSE /\ todo' = todo \ {p}
          /\ copy' = [copy EXCEPT ![p] = Fix(plan, p)]
          /\ applied' = applied \cup {p}
  /\ UNCHANGED <<plan, phase, succeeded, chosen>>

BatchDone == phase = "repairing" /\ todo = {}

\* The one retry.  A trace is marked succeeded unless its path has its own
\* diagnostic again.
Revalidate ==
  /\ BatchDone
  /\ applied # {}
  /\ succeeded' =
       {p \in applied :
          [path |-> Path(plan, p), code |-> <<"unknown", p.part>>] \notin Diagnostics(copy)}
  /\ phase' = CASE Diagnostics(copy) # {} -> "rejected"
                [] Diagnostics(copy) = {} /\ IsFreeText -> "materialized"
                [] OTHER -> "accepted"
  /\ UNCHANGED <<plan, copy, todo, applied, chosen>>

-----------------------------------------------------------------------------
(* Stage2-G, for free text only *)

EvidencePlaces(pl) == {p \in DOMAIN pl : p.part = "evidence"}

\* Slots whose evidence takes a terminal punctuation in.
Overlong(pl) == {p \in EvidencePlaces(pl) : pl[p] \in Evidence /\ Trimmed[pl[p]] # {}}

\* e may replace the evidence of slot p: p alone is diagnosed, e is its only
\* candidate, and no other slot uses e.
Replaces(pl, diagnosed, candidates, p, e) ==
  /\ diagnosed = {p}
  /\ candidates[pl[p]] = {e}
  /\ \A q \in EvidencePlaces(pl) \ {p} : pl[q] # e

\* F changed nothing: G2 may choose another span for a date.
SelectEvidence ==
  /\ BatchDone
  /\ applied = {}
  /\ \E p \in Rejected(plan), e \in Evidence :
       /\ Replaces(plan, Rejected(plan), LaterDates, p, e)
       /\ copy' = [plan EXCEPT ![p] = e]
       /\ chosen' = {p}
  /\ phase' = "reselected"
  /\ UNCHANGED <<plan, todo, applied, succeeded>>

GiveUp ==
  /\ BatchDone
  /\ applied = {}
  /\ \A p \in Rejected(plan), e \in Evidence :
       ~Replaces(plan, Rejected(plan), LaterDates, p, e)
  /\ phase' = "rejected"
  /\ UNCHANGED <<plan, copy, todo, applied, succeeded, chosen>>

\* Mutant: a selected span is not checked for a boundary.
CheckSelectedErrors ==
  /\ phase = "reselected"
  /\ phase' = IF Diagnostics(copy) = {} THEN "accepted" ELSE "rejected"
  /\ UNCHANGED <<plan, copy, todo, applied, succeeded, chosen>>

CheckSelected ==
  /\ phase = "reselected"
  /\ phase' = IF Diagnostics(copy) = {} /\ Overlong(copy) = {} THEN "accepted" ELSE "rejected"
  /\ UNCHANGED <<plan, copy, todo, applied, succeeded, chosen>>

\* G1 looks at every plan that materialized without G2.
PassBoundary ==
  /\ phase = "materialized"
  /\ \A p \in Overlong(copy), e \in Evidence : ~Replaces(copy, Overlong(copy), Trimmed, p, e)
  /\ phase' = IF Overlong(copy) = {} THEN "accepted" ELSE "rejected"
  /\ UNCHANGED <<plan, copy, todo, applied, succeeded, chosen>>

TrimEvidence ==
  /\ phase = "materialized"
  /\ \E p \in Overlong(copy), e \in Evidence :
       /\ Replaces(copy, Overlong(copy), Trimmed, p, e)
       /\ copy' = [copy EXCEPT ![p] = e]
       /\ chosen' = {p}
  /\ phase' = "trimmed"
  /\ UNCHANGED <<plan, todo, applied, succeeded>>

\* A plan that fails again is handed on as it was before G1.
CheckTrimmed ==
  /\ phase = "trimmed"
  /\ IF Diagnostics(copy) = {} /\ Overlong(copy) = {}
       THEN phase' = "accepted" /\ UNCHANGED <<copy, chosen>>
       ELSE /\ phase' = "rejected"
            /\ copy' = [p \in DOMAIN plan |-> IF p \in chosen THEN plan[p] ELSE copy[p]]
            /\ chosen' = {}
  /\ UNCHANGED <<plan, todo, applied, succeeded>>

-----------------------------------------------------------------------------
Init ==
  /\ plan \in Plans
  /\ copy = plan
  /\ phase = "predicted"
  /\ todo = {}
  /\ applied = {}
  /\ succeeded = {}
  /\ chosen = {}

Next ==
  \/ Resolve
  \/ \E p \in DOMAIN plan : Repair(p)
  \/ Revalidate
  \/ SelectEvidence
  \/ GiveUp
  \/ CheckSelected
  \/ PassBoundary
  \/ TrimEvidence
  \/ CheckTrimmed

Spec == Init /\ [][Next]_vars

-----------------------------------------------------------------------------
\* Types; a diagnostic is looked at once, and a replacement comes from the
\* closed set of the plan as predicted.
TypeOK ==
  /\ WellFormed(plan)
  /\ copy \in [DOMAIN plan -> Refs]
  /\ phase \in {"predicted", "repairing", "reselected", "materialized", "trimmed",
                "accepted", "rejected"}
  /\ todo \subseteq Unknown(plan)
  /\ applied \subseteq Fixable(plan) \ todo
  /\ succeeded \subseteq applied
  /\ chosen \subseteq EvidencePlaces(plan)

\* The plan with every reference replaced that can be, all at once.
Replaced(pl) == [p \in DOMAIN pl |-> IF p \in Fixable(pl) THEN Fix(pl, p) ELSE pl[p]]

\* The batch stands or falls as a whole and in whatever order its diagnostics
\* come, hence in whatever order the JSON object of the plan has its keys:
\* either no replacement collides with anything in the plan with all of them
\* made, and that plan is the result, or the result is the plan as predicted
\* (repair_mapping_plan_after_diagnostics, _rollback_batch_after_collision).
BatchIsOrderFree ==
  BatchDone =>
    IF \E p \in Fixable(plan) : Collides(Replaced(plan), p, Fix(plan, p))
      THEN copy = plan /\ applied = {}
      ELSE copy = Replaced(plan) /\ applied = Fixable(plan)

\* In a plan that is accepted, no other assignment of the same group means the
\* field or the column a repaired reference now means, whatever else the batch
\* repaired: neither the resolver nor the materializer, which both keep the
\* last of two, drops an assignment because of it.  And no other slot uses the
\* evidence G1 or G2 put in.
RepairsStandAlone ==
  phase = "accepted" =>
    /\ \A p \in applied \cap Assignments(copy) : \A q \in Assignments(copy) \ {p} :
         Means(copy, q) # Means(copy, p)
    /\ \A p \in chosen : \A q \in EvidencePlaces(copy) \ {p} : copy[q] # copy[p]

\* What the result's places say and what its traces say agree, on every way to
\* a decision: a place has another reference than was predicted exactly when a
\* trace says it was repaired, and G1 and G2 replaced one evidence at most.
ChangesAreTraced ==
  /\ {p \in DOMAIN plan : copy[p] # plan[p]} = applied \cup chosen
  /\ \A p, q \in chosen : p = q

\* Whichever repair a plan went through, what is accepted has no diagnostic of
\* the resolver left, and no overlong evidence.
AcceptedIsClean ==
  phase = "accepted" => Diagnostics(copy) = {} /\ Overlong(copy) = {}

\* F_METHOD_SPEC.md: repair_succeeded becomes true only after the repaired plan
\* passes the same reference boundary for that slot.
SuccessMeansPassed ==
  \A p \in succeeded : p \notin Unknown(copy) \cup NonInsertable(copy)

\* F_METHOD_SPEC.md: a missing reference is not auto-filled, whatever stands
\* around it (attempt_constrained_reference_repair).
MissingIsNotFilled == \A p \in DOMAIN plan : plan[p] \in Missing => copy[p] = plan[p]
=============================================================================
