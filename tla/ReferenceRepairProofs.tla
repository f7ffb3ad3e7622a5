----------------------- MODULE ReferenceRepairProofs -----------------------
(***************************************************************************)
(* Proofs about ReferenceRepair: the types, that the outcome of a batch    *)
(* does not depend on the order of its diagnostics, that what a repair     *)
(* puts in collides with nothing in an accepted plan, that the traces      *)
(* tell exactly what was changed and what of it succeeded, and the         *)
(* measure by which a repair ends.                                         *)
(***************************************************************************)
EXTENDS ReferenceRepair, FiniteSetTheorems, TLAPS

-----------------------------------------------------------------------------
(* Lemmas about the operators *)

\* The places a reference depends on are in the plan.
LEMMA Nested ==
  ASSUME NEW pl, WellFormed(pl), NEW p \in DOMAIN pl
  PROVE  /\ p \in Place
         /\ Context(p) \subseteq DOMAIN pl
         /\ KeyPlace(p) \subseteq DOMAIN pl
  BY DEF WellFormed

\* A replacement is a reference the resolver knows, and never the one it
\* replaces.
LEMMA FixIsKnown ==
  ASSUME NEW pl, WellFormed(pl), NEW p \in Fixable(pl)
  PROVE  /\ Fix(pl, p) \in Known(pl, p)
         /\ Fix(pl, p) # pl[p]
         /\ Fix(pl, p) \in Refs
         /\ p.part \in {"collection", "selector", "table", "source", "target", "constant", "cell"}
<1>1. Fix(pl, p) \in Fixes(pl, p)
  BY DEF Fixable, Fix
<1>2. /\ Fix(pl, p) \in Candidates(pl, p)
      /\ p.part \in {"collection", "selector", "table", "source", "target", "constant", "cell"}
  BY <1>1 DEF Fixes, Matching
<1>3. Fix(pl, p) \in Known(pl, p)
  BY <1>2, CandidatesAssumption DEF Candidates, Known
<1>4. Fix(pl, p) # pl[p]
  BY <1>3 DEF Fixable, Unknown, Bad
<1>5. \A q \in Context(p) : pl[q] \in Known(pl, q)
  BY DEF Fixable, Unknown, Reached, Bad
<1>6. ASSUME p.part \in {"collection", "selector", "table"} PROVE Fix(pl, p) \in Refs
  BY <1>3, <1>6, CandidatesAssumption DEF Known
<1>7. ASSUME p.part = "source" PROVE Fix(pl, p) \in Refs
  <2>1. pl[Top(p, "collection")] \in DOMAIN CollectionOf
    BY <1>5, <1>7 DEF Context, Known, Top
  <2> QED
    BY <1>3, <1>7, <2>1, CandidatesAssumption DEF Known
<1>8. ASSUME p.part \in {"target", "constant", "cell"} PROVE Fix(pl, p) \in Refs
  <2>1. pl[Top(p, "table")] \in DOMAIN TableOf
    BY <1>5, <1>8 DEF Context, Known, Top
  <2> QED
    BY <1>3, <1>8, <2>1, CandidatesAssumption DEF Known
<1> QED
  BY <1>2, <1>3, <1>4, <1>6, <1>7, <1>8

-----------------------------------------------------------------------------
(* Types *)

\* Before the plan is resolved nothing is repaired, and no outcome is marked
\* before the batch is over.
Typed ==
  /\ TypeOK
  /\ phase = "predicted" => applied = {} /\ copy = plan
  /\ phase \in {"predicted", "repairing"} => succeeded = {} /\ chosen = {}

\* The types, and what each phase has not done yet.
LEMMA TypedHolds == Spec => []Typed
<1>1. Init => Typed
  BY PlansAssumption DEF Init, Typed, TypeOK, WellFormed
<1>2. Typed /\ [Next]_vars => Typed'
  <2> SUFFICES ASSUME Typed, [Next]_vars PROVE Typed'
    OBVIOUS
  <2> USE DEF Typed, TypeOK
  <2>0. plan \in [DOMAIN plan -> Refs]
    BY DEF WellFormed
  <2>1. CASE Resolve
    BY <2>1 DEF Resolve
  <2>2. ASSUME NEW p \in DOMAIN plan, Repair(p) PROVE Typed'
    <3>1. CASE p \notin Fixable(plan)
      BY <2>2, <3>1 DEF Repair
    <3>2. CASE p \in Fixable(plan) /\ Collides(copy, p, Fix(plan, p))
      BY <2>0, <2>2, <3>2 DEF Repair
    <3>3. CASE p \in Fixable(plan) /\ ~Collides(copy, p, Fix(plan, p))
      <4>1. Fix(plan, p) \in Refs
        BY <3>3, FixIsKnown
      <4> QED
        BY <2>2, <3>3, <4>1 DEF Repair
    <3> QED
      BY <3>1, <3>2, <3>3
  <2>3. CASE Revalidate
    BY <2>3 DEF Revalidate, BatchDone
  <2>4. CASE SelectEvidence
    <3>1. PICK p \in Rejected(plan), e \in Evidence :
            copy' = [plan EXCEPT ![p] = e] /\ chosen' = {p}
      BY <2>4 DEF SelectEvidence
    <3>2. p \in EvidencePlaces(plan) /\ e \in Refs
      BY CandidatesAssumption DEF Rejected, EvidencePlaces
    <3> QED
      BY <2>0, <2>4, <3>1, <3>2 DEF SelectEvidence
  <2>5. CASE GiveUp
    BY <2>5 DEF GiveUp
  <2>6. CASE CheckSelected
    BY <2>6 DEF CheckSelected
  <2>7. CASE PassBoundary
    BY <2>7 DEF PassBoundary
  <2>8. CASE TrimEvidence
    <3>1. PICK p \in Overlong(copy), e \in Evidence :
            copy' = [copy EXCEPT ![p] = e] /\ chosen' = {p}
      BY <2>8 DEF TrimEvidence
    <3>2. p \in EvidencePlaces(plan) /\ e \in Refs
      BY CandidatesAssumption DEF Overlong, EvidencePlaces
    <3> QED
      BY <2>8, <3>1, <3>2 DEF TrimEvidence
  <2>9. CASE CheckTrimmed
    BY <2>0, <2>9 DEF CheckTrimmed
  <2>10. CASE UNCHANGED vars
    BY <2>10 DEF vars
  <2> QED
    BY <2>1, <2>2, <2>3, <2>4, <2>5, <2>6, <2>7, <2>8, <2>9, <2>10 DEF Next
<1> QED
  BY <1>1, <1>2, PTL DEF Spec

\* Types and bounds hold in every reachable state.
THEOREM TypesHold == Spec => []TypeOK
<1>1. Typed => TypeOK
  BY DEF Typed
<1> QED
  BY <1>1, TypedHolds, PTL

-----------------------------------------------------------------------------
(* The batch of F *)

\* Two references that cannot both be used: the same, or two names of a field.
Same(pl, p, r, s) ==
  \/ s = r
  \/ /\ p.part = "source"
     /\ s \in DOMAIN Fields(pl, p)
     /\ Fields(pl, p)[s] = Fields(pl, p)[r]

\* The plan with some of its references replaced.
Partly(pl, S) == [q \in DOMAIN pl |-> IF q \in S THEN Fix(pl, q) ELSE pl[q]]

\* Rivals are rivals of each other, and choose from one closed set.
LEMMA RivalsAreAlike ==
  ASSUME NEW pl, WellFormed(pl), NEW p \in DOMAIN pl, NEW q \in Rivals(pl, p)
  PROVE  /\ q \in DOMAIN pl
         /\ p \in Rivals(pl, q)
         /\ p.part = "source" <=> q.part = "source"
         /\ Fields(pl, p) = Fields(pl, q)
         /\ Known(pl, p) = Known(pl, q)
<1>1. /\ q \in DOMAIN pl /\ p \in Rivals(pl, q)
      /\ p.group = q.group
      /\ p.part = "source" <=> q.part = "source"
      /\ p.part \in {"source", "target", "constant", "cell"}
      /\ q.part \in {"source", "target", "constant", "cell"}
  BY DEF Rivals
<1>2. \A part : Top(p, part) = Top(q, part)
  BY <1>1 DEF Top
<1>3. Fields(pl, p) = Fields(pl, q)
  BY <1>2 DEF Fields
<1>4. Known(pl, p) = Known(pl, q)
  BY <1>1, <1>2 DEF Known
<1> QED
  BY <1>1, <1>3, <1>4

\* A repair does not change the closed set of another.
LEMMA ContextIsKept ==
  ASSUME NEW pl, WellFormed(pl), NEW S \in SUBSET Fixable(pl),
         NEW p \in Fixable(pl)
  PROVE  p.part = "source" => Fields(Partly(pl, S), p) = Fields(pl, p)
<1> SUFFICES ASSUME p.part = "source"
             PROVE  Fields(Partly(pl, S), p) = Fields(pl, p)
  OBVIOUS
<1> DEFINE c == Top(p, "collection")
<1>1. p \in DOMAIN pl /\ ~Bad(pl, c) /\ c \in DOMAIN pl
  BY Nested DEF Fixable, Unknown, Reached, Context
<1>2. c \notin S
  BY <1>1 DEF Fixable, Unknown
<1> QED
  BY <1>1, <1>2 DEF Fields, Partly

\* What has still to be repaired is unknown, hence in nobody's way: a
\* replacement collides in a copy repaired in part just when it collides with
\* what is not to be repaired, or is repaired already.
LEMMA CollisionIsFinal ==
  ASSUME NEW pl, WellFormed(pl), NEW S \in SUBSET Fixable(pl),
         NEW p \in Fixable(pl)
  PROVE  Collides(Partly(pl, S), p, Fix(pl, p)) <=>
           \E q \in Rivals(pl, p) : /\ q \notin Fixable(pl) \ S
                                    /\ Same(pl, p, Fix(pl, p), Replaced(pl)[q])
<1>1. p \in DOMAIN pl
  BY DEF Fixable, Unknown
<1>2. Rivals(Partly(pl, S), p) = Rivals(pl, p)
  BY DEF Rivals, Partly
<1>3. Collides(Partly(pl, S), p, Fix(pl, p)) <=>
        \E q \in Rivals(pl, p) : Same(pl, p, Fix(pl, p), Partly(pl, S)[q])
  BY <1>2, ContextIsKept DEF Collides, Same
<1>4. ASSUME NEW q \in Rivals(pl, p), q \notin Fixable(pl) \ S
      PROVE  Partly(pl, S)[q] = Replaced(pl)[q]
  BY <1>1, <1>4, RivalsAreAlike DEF Partly, Replaced
<1>5. ASSUME NEW q \in Rivals(pl, p), q \in Fixable(pl) \ S
      PROVE  ~Same(pl, p, Fix(pl, p), Partly(pl, S)[q])
  <2>1. Partly(pl, S)[q] = pl[q]
    BY <1>1, <1>5, RivalsAreAlike DEF Partly
  <2>2. pl[q] \notin Known(pl, p) /\ Fix(pl, p) \in Known(pl, p)
    BY <1>1, <1>5, RivalsAreAlike, FixIsKnown DEF Fixable, Unknown, Bad
  <2>3. p.part = "source" => Known(pl, p) = DOMAIN Fields(pl, p)
    BY DEF Known, Fields
  <2> QED
    BY <2>1, <2>2, <2>3 DEF Same
<1> QED
  BY <1>3, <1>4, <1>5

\* Two replacements collide with each other, whichever is made first.
LEMMA SameIsSymmetric ==
  ASSUME NEW pl, WellFormed(pl), NEW p \in Fixable(pl), NEW q \in Rivals(pl, p),
         q \in Fixable(pl), Same(pl, p, Fix(pl, p), Fix(pl, q))
  PROVE  Same(pl, q, Fix(pl, q), Fix(pl, p))
<1>1. p \in DOMAIN pl
  BY DEF Fixable, Unknown
<1>2. Fix(pl, p) \in Known(pl, q)
  BY <1>1, RivalsAreAlike, FixIsKnown
<1>3. q.part = "source" => Known(pl, q) = DOMAIN Fields(pl, q)
  BY DEF Known, Fields
<1> QED
  BY <1>1, <1>2, <1>3, RivalsAreAlike DEF Same

\* All replacements made are the replaced plan.
LEMMA AllAtOnce == \A pl : Partly(pl, Fixable(pl)) = Replaced(pl)
  BY DEF Partly, Replaced

\* A batch either was rolled back, for a collision that every order would
\* meet, or has made the replacements it looked at and found no collision
\* with anything that is not still to be looked at.
RolledBack ==
  /\ todo = {} /\ applied = {} /\ copy = plan
  /\ \E p \in Fixable(plan) : Collides(Replaced(plan), p, Fix(plan, p))

Underway ==
  /\ copy = Partly(plan, applied)
  /\ applied = Fixable(plan) \ todo
  /\ \A p \in applied : \A q \in Rivals(plan, p) :
       q \in Fixable(plan) \cap todo \/ ~Same(plan, p, Fix(plan, p), Replaced(plan)[q])

Batch == phase = "repairing" => RolledBack \/ Underway

\* No replacement made is the plan.
LEMMA NothingYet == ASSUME NEW pl, WellFormed(pl) PROVE Partly(pl, {}) = pl
  BY DEF Partly, WellFormed

\* One diagnostic looked at: replaced, left alone, or the batch rolled back.
LEMMA RepairKeepsBatch ==
  ASSUME Typed, Batch, NEW p \in DOMAIN plan, Repair(p)
  PROVE  Batch'
<1> USE DEF Typed, TypeOK
<1>1. Underway /\ p \in todo /\ plan' = plan
  BY DEF Batch, RolledBack, Repair
<1>2. CASE p \notin Fixable(plan)
  BY <1>1, <1>2 DEF Repair, Underway, Batch
<1>3. CASE p \in Fixable(plan) /\ Collides(copy, p, Fix(plan, p))
  <2>1. \E q \in Rivals(plan, p) : Same(plan, p, Fix(plan, p), Replaced(plan)[q])
    BY <1>1, <1>3, CollisionIsFinal DEF Underway
  <2>2. Collides(Replaced(plan), p, Fix(plan, p))
    BY <2>1, <1>3, CollisionIsFinal, AllAtOnce
  <2>3. RolledBack'
    BY <1>1, <1>3, <2>2 DEF Repair, RolledBack
  <2> QED
    BY <2>3 DEF Batch
<1>4. CASE p \in Fixable(plan) /\ ~Collides(copy, p, Fix(plan, p))
  <2>1. /\ copy' = [copy EXCEPT ![p] = Fix(plan, p)]
        /\ applied' = applied \cup {p}
        /\ todo' = todo \ {p}
    BY <1>4 DEF Repair
  <2>2. copy' = Partly(plan, applied')
    BY <1>1, <2>1 DEF Underway, Partly
  <2>3. applied' = Fixable(plan) \ todo'
    BY <1>1, <1>4, <2>1 DEF Underway
  <2>4. ASSUME NEW q \in Rivals(plan, p), q \notin Fixable(plan) \cap todo
        PROVE  ~Same(plan, p, Fix(plan, p), Replaced(plan)[q])
    <3>1. copy = Partly(plan, applied) /\ q \notin Fixable(plan) \ applied
      BY <1>1, <2>4 DEF Underway
    <3> QED
      BY <1>4, <3>1, CollisionIsFinal
  <2>5. ASSUME NEW o \in applied, NEW q \in Rivals(plan, o), q \notin Fixable(plan) \cap todo'
        PROVE  ~Same(plan, o, Fix(plan, o), Replaced(plan)[q])
    <3>1. CASE q # p
      BY <1>1, <2>1, <2>5, <3>1 DEF Underway
    <3>2. CASE q = p
      <4>1. o \in Rivals(plan, p) /\ o \notin Fixable(plan) \cap todo /\ o \in Fixable(plan)
            /\ p \in Rivals(plan, o)
        BY <2>5, <3>2, RivalsAreAlike DEF Fixable, Unknown
      <4>2. Replaced(plan)[o] = Fix(plan, o) /\ Replaced(plan)[p] = Fix(plan, p)
        BY <1>4, <4>1 DEF Replaced, Fixable, Unknown
      <4>3. ~Same(plan, p, Fix(plan, p), Fix(plan, o))
        BY <2>4, <4>1, <4>2
      <4> QED
        BY <1>4, <3>2, <4>1, <4>2, <4>3, SameIsSymmetric
    <3> QED
      BY <3>1, <3>2
  <2>6. \A o \in applied' : \A q \in Rivals(plan, o) :
          q \in Fixable(plan) \cap todo' \/ ~Same(plan, o, Fix(plan, o), Replaced(plan)[q])
    <3>1. p \notin Rivals(plan, p)
      BY DEF Rivals
    <3> QED
      BY <2>1, <2>4, <2>5, <3>1
  <2> QED
    BY <1>1, <2>2, <2>3, <2>6 DEF Batch, Underway
<1> QED
  BY <1>2, <1>3, <1>4

\* So a batch is always rolled back or underway.
LEMMA BatchHolds == Spec => []Batch
<1>1. Init => Batch
  BY DEF Init, Batch
<1>2. Typed /\ Batch /\ [Next]_vars => Batch'
  <2> SUFFICES ASSUME Typed, Batch, [Next]_vars PROVE Batch'
    OBVIOUS
  <2>1. CASE Resolve
    <3>1. phase' = "repairing" => /\ copy' = copy /\ copy = plan /\ plan' = plan
                                  /\ applied' = {} /\ todo' = Unknown(plan)
      BY <2>1 DEF Resolve, Typed
    <3>2. Fixable(plan) \subseteq Unknown(plan) /\ Partly(plan, {}) = plan
      BY NothingYet DEF Fixable, Typed, TypeOK
    <3> QED
      BY <3>1, <3>2 DEF Batch, Underway
  <2>2. ASSUME NEW p \in DOMAIN plan, Repair(p) PROVE Batch'
    BY <2>2, RepairKeepsBatch
  <2>3. CASE Revalidate \/ SelectEvidence \/ GiveUp
    BY <2>3 DEF Revalidate, SelectEvidence, GiveUp, Batch
  <2>4. CASE CheckSelected \/ PassBoundary \/ TrimEvidence \/ CheckTrimmed
    BY <2>4 DEF CheckSelected, PassBoundary, TrimEvidence, CheckTrimmed, Batch
  <2>5. CASE UNCHANGED vars
    BY <2>5 DEF vars, Batch, RolledBack, Underway
  <2> QED
    BY <2>1, <2>2, <2>3, <2>4, <2>5 DEF Next
<1> QED
  BY <1>1, <1>2, TypedHolds, PTL DEF Spec

\* What a batch ends with does not depend on the order of its diagnostics.
LEMMA BatchOutcome ==
  ASSUME Typed, Batch, BatchDone
  PROVE  IF \E p \in Fixable(plan) : Collides(Replaced(plan), p, Fix(plan, p))
           THEN copy = plan /\ applied = {}
           ELSE copy = Replaced(plan) /\ applied = Fixable(plan)
<1>1. CASE RolledBack
  BY <1>1 DEF RolledBack
<1>2. CASE Underway
  <2>1. applied = Fixable(plan) /\ copy = Replaced(plan)
    BY <1>2, AllAtOnce DEF Underway, BatchDone
  <2>2. ASSUME NEW p \in Fixable(plan) PROVE ~Collides(Replaced(plan), p, Fix(plan, p))
    BY <1>2, <2>1, CollisionIsFinal, AllAtOnce DEF Underway, BatchDone, Typed, TypeOK
  <2> QED
    BY <2>1, <2>2
<1> QED
  BY <1>1, <1>2 DEF Batch, BatchDone

\* The outcome of a batch is that of making all its replacements at once,
\* whatever the order of its diagnostics.
THEOREM OrderDoesNotMatter == Spec => []BatchIsOrderFree
<1>1. Typed /\ Batch => BatchIsOrderFree
  BY BatchOutcome DEF BatchIsOrderFree
<1> QED
  BY <1>1, TypedHolds, BatchHolds, PTL

-----------------------------------------------------------------------------
(* Traces *)

\* Only the evidence repairs have chosen anything, and they run last.
Traced ==
  /\ ChangesAreTraced
  /\ phase \in {"predicted", "repairing", "materialized"} => chosen = {}

\* F touches no evidence.
LEMMA AppliedIsNoEvidence ==
  ASSUME Typed
  PROVE  applied \cap EvidencePlaces(plan) = {}
  BY FixIsKnown DEF Typed, TypeOK, EvidencePlaces

\* Within a batch the copy differs from the plan where F has replaced only.
LEMMA UnderwayIsTraced ==
  ASSUME Typed, Batch, phase = "repairing"
  PROVE  Traced
<1>1. chosen = {} /\ applied \subseteq Fixable(plan) /\ WellFormed(plan)
  BY DEF Typed, TypeOK
<1>2. CASE RolledBack
  BY <1>1, <1>2 DEF RolledBack, Traced, ChangesAreTraced
<1>3. CASE Underway
  <2>1. \A p \in DOMAIN plan : copy[p] = IF p \in applied THEN Fix(plan, p) ELSE plan[p]
    BY <1>3 DEF Underway, Partly
  <2>2. \A p \in applied : p \in DOMAIN plan /\ Fix(plan, p) # plan[p]
    BY <1>1, FixIsKnown DEF Fixable, Unknown
  <2> QED
    BY <1>1, <2>1, <2>2 DEF Traced, ChangesAreTraced
<1> QED
  BY <1>2, <1>3 DEF Batch

\* The plan only ever differs from the one predicted where a repair says so.
LEMMA TracedHolds == Spec => []Traced
<1>1. Init => Traced
  BY DEF Init, Traced, ChangesAreTraced
<1>2. Typed /\ Typed' /\ Batch /\ Batch' /\ Traced /\ [Next]_vars => Traced'
  <2> SUFFICES ASSUME Typed, Typed', Batch, Batch', Traced, [Next]_vars PROVE Traced'
    OBVIOUS
  <2>0. copy \in [DOMAIN plan -> Refs] /\ plan \in [DOMAIN plan -> Refs]
    BY DEF Typed, TypeOK, WellFormed
  <2>1. CASE Resolve
    BY <2>1 DEF Resolve, Traced, ChangesAreTraced
  <2>2. ASSUME NEW p \in DOMAIN plan, Repair(p) PROVE Traced'
    <3>1. (phase = "repairing")'
      BY <2>2 DEF Repair
    <3> QED
      BY <3>1, UnderwayIsTraced, PTL
  <2>3. CASE Revalidate
    BY <2>3 DEF Revalidate, BatchDone, Traced, ChangesAreTraced
  <2>4. CASE SelectEvidence
    <3>1. PICK p \in Rejected(plan), e \in Evidence :
            /\ Replaces(plan, Rejected(plan), LaterDates, p, e)
            /\ copy' = [plan EXCEPT ![p] = e]
            /\ chosen' = {p}
      BY <2>4 DEF SelectEvidence
    <3>2. p \in DOMAIN plan /\ plan[p] \in Evidence
      BY DEF Rejected, Resolved, Bad, Known
    <3>3. e # plan[p]
      BY <3>1, <3>2, CandidatesAssumption DEF Replaces
    <3> QED
      BY <2>0, <2>4, <3>1, <3>2, <3>3 DEF SelectEvidence, Traced, ChangesAreTraced
  <2>5. CASE GiveUp
    BY <2>5 DEF GiveUp, Traced, ChangesAreTraced
  <2>6. CASE CheckSelected \/ PassBoundary
    BY <2>6 DEF CheckSelected, PassBoundary, Traced, ChangesAreTraced
  <2>7. CASE TrimEvidence
    <3>1. PICK p \in Overlong(copy), e \in Evidence :
            /\ Replaces(copy, Overlong(copy), Trimmed, p, e)
            /\ copy' = [copy EXCEPT ![p] = e]
            /\ chosen' = {p}
      BY <2>7 DEF TrimEvidence
    <3>2. p \in DOMAIN plan /\ p \in EvidencePlaces(plan) /\ copy[p] \in Evidence
      BY <2>0 DEF Overlong, EvidencePlaces
    <3>3. e # copy[p]
      BY <3>1, <3>2, CandidatesAssumption DEF Replaces
    <3>4. chosen = {} /\ copy[p] = plan[p]
      BY <2>7, <3>2, AppliedIsNoEvidence DEF TrimEvidence, Traced, ChangesAreTraced
    <3>5. \A q \in DOMAIN plan : copy'[q] = IF q = p THEN e ELSE copy[q]
      BY <2>0, <3>1, <3>2
    <3>6. plan' = plan /\ applied' = applied /\ phase' = "trimmed"
      BY <2>7 DEF TrimEvidence
    <3> QED
      BY <3>1, <3>2, <3>3, <3>4, <3>5, <3>6 DEF Traced, ChangesAreTraced
  <2>8. CASE CheckTrimmed
    <3>1. CASE Diagnostics(copy) = {} /\ Overlong(copy) = {}
      BY <2>8, <3>1 DEF CheckTrimmed, Traced, ChangesAreTraced
    <3>2. CASE ~(Diagnostics(copy) = {} /\ Overlong(copy) = {})
      <4>1. /\ copy' = [p \in DOMAIN plan |-> IF p \in chosen THEN plan[p] ELSE copy[p]]
            /\ chosen' = {} /\ plan' = plan /\ applied' = applied /\ phase' = "rejected"
        BY <2>8, <3>2 DEF CheckTrimmed
      <4>2. chosen \cap applied = {}
        BY AppliedIsNoEvidence DEF Typed, TypeOK
      <4> QED
        BY <4>1, <4>2 DEF Traced, ChangesAreTraced
    <3> QED
      BY <3>1, <3>2
  <2>9. CASE UNCHANGED vars
    BY <2>9 DEF vars, Traced, ChangesAreTraced
  <2> QED
    BY <2>1, <2>2, <2>3, <2>4, <2>5, <2>6, <2>7, <2>8, <2>9 DEF Next
<1> QED
  BY <1>1, <1>2, TypedHolds, BatchHolds, PTL DEF Spec

\* A place has another reference than was predicted exactly when a trace says
\* so, and at most one evidence is replaced.
THEOREM TracesTellChanges == Spec => []ChangesAreTraced
<1>1. Traced => ChangesAreTraced
  BY DEF Traced
<1> QED
  BY <1>1, TracedHolds, PTL

-----------------------------------------------------------------------------
(* What is accepted *)

\* Repaired assignments and repaired evidence have their place to themselves.
Standing ==
  /\ phase \in {"materialized", "trimmed", "accepted"} =>
       \A p \in applied \cap Assignments(copy) : \A q \in Assignments(copy) \ {p} :
         Means(copy, q) # Means(copy, p)
  /\ phase \in {"reselected", "trimmed", "accepted"} =>
       \A p \in chosen : \A q \in EvidencePlaces(copy) \ {p} : copy[q] # copy[p]
  /\ phase = "reselected" => applied = {}

\* Assignments that mean the same are rivals.
LEMMA AlikeAreRivals ==
  ASSUME NEW pl, NEW p \in Assignments(pl), NEW q \in Assignments(pl), p # q,
         Means(pl, q) = Means(pl, p)
  PROVE  /\ q \in Rivals(pl, p)
         /\ p.part # "source" => pl[q] = pl[p]
         /\ p.part = "source" => Fields(pl, p)[pl[q]] = Fields(pl, p)[pl[p]]
<1>1. q.group = p.group /\ q.row = p.row
  BY DEF Means
<1>2. p.part = "source" <=> q.part = "source"
  BY DEF Means
<1>3. q \in Rivals(pl, p)
  BY <1>1, <1>2 DEF Rivals, Assignments
<1>4. Fields(pl, q) = Fields(pl, p)
  BY <1>1 DEF Fields, Top
<1> QED
  BY <1>2, <1>3, <1>4 DEF Means

\* A plan the resolver has nothing against knows all its source keys.
LEMMA CleanIsKnown ==
  ASSUME NEW pl, NEW p \in DOMAIN pl, p.part = "source",
         Context(p) \subseteq DOMAIN pl, Diagnostics(pl) = {}
  PROVE  pl[p] \in DOMAIN Fields(pl, p)
<1>1. Unknown(pl) = {}
  BY DEF Diagnostics
<1>2. ASSUME NEW q \in Context(p) PROVE ~Bad(pl, q)
  <2>1. q \in DOMAIN pl /\ q.part \in {"collection", "table"}
    BY <1>2 DEF Context, Top
  <2>2. Reached(pl, q)
    BY <2>1 DEF Reached, Context, KeyPlace
  <2> QED
    BY <1>1, <2>1, <2>2 DEF Unknown
<1>3. Reached(pl, p)
  BY <1>2 DEF Reached, KeyPlace
<1> QED
  BY <1>1, <1>3 DEF Unknown, Bad, Known, Fields

\* A batch that is kept puts no two assignments in one another's way.
LEMMA RevalidatedStands ==
  ASSUME Typed, Batch, BatchDone, applied # {}, Diagnostics(copy) = {},
         NEW p \in applied, p \in Assignments(copy), NEW q \in Assignments(copy) \ {p}
  PROVE  Means(copy, q) # Means(copy, p)
<1> SUFFICES ASSUME Means(copy, q) = Means(copy, p) PROVE FALSE
  OBVIOUS
<1>1. /\ copy = Replaced(plan) /\ p \in Fixable(plan)
      /\ ~Collides(copy, p, Fix(plan, p))
  BY BatchOutcome
<1>2. p \in DOMAIN plan /\ copy[p] = Fix(plan, p)
  BY <1>1 DEF Replaced, Fixable, Unknown
<1>3. /\ q \in Rivals(copy, p)
      /\ p.part # "source" => copy[q] = copy[p]
      /\ p.part = "source" => Fields(copy, p)[copy[q]] = Fields(copy, p)[copy[p]]
  BY AlikeAreRivals
<1>4. CASE p.part # "source"
  BY <1>1, <1>2, <1>3, <1>4 DEF Collides
<1>5. CASE p.part = "source"
  <2>1. q \in DOMAIN plan /\ DOMAIN copy = DOMAIN plan /\ WellFormed(plan)
    BY DEF Assignments, Typed, TypeOK
  <2>2. q.part = "source" /\ Fields(copy, q) = Fields(copy, p)
    BY <1>3, <1>5 DEF Rivals, Fields, Top
  <2>3. copy[q] \in DOMAIN Fields(copy, p)
    BY <2>1, <2>2, Nested, CleanIsKnown
  <2> QED
    BY <1>1, <1>2, <1>3, <1>5, <2>3 DEF Collides
<1> QED
  BY <1>4, <1>5

\* Replacing an evidence leaves all other assignments what they are.
LEMMA EvidenceAside ==
  ASSUME Typed, NEW p \in EvidencePlaces(plan), NEW e, NEW new,
         new = [copy EXCEPT ![p] = e]
  PROVE  /\ Assignments(new) = Assignments(copy)
         /\ EvidencePlaces(new) = EvidencePlaces(copy)
         /\ \A q \in Assignments(copy) : Means(new, q) = Means(copy, q)
<1>1. DOMAIN new = DOMAIN copy /\ p.part = "evidence" /\ copy \in [DOMAIN plan -> Refs]
  BY DEF EvidencePlaces, Typed, TypeOK
<1>2. ASSUME NEW q \in Assignments(copy) PROVE Means(new, q) = Means(copy, q)
  <2>1. q # p /\ Top(q, "collection") # p
    BY <1>1 DEF Assignments, Top
  <2>2. \A o \in DOMAIN copy : o # p => new[o] = copy[o]
    BY <1>1
  <2>3. CASE q.part # "source"
    BY <2>1, <2>2, <2>3 DEF Means, Assignments
  <2>4. CASE q.part = "source"
    <3>1. Top(q, "collection") \in DOMAIN copy
      BY <1>1, <2>4, Nested DEF Assignments, Context, Typed, TypeOK
    <3> QED
      BY <2>1, <2>2, <2>4, <3>1 DEF Means, Fields, Assignments
  <2> QED
    BY <2>3, <2>4
<1> QED
  BY <1>1, <1>2 DEF Assignments, EvidencePlaces

\* What F and G repaired stands alone, through every retry and to the end.
LEMMA StandingHolds == Spec => []Standing
<1>1. Init => Standing
  BY DEF Init, Standing
<1>2. Typed /\ Batch /\ Traced /\ Standing /\ [Next]_vars => Standing'
  <2> SUFFICES ASSUME Typed, Batch, Traced, Standing, [Next]_vars PROVE Standing'
    OBVIOUS
  <2>1. CASE Resolve
    BY <2>1 DEF Resolve, Standing, Typed
  <2>2. ASSUME NEW p \in DOMAIN plan, Repair(p) PROVE Standing'
    BY <2>2 DEF Repair, Standing
  <2>3. CASE Revalidate
    <3>1. /\ BatchDone /\ applied # {}
          /\ copy' = copy /\ applied' = applied /\ chosen' = {}
          /\ phase' \in {"rejected", "materialized", "accepted"}
          /\ phase' \in {"materialized", "accepted"} => Diagnostics(copy) = {}
      BY <2>3 DEF Revalidate, BatchDone, Typed
    <3> QED
      BY <3>1, RevalidatedStands DEF Standing
  <2>4. CASE SelectEvidence
    <3>1. PICK p \in Rejected(plan), e \in Evidence :
            /\ Replaces(plan, Rejected(plan), LaterDates, p, e)
            /\ copy' = [plan EXCEPT ![p] = e]
            /\ chosen' = {p}
      BY <2>4 DEF SelectEvidence
    <3>2. plan \in [DOMAIN plan -> Refs] /\ p \in DOMAIN plan
      BY DEF Typed, TypeOK, WellFormed, Rejected
    <3>3. EvidencePlaces(copy') = EvidencePlaces(plan)
      BY <3>1, <3>2 DEF EvidencePlaces
    <3>4. \A q \in EvidencePlaces(copy') \ {p} : copy'[q] # copy'[p]
      BY <3>1, <3>2, <3>3 DEF Replaces, EvidencePlaces
    <3>5. phase' = "reselected" /\ applied' = {}
      BY <2>4 DEF SelectEvidence
    <3> QED
      BY <3>1, <3>4, <3>5 DEF Standing
  <2>5. CASE GiveUp
    BY <2>5 DEF GiveUp, Standing
  <2>6. CASE CheckSelected
    BY <2>6 DEF CheckSelected, Standing
  <2>7. CASE PassBoundary
    BY <2>7 DEF PassBoundary, Standing, Traced
  <2>8. CASE TrimEvidence
    <3>1. PICK p \in Overlong(copy), e \in Evidence :
            /\ Replaces(copy, Overlong(copy), Trimmed, p, e)
            /\ copy' = [copy EXCEPT ![p] = e]
            /\ chosen' = {p}
      BY <2>8 DEF TrimEvidence
    <3>2. copy \in [DOMAIN plan -> Refs] /\ p \in EvidencePlaces(plan) /\ p \in DOMAIN plan
      BY DEF Typed, TypeOK, Overlong, EvidencePlaces
    <3>3. /\ Assignments(copy') = Assignments(copy)
          /\ EvidencePlaces(copy') = EvidencePlaces(copy)
          /\ \A q \in Assignments(copy) : Means(copy', q) = Means(copy, q)
      BY <3>1, <3>2, EvidenceAside
    <3>4. \A q \in EvidencePlaces(copy) \ {p} : copy'[q] # copy'[p]
      BY <3>1, <3>2 DEF Replaces, EvidencePlaces
    <3>5. phase = "materialized" /\ phase' = "trimmed" /\ applied' = applied
      BY <2>8 DEF TrimEvidence
    <3> QED
      BY <3>1, <3>3, <3>4, <3>5 DEF Standing
  <2>9. CASE CheckTrimmed
    BY <2>9 DEF CheckTrimmed, Standing
  <2>10. CASE UNCHANGED vars
    BY <2>10 DEF vars, Standing
  <2> QED
    BY <2>1, <2>2, <2>3, <2>4, <2>5, <2>6, <2>7, <2>8, <2>9, <2>10 DEF Next
<1> QED
  BY <1>1, <1>2, TypedHolds, BatchHolds, TracedHolds, PTL DEF Spec

\* In an accepted plan nothing means what a repaired reference means.
THEOREM NothingIsMerged == Spec => []RepairsStandAlone
<1>1. Standing => RepairsStandAlone
  BY DEF Standing, RepairsStandAlone
<1> QED
  BY <1>1, StandingHolds, PTL

\* On its way to the boundary check of G1 a plan has no diagnostic, and a plan
\* without free text has no evidence.
Clean ==
  /\ AcceptedIsClean
  /\ phase = "materialized" => Diagnostics(copy) = {}

\* Whatever repaired it, a plan is accepted clean.
THEOREM CleanWhenAccepted == Spec => []AcceptedIsClean
<1>1. Init => Clean
  BY DEF Init, Clean, AcceptedIsClean
<1>2. Typed /\ Clean /\ [Next]_vars => Clean'
  <2> SUFFICES ASSUME Typed, Clean, [Next]_vars PROVE Clean'
    OBVIOUS
  <2>0. ~IsFreeText => Overlong(copy) = {}
    <3>1. ASSUME NEW p \in Overlong(copy) PROVE IsFreeText
      <4>1. p \in DOMAIN plan /\ p.part = "evidence"
        BY <3>1 DEF Overlong, EvidencePlaces, Typed, TypeOK
      <4>2. Of(p, "cell") \in DOMAIN plan /\ Of(p, "cell").part = "cell"
        BY <4>1, Nested DEF KeyPlace, Of, Place, Typed, TypeOK
      <4> QED
        BY <4>2 DEF IsFreeText
    <3> QED
      BY <3>1
  <2>1. CASE Resolve
    BY <2>0, <2>1 DEF Resolve, Clean, AcceptedIsClean, Typed
  <2>2. ASSUME NEW p \in DOMAIN plan, Repair(p) PROVE Clean'
    BY <2>2 DEF Repair, Clean, AcceptedIsClean
  <2>3. CASE Revalidate
    BY <2>0, <2>3 DEF Revalidate, Clean, AcceptedIsClean
  <2>4. CASE SelectEvidence \/ GiveUp \/ TrimEvidence
    BY <2>4 DEF SelectEvidence, GiveUp, TrimEvidence, Clean, AcceptedIsClean
  <2>5. CASE CheckSelected
    BY <2>5 DEF CheckSelected, Clean, AcceptedIsClean
  <2>6. CASE PassBoundary
    BY <2>6 DEF PassBoundary, Clean, AcceptedIsClean
  <2>7. CASE CheckTrimmed
    BY <2>7 DEF CheckTrimmed, Clean, AcceptedIsClean
  <2>8. CASE UNCHANGED vars
    BY <2>8 DEF vars, Clean, AcceptedIsClean
  <2> QED
    BY <2>1, <2>2, <2>3, <2>4, <2>5, <2>6, <2>7, <2>8 DEF Next
<1>3. Clean => AcceptedIsClean
  BY DEF Clean
<1> QED
  BY <1>1, <1>2, <1>3, TypedHolds, PTL DEF Spec

-----------------------------------------------------------------------------
(* What a trace may rightly say                                              *)

\* A place keeps the replacement F gave it.
FixesStay == \A p \in applied : copy[p] = Fix(plan, p)

LEMMA FixesStayHolds == Spec => []FixesStay
<1>1. Init => FixesStay
  BY DEF Init, FixesStay
<1>2. Typed /\ Typed' /\ Batch' /\ FixesStay /\ [Next]_vars => FixesStay'
  <2> SUFFICES ASSUME Typed, Typed', Batch', FixesStay, [Next]_vars PROVE FixesStay'
    OBVIOUS
  <2>0. /\ copy \in [DOMAIN plan -> Refs] /\ applied \subseteq Fixable(plan)
        /\ applied \subseteq DOMAIN plan
        /\ applied \cap EvidencePlaces(plan) = {}
    BY AppliedIsNoEvidence DEF Typed, TypeOK, Fixable, Unknown
  <2>1. ASSUME NEW p \in DOMAIN plan, Repair(p) PROVE FixesStay'
    <3>1. phase' = "repairing" /\ plan' = plan
      BY <2>1 DEF Repair
    <3>2. RolledBack' \/ Underway'
      BY <3>1 DEF Batch
    <3>3. CASE RolledBack'
      BY <3>3 DEF RolledBack, FixesStay
    <3>4. CASE Underway'
      <4>1. applied' \subseteq Fixable(plan)
        BY <3>1 DEF Typed, TypeOK
      <4>2. copy' = Partly(plan, applied')
        BY <3>1, <3>4 DEF Underway
      <4>3. \A q \in applied' : q \in DOMAIN plan /\ copy'[q] = Fix(plan, q)
        BY <4>1, <4>2 DEF Partly, Fixable, Unknown
      <4> QED
        BY <3>1, <4>3 DEF FixesStay
    <3> QED
      BY <3>2, <3>3, <3>4
  <2>2. CASE Resolve \/ Revalidate \/ GiveUp \/ CheckSelected \/ PassBoundary
    BY <2>2 DEF Resolve, Revalidate, GiveUp, CheckSelected, PassBoundary, FixesStay
  <2>3. CASE SelectEvidence
    BY <2>3 DEF SelectEvidence, FixesStay
  <2>4. CASE TrimEvidence
    <3>1. PICK p \in EvidencePlaces(plan), e \in Evidence : copy' = [copy EXCEPT ![p] = e]
      BY <2>0, <2>4 DEF TrimEvidence, Overlong, EvidencePlaces
    <3>2. \A q \in applied : copy'[q] = copy[q]
      BY <2>0, <3>1
    <3>3. plan' = plan /\ applied' = applied
      BY <2>4 DEF TrimEvidence
    <3> QED
      BY <3>2, <3>3 DEF FixesStay
  <2>5. CASE CheckTrimmed
    <3>1. \A q \in applied : copy'[q] = copy[q]
      BY <2>0, <2>5 DEF CheckTrimmed, Typed, TypeOK
    <3>2. plan' = plan /\ applied' = applied
      BY <2>5 DEF CheckTrimmed
    <3> QED
      BY <3>1, <3>2 DEF FixesStay
  <2>6. CASE UNCHANGED vars
    BY <2>6 DEF vars, FixesStay
  <2> QED
    BY <2>1, <2>2, <2>3, <2>4, <2>5, <2>6 DEF Next
<1> QED
  BY <1>1, <1>2, TypedHolds, BatchHolds, PTL DEF Spec

\* The true part of what F_METHOD_SPEC.md says of repair_succeeded: a reference
\* a trace says was repaired is one the resolver knows in the repaired plan,
\* where it stands, whatever else the batch replaced and G changed after it.
\* Only for that boundary: it may still be a column no INSERT may assign, which
\* is how SuccessMeansPassed fails.
RepairedResolves == \A p \in applied : Resolved(copy, p)

THEOREM RepairedIsKnown == Spec => []RepairedResolves
<1>1. Typed /\ Traced /\ FixesStay => RepairedResolves
  <2> SUFFICES ASSUME Typed, Traced, FixesStay, NEW p \in applied
               PROVE  Resolved(copy, p)
    BY DEF RepairedResolves
  <2>1. /\ WellFormed(plan) /\ p \in Fixable(plan) /\ p \in DOMAIN plan
        /\ Context(p) \subseteq DOMAIN plan /\ KeyPlace(p) \subseteq DOMAIN plan
        /\ chosen \subseteq EvidencePlaces(plan) /\ applied \subseteq Unknown(plan)
    BY Nested DEF Typed, TypeOK, Fixable, Unknown
  <2>2. \A q \in Context(p) \cup KeyPlace(p) : ~Bad(plan, q) /\ q.part # "evidence"
    BY <2>1 DEF Fixable, Unknown, Reached, Context, KeyPlace, Top, Of, WellFormed, Place
  <2>3. \A q \in Context(p) \cup KeyPlace(p) : copy[q] = plan[q]
    BY <2>1, <2>2 DEF Unknown, Traced, ChangesAreTraced, EvidencePlaces
  <2>4. Known(copy, p) = Known(plan, p)
    <3>1. p.part \in {"collection", "selector", "table", "source", "target", "constant", "cell"}
      BY <2>1, FixIsKnown
    <3>2. p.part = "source" => copy[Top(p, "collection")] = plan[Top(p, "collection")]
      BY <2>3 DEF Context
    <3>3. p.part \in {"target", "constant", "cell"} => copy[Top(p, "table")] = plan[Top(p, "table")]
      BY <2>3 DEF Context
    <3> QED
      BY <3>1, <3>2, <3>3 DEF Known
  <2>5. ~Bad(copy, p)
    BY <2>1, <2>4, FixIsKnown DEF Bad, FixesStay
  <2>6. ASSUME NEW q \in Context(p) PROVE ~Bad(copy, q)
    <3>1. q.part \in {"collection", "table"}
      BY <2>1 DEF Context, Top, WellFormed, Place
    <3> QED
      BY <2>2, <2>3, <3>1 DEF Bad, Known
  <2>7. ASSUME NEW q \in KeyPlace(p) PROVE ~Bad(copy, q)
    <3>1. /\ p \in Place
          /\ \/ q.part = "source" /\ p.part = "target"
             \/ q.part = "cell" /\ p.part = "evidence"
          /\ Top(q, "collection") = Top(p, "collection") /\ Top(q, "table") = Top(p, "table")
      BY <2>1 DEF KeyPlace, Of, Top, WellFormed, Place
    <3>2. Top(p, "table") \in Context(p)
      BY <3>1 DEF Context
    <3>3. q.part = "source" => Top(p, "collection") \in Context(p)
      BY <3>1 DEF Context
    <3>4. Known(copy, q) = Known(plan, q)
      BY <2>3, <3>1, <3>2, <3>3 DEF Known
    <3> QED
      BY <2>2, <2>3, <3>4 DEF Bad
  <2> QED
    BY <2>5, <2>6, <2>7 DEF Resolved, Reached
<1> QED
  BY <1>1, TypedHolds, TracedHolds, FixesStayHolds, PTL

\* What G1 and G2 replaced was evidence.
EvidenceChosen == \A p \in chosen : plan[p] \in Evidence

LEMMA EvidenceChosenHolds == Spec => []EvidenceChosen
<1>1. Init => EvidenceChosen
  BY DEF Init, EvidenceChosen
<1>2. Typed /\ Traced /\ EvidenceChosen /\ [Next]_vars => EvidenceChosen'
  <2> SUFFICES ASSUME Typed, Traced, EvidenceChosen, [Next]_vars PROVE EvidenceChosen'
    OBVIOUS
  <2>1. CASE Resolve \/ Revalidate \/ GiveUp \/ CheckSelected \/ PassBoundary
    BY <2>1 DEF Resolve, Revalidate, GiveUp, CheckSelected, PassBoundary, EvidenceChosen
  <2>2. ASSUME NEW p \in DOMAIN plan, Repair(p) PROVE EvidenceChosen'
    BY <2>2 DEF Repair, EvidenceChosen
  <2>3. CASE SelectEvidence
    <3>1. PICK p \in Rejected(plan) : chosen' = {p} /\ plan' = plan
      BY <2>3 DEF SelectEvidence
    <3>2. plan[p] \in Evidence
      BY DEF Rejected, Resolved, Bad, Known
    <3> QED
      BY <3>1, <3>2 DEF EvidenceChosen
  <2>4. CASE TrimEvidence
    <3>1. PICK p \in Overlong(copy) : chosen' = {p} /\ plan' = plan
      BY <2>4 DEF TrimEvidence
    <3>2. p \in DOMAIN plan /\ p \in EvidencePlaces(plan) /\ copy[p] \in Evidence
      BY DEF Overlong, EvidencePlaces, Typed, TypeOK
    <3>3. copy[p] = plan[p]
      BY <2>4, <3>2, AppliedIsNoEvidence DEF TrimEvidence, Traced, ChangesAreTraced
    <3> QED
      BY <3>1, <3>2, <3>3 DEF EvidenceChosen
  <2>5. CASE CheckTrimmed
    BY <2>5 DEF CheckTrimmed, EvidenceChosen
  <2>6. CASE UNCHANGED vars
    BY <2>6 DEF vars, EvidenceChosen
  <2> QED
    BY <2>1, <2>2, <2>3, <2>4, <2>5, <2>6 DEF Next
<1> QED
  BY <1>1, <1>2, TypedHolds, TracedHolds, PTL DEF Spec

\* The true part of what F_METHOD_SPEC.md says of missing references, and all
\* that MissingIsNotFilled can be refuted by: of the missing references only the
\* empty target of a field is ever filled, where its source key names something
\* and is, as it stands, no column of the table.
OnlyTargetsAreFilled ==
  \A p \in DOMAIN plan :
    plan[p] \in Missing /\ copy[p] # plan[p] =>
      /\ p.part = "target" /\ plan[p] = Blank
      /\ plan[Of(p, "source")] \notin Missing \cup Known(plan, p)

THEOREM FilledFromTheKey == Spec => []OnlyTargetsAreFilled
<1>1. Typed /\ Traced /\ EvidenceChosen => OnlyTargetsAreFilled
  <2> SUFFICES ASSUME Typed, Traced, EvidenceChosen,
                      NEW p \in DOMAIN plan, plan[p] \in Missing, copy[p] # plan[p]
               PROVE  /\ p.part = "target" /\ plan[p] = Blank
                      /\ plan[Of(p, "source")] \notin Missing \cup Known(plan, p)
    BY DEF OnlyTargetsAreFilled
  <2>1. p \in applied \cup chosen
    BY DEF Traced, ChangesAreTraced
  <2>2. p \notin chosen
    BY CandidatesAssumption DEF EvidenceChosen
  <2>3. Fixes(plan, p) # {}
    BY <2>1, <2>2 DEF Typed, TypeOK, Fixable
  <2>4. Raw(plan, p) \notin Missing \cup Candidates(plan, p)
    BY <2>3 DEF Fixes
  <2>5. p.part = "target" /\ plan[p] = Blank
    BY <2>4 DEF Raw
  <2> QED
    BY <2>4, <2>5 DEF Raw, Candidates
<1> QED
  BY <1>1, TypedHolds, TracedHolds, EvidenceChosenHolds, PTL

\* No accepted plan carries a repair its own traces say failed: a retry without
\* diagnostics marks them all, and nothing after it takes a mark away.
AcceptedSucceeded == phase = "accepted" => succeeded = applied

\* Past the retry all marks are set; before it, and on the way of G2, there are none.
Marked ==
  /\ phase \in {"materialized", "trimmed", "accepted"} => succeeded = applied
  /\ phase \in {"predicted", "reselected"} => applied = {}

THEOREM AcceptedHasSucceeded == Spec => []AcceptedSucceeded
<1>1. Init => Marked
  BY DEF Init, Marked
<1>2. Typed /\ Marked /\ [Next]_vars => Marked'
  <2> SUFFICES ASSUME Typed, Marked, [Next]_vars PROVE Marked'
    OBVIOUS
  <2>0. succeeded \subseteq applied
    BY DEF Typed, TypeOK
  <2>1. CASE Resolve
    BY <2>0, <2>1 DEF Resolve, Marked
  <2>2. ASSUME NEW p \in DOMAIN plan, Repair(p) PROVE Marked'
    BY <2>2 DEF Repair, Marked
  <2>3. CASE Revalidate
    <3>1. CASE Diagnostics(copy) # {}
      BY <2>3, <3>1 DEF Revalidate, Marked
    <3>2. CASE Diagnostics(copy) = {}
      <4>1. succeeded' = applied /\ applied' = applied
        BY <2>3, <3>2 DEF Revalidate
      <4>2. phase' \in {"materialized", "accepted"}
        BY <2>3, <3>2 DEF Revalidate
      <4> QED
        BY <4>1, <4>2 DEF Marked
    <3> QED
      BY <3>1, <3>2
  <2>4. CASE SelectEvidence
    BY <2>4 DEF SelectEvidence, Marked
  <2>5. CASE GiveUp
    BY <2>5 DEF GiveUp, Marked
  <2>6. CASE CheckSelected
    BY <2>0, <2>6 DEF CheckSelected, Marked
  <2>7. CASE PassBoundary
    BY <2>7 DEF PassBoundary, Marked
  <2>8. CASE TrimEvidence
    BY <2>8 DEF TrimEvidence, Marked
  <2>9. CASE CheckTrimmed
    BY <2>9 DEF CheckTrimmed, Marked
  <2>10. CASE UNCHANGED vars
    BY <2>10 DEF vars, Marked
  <2> QED
    BY <2>1, <2>2, <2>3, <2>4, <2>5, <2>6, <2>7, <2>8, <2>9, <2>10 DEF Next
<1>3. Marked => AcceptedSucceeded
  BY DEF Marked, AcceptedSucceeded
<1> QED
  BY <1>1, <1>2, <1>3, TypedHolds, PTL DEF Spec

-----------------------------------------------------------------------------
(* The end of a repair                                                       *)

\* How many more phases a plan may go through, and diagnostics to look at.
PhasesLeft ==
  CASE phase = "predicted" -> 4
    [] phase = "repairing" -> 3
    [] phase = "materialized" -> 2
    [] phase \in {"reselected", "trimmed"} -> 1
    [] OTHER -> 0
ToLookAt == IF phase = "predicted" THEN Unknown(plan) ELSE todo
Left == PhasesLeft + Cardinality(ToLookAt)
LessLeft == Left \in Nat /\ Left' \in Nat /\ Left' < Left

\* Numbers: both parts of the measure go down or stay, one goes down.
LEMMA Descends ==
  ASSUME NEW a \in Nat, NEW b \in Nat, NEW c \in Nat, NEW d \in Nat,
         c <= a, d <= b, c < a \/ d < b
  PROVE  a + b \in Nat /\ c + d \in Nat /\ c + d < a + b
OBVIOUS

\* The diagnostics are finitely many.
LEMMA FewDiagnostics == TypeOK => IsFiniteSet(ToLookAt) /\ Cardinality(ToLookAt) \in Nat
<1> SUFFICES ASSUME TypeOK PROVE IsFiniteSet(ToLookAt)
  BY FS_CardinalityType
<1>1. IsFiniteSet(DOMAIN plan) /\ ToLookAt \subseteq DOMAIN plan
  BY DEF TypeOK, WellFormed, ToLookAt, Unknown
<1> QED
  BY <1>1, FS_Subset

\* Every step leaves less to do: a plan, whatever is wrong with it, is looked at
\* once per diagnostic, retried once per repair method, and then decided.
THEOREM EveryStepCounts == Spec => [][LessLeft]_vars
<1> DEFINE Few == IsFiniteSet(ToLookAt) /\ Cardinality(ToLookAt) \in Nat
<1>1. TypeOK /\ TypeOK' /\ Few /\ Few' /\ [Next]_vars => [LessLeft]_vars
  <2> SUFFICES ASSUME TypeOK, TypeOK', Few, Few', Next PROVE LessLeft
    OBVIOUS
  <2>0. PhasesLeft \in Nat /\ PhasesLeft' \in Nat
    BY DEF PhasesLeft
  <2>1. ASSUME ToLookAt' \subseteq ToLookAt, PhasesLeft' < PhasesLeft PROVE LessLeft
    <3>1. Cardinality(ToLookAt') <= Cardinality(ToLookAt)
      BY <2>1, FS_Subset
    <3> QED
      BY <2>0, <2>1, <3>1, Descends DEF LessLeft, Left
  <2>2. ASSUME NEW p \in DOMAIN plan, Repair(p) PROVE LessLeft
    <3>1. ToLookAt = todo /\ ToLookAt' = todo'
      BY <2>2 DEF Repair, ToLookAt
    <3>2. todo' \subseteq todo /\ todo' # todo
      BY <2>2 DEF Repair
    <3>3. Cardinality(ToLookAt') < Cardinality(ToLookAt)
      <4>1. Cardinality(ToLookAt') <= Cardinality(ToLookAt)
        BY <3>1, <3>2, FS_Subset
      <4>2. Cardinality(ToLookAt') # Cardinality(ToLookAt)
        BY <3>1, <3>2, FS_Subset
      <4> QED
        BY <4>1, <4>2
    <3>4. PhasesLeft' = PhasesLeft
      BY <2>2 DEF Repair, PhasesLeft
    <3> QED
      BY <2>0, <3>3, <3>4, Descends DEF LessLeft, Left
  <2>3. CASE Resolve
    <3>1. phase = "predicted" /\ phase' \in {"materialized", "accepted", "repairing"}
      BY <2>3 DEF Resolve
    <3>2. PhasesLeft' < PhasesLeft
      BY <3>1 DEF PhasesLeft
    <3>3. todo' = Unknown(plan) \/ todo' = todo
      BY <2>3 DEF Resolve
    <3>4. todo \subseteq Unknown(plan)
      BY DEF TypeOK
    <3> QED
      BY <2>1, <3>1, <3>2, <3>3, <3>4 DEF ToLookAt
  <2>4. ASSUME phase \in {"repairing", "materialized", "reselected", "trimmed"}, todo' = todo,
               PhasesLeft' < PhasesLeft, phase' # "predicted"
        PROVE  LessLeft
    BY <2>1, <2>4 DEF ToLookAt
  <2>5. CASE Revalidate
    <3>1. phase = "repairing" /\ phase' \in {"rejected", "materialized", "accepted"} /\ todo' = todo
      BY <2>5 DEF Revalidate, BatchDone
    <3> QED
      BY <2>4, <3>1 DEF PhasesLeft
  <2>6. CASE SelectEvidence \/ GiveUp
    <3>1. phase = "repairing" /\ phase' \in {"reselected", "rejected"} /\ todo' = todo
      BY <2>6 DEF SelectEvidence, GiveUp, BatchDone
    <3> QED
      BY <2>4, <3>1 DEF PhasesLeft
  <2>7. CASE CheckSelected \/ CheckTrimmed
    <3>1. /\ phase \in {"reselected", "trimmed"}
          /\ phase' \in {"accepted", "rejected"} /\ todo' = todo
      BY <2>7 DEF CheckSelected, CheckTrimmed
    <3> QED
      BY <2>4, <3>1 DEF PhasesLeft
  <2>8. CASE PassBoundary \/ TrimEvidence
    <3>1. /\ phase = "materialized"
          /\ phase' \in {"trimmed", "accepted", "rejected"} /\ todo' = todo
      BY <2>8 DEF PassBoundary, TrimEvidence
    <3> QED
      BY <2>4, <3>1 DEF PhasesLeft
  <2> QED
    BY <2>2, <2>3, <2>5, <2>6, <2>7, <2>8 DEF Next
<1>2. TypeOK => Few
  BY FewDiagnostics
<1>3. Typed => TypeOK
  BY DEF Typed
<1> HIDE DEF Few
<1> QED
  BY <1>1, <1>2, <1>3, TypedHolds, PTL DEF Spec
=============================================================================
