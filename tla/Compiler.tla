------------------------------ MODULE Compiler ------------------------------
(***************************************************************************)
(* compiler/compiler.py: how a materialized Write Plan becomes a program.  *)
(* The plan is its write groups are put in an order in which     *)
(* every parent precedes its children (Kahn's algorithm over the declared  *)
(* dependencies and the foreign keys), each group is turned into one       *)
(* INSERT per row shape, and the status of the program is decided.         *)
(*                                                                         *)
(* A group is known by its position in write_groups; its group_id, table   *)
(* and row shapes are data of the plan.  What the verifier finds in one    *)
(* group is the set plan.ok, what it finds in the plan as a whole          *)
(* (unresolved fields, source row coverage) is plan.clean.                 *)
(***************************************************************************)
EXTENDS Integers, Sequences, FiniteSets

CONSTANTS
  N,       \* the number of positions in write_groups
  Ids,     \* group ids
  Tables,  \* table names
  Shapes,  \* column lists a row may have
  Plans    \* the plans a behaviour may start from

Positions == 1..N

PlanType ==
  [ groups : SUBSET Positions,            \* the groups of the plan
    gid    : [Positions -> Ids],
    table  : [Positions -> Tables],
    rows   : [Positions -> Seq(Shapes)],  \* the shape of every row
    deps   : SUBSET (Ids \X Ids),         \* <<before, after>>
    fk     : SUBSET (Tables \X Tables),   \* <<parent, child>> of the schema
    ok     : SUBSET Positions,            \* groups verified without an error
    clean  : BOOLEAN,                     \* no plan-level verifier error
    raises : SUBSET Positions ]           \* groups whose values cannot be built

ASSUME NAssumption == N \in Nat
\* The verifier refuses a group without rows (MISSING_ROWS).
ASSUME PlansAssumption ==
  /\ Plans \subseteq PlanType
  /\ \A q \in Plans : \A p \in q.ok : q.rows[p] # <<>>

Modes == {"strict", "best_effort", "verified"}

VARIABLES
  plan,        \* the plan being compiled
  mode,        \* compile_write_plan (strict or best effort) or compile_verified_plan
  pc,          \* where the compiler is
  errors,      \* whether `errors' is non-empty
  indegree,    \* per group id, unplaced groups that must come before it
  ready,       \* ids of indegree 0, kept sorted by position in the code
  ordered,     \* the order built so far
  compiled,    \* how many groups of `ordered' have statements
  statements,  \* the program: its group and the rows it inserts, per statement
  status       \* the status of the CompiledProgram, "none" while compiling

vars == <<plan, mode, pc, errors, indegree, ready, ordered, compiled,
          statements, status>>

-----------------------------------------------------------------------------
Nodes == {plan.gid[p] : p \in plan.groups}

\* `position' and `by_id' are dicts filled in list order: the last group with
\* an id is the one both speak of.
Position(g) ==
  CHOOSE p \in plan.groups :
    /\ plan.gid[p] = g
    /\ \A q \in plan.groups : plan.gid[q] = g => q <= p

\* The two groups write to tables of which one references the other.
References(p, c) ==
  /\ <<plan.table[p], plan.table[c]>> \in plan.fk
  /\ plan.table[p] # plan.table[c]

\* Mutant: the child is put before its parent.
FkEdgesReversed ==
  {e \in Nodes \X Nodes : \E p, c \in plan.groups :
     References(p, c) /\ e = <<plan.gid[c], plan.gid[p]>>}

FkEdges ==
  {e \in Nodes \X Nodes : \E p, c \in plan.groups :
     References(p, c) /\ e = <<plan.gid[p], plan.gid[c]>>}

\* add_edge: no edge from a group to itself, no edge twice.
Edges == {e \in plan.deps \cup FkEdges : e[1] # e[2]}

\* Mutant: a foreign key extends the adjacency and not the count.
IndegreeDeclaredOnly(g) == Cardinality({b \in Nodes : <<b, g>> \in plan.deps \ {<<g, g>>}})

\* Mutant: an edge both declared and implied by a foreign key counts twice.
IndegreeTwice(g) ==
  LET in(E) == Cardinality({b \in Nodes \ {g} : <<b, g>> \in E})
  IN  in(plan.deps) + in(FkEdges)

Indegree(g) == Cardinality({b \in Nodes : <<b, g>> \in Edges})

\* Some group of C precedes each group of C: a cycle runs through C.
Closed(C, E) == C # {} /\ \A x \in C : \E y \in C : <<y, x>> \in E

UniqueIds == \A p, q \in plan.groups : plan.gid[p] = plan.gid[q] => p = q

\* _verify_dependencies: every id is known and the depth-first search finds no
\* cycle (a dependency of a group on itself counts as one).
DependenciesVerify ==
  /\ plan.deps \subseteq Nodes \X Nodes
  /\ ~ \E C \in SUBSET Nodes : Closed(C, plan.deps)

\* verify_write_plan: valid when no check recorded an error.
PlanVerifies ==
  /\ plan.groups # {}
  /\ plan.groups \subseteq plan.ok
  /\ UniqueIds
  /\ plan.clean
  /\ DependenciesVerify

\* _group_shapes: the rows of one shape, shapes in the order they first occur.
FirstRows(rows) == {i \in DOMAIN rows : \A j \in 1..(i - 1) : rows[j] # rows[i]}

NthShape(rows, k) ==
  rows[CHOOSE i \in FirstRows(rows) :
         Cardinality({h \in FirstRows(rows) : h <= i}) = k]

GroupShapes(rows) ==
  [k \in 1..Cardinality(FirstRows(rows)) |->
     {j \in DOMAIN rows : rows[j] = NthShape(rows, k)}]

\* _compile_group: one INSERT per shape, all of its rows in one VALUES list.
GroupStatements(g) ==
  LET shapes == GroupShapes(plan.rows[Position(g)])
  IN  [k \in DOMAIN shapes |-> [group |-> g, rows |-> shapes[k]]]

-----------------------------------------------------------------------------
Init ==
  /\ plan \in Plans
  /\ mode \in Modes
  /\ mode = "verified" => PlanVerifies
  /\ pc = "verify"
  /\ errors = FALSE
  /\ indegree = <<>>
  /\ ready = {}
  /\ ordered = <<>>
  /\ compiled = 0
  /\ statements = <<>>
  /\ status = "none"

\* A plan that verifies goes on as the verifier normalized it.
AcceptPlan ==
  /\ pc = "verify"
  /\ PlanVerifies
  /\ pc' = "graph"
  /\ UNCHANGED <<plan, mode, errors, indegree, ready, ordered, compiled,
                 statements, status>>

\* Strict compilation of a plan that does not verify: no statement at all.
RejectPlan ==
  /\ pc = "verify"
  /\ mode = "strict"
  /\ ~PlanVerifies
  /\ errors' = TRUE
  /\ status' = "error"
  /\ pc' = "done"
  /\ UNCHANGED <<plan, mode, indegree, ready, ordered, compiled,
                 statements>>

\* _best_effort_groups: each group is verified alone, the others are dropped
\* with their errors, and so are the plan's dependencies.
KeepValidGroups ==
  /\ pc = "verify"
  /\ mode = "best_effort"
  /\ ~PlanVerifies
  /\ plan' = [plan EXCEPT !.groups = plan.groups \cap plan.ok, !.deps = {}]
  /\ errors' = ~(plan.groups \subseteq plan.ok)
  /\ pc' = "graph"
  /\ UNCHANGED <<mode, indegree, ready, ordered, compiled,
                 statements, status>>

BuildGraph ==
  /\ pc = "graph"
  /\ indegree' = [g \in Nodes |-> Indegree(g)]
  /\ ready' = {g \in Nodes : Indegree(g) = 0}
  /\ pc' = "order"
  /\ UNCHANGED <<plan, mode, errors, ordered, compiled, statements,
                 status>>

\* Mutant: children are appended to the ready list, which is not sorted again.
AnyReady(g) == g \in ready

\* ready.pop(0) of the list sorted by position.
FirstReady(g) == g \in ready /\ \A h \in ready : Position(g) <= Position(h)

\* One turn of the loop: the first ready group in plan order is placed and the
\* groups that only waited for it become ready.
PlaceGroup ==
  /\ pc = "order"
  /\ \E g \in Nodes :
       LET children == {c \in Nodes : <<g, c>> \in Edges}
       IN  /\ FirstReady(g)
           /\ ordered' = Append(ordered, g)
           /\ indegree' = [c \in Nodes |->
                             IF c \in children THEN indegree[c] - 1 ELSE indegree[c]]
           /\ ready' = (ready \ {g}) \cup {c \in children : indegree[c] = 1}
  /\ UNCHANGED <<plan, mode, pc, errors, compiled, statements, status>>

\* Mutant: the loop runs until every group is placed, not while one is ready.
OrderSpins ==
  /\ pc = "order"
  /\ ready = {}
  /\ Len(ordered) # Cardinality(plan.groups)
  /\ UNCHANGED vars

\* len(ordered) != len(groups): groups were left over.
OrderFails ==
  /\ pc = "order"
  /\ ready = {}
  /\ Len(ordered) # Cardinality(plan.groups)
  /\ errors' = TRUE
  /\ pc' = "finish"
  /\ UNCHANGED <<plan, mode, indegree, ready, ordered, compiled,
                 statements, status>>

OrderDone ==
  /\ pc = "order"
  /\ ready = {}
  /\ Len(ordered) = Cardinality(plan.groups)
  /\ pc' = "emit"
  /\ UNCHANGED <<plan, mode, errors, indegree, ready, ordered,
                 compiled, statements, status>>

EmitGroup ==
  /\ pc = "emit"
  /\ compiled < Len(ordered)
  /\ Position(ordered[compiled + 1]) \notin plan.raises
  /\ statements' = statements \o GroupStatements(ordered[compiled + 1])
  /\ compiled' = compiled + 1
  /\ UNCHANGED <<plan, mode, pc, errors, indegree, ready, ordered,
                 status>>

\* Mutant: the statements built so far stay in the program.
KeptAnyway == statements

KeptOnFailure == IF mode = "best_effort" THEN statements ELSE <<>>

\* A value cannot be built: COMPILER_ERROR.  Only best-effort compilation keeps
\* the statements of the groups before it.
EmitFails ==
  /\ pc = "emit"
  /\ compiled < Len(ordered)
  /\ Position(ordered[compiled + 1]) \in plan.raises
  /\ errors' = TRUE
  /\ statements' = KeptOnFailure
  /\ pc' = "finish"
  /\ UNCHANGED <<plan, mode, indegree, ready, ordered, compiled,
                 status>>

EmitDone ==
  /\ pc = "emit"
  /\ compiled = Len(ordered)
  /\ pc' = "finish"
  /\ UNCHANGED <<plan, mode, errors, indegree, ready, ordered,
                 compiled, statements, status>>

ProgramStatus ==
  IF errors /\ statements # <<>> THEN "partial"
  ELSE IF errors \/ statements = <<>> THEN "error"
  ELSE "success"

Finish ==
  /\ pc = "finish"
  /\ status' = ProgramStatus
  /\ pc' = "done"
  /\ UNCHANGED <<plan, mode, errors, indegree, ready, ordered,
                 compiled, statements>>

Next ==
  \/ AcceptPlan \/ RejectPlan \/ KeepValidGroups
  \/ BuildGraph \/ PlaceGroup \/ OrderFails \/ OrderDone
  \/ EmitGroup \/ EmitFails \/ EmitDone \/ Finish

Spec == Init /\ [][Next]_vars

\* The compiler is one call that runs to its end.
FairSpec == Spec /\ WF_vars(Next)

-----------------------------------------------------------------------------
Placed == {ordered[i] : i \in DOMAIN ordered}

TypeOK ==
  /\ plan \in PlanType
  /\ mode \in Modes
  /\ pc \in {"verify", "graph", "order", "emit", "finish", "done"}
  /\ errors \in BOOLEAN
  /\ pc \notin {"verify", "graph", "done"} => indegree \in [Nodes -> Nat]
  /\ ready \subseteq Nodes
  /\ ordered \in Seq(Nodes)
  /\ compiled \in 0..Len(ordered)
  /\ statements \in Seq([group : Nodes, rows : SUBSET Nat])
  /\ status \in {"none", "success", "partial", "error"}

\* What the plan and the schema say: the rows of p go in before those of c.
MustPrecede(p, c) ==
  /\ plan.gid[p] # plan.gid[c]
  /\ <<plan.gid[p], plan.gid[c]>> \in plan.deps \/ References(p, c)

\* A parent's rows are inserted before the rows of every group that depends on
\* it, whether the dependency is declared or follows from a foreign key: when a
\* statement of the child is in the program, so are the parent's, all of them
\* earlier.  This is what lets immediate foreign keys hold as the program runs.
ParentsFirst ==
  \A p, c \in plan.groups : MustPrecede(p, c) =>
    \A j \in DOMAIN statements : statements[j].group = plan.gid[c] =>
      /\ \E i \in DOMAIN statements : statements[i].group = plan.gid[p]
      /\ \A i \in DOMAIN statements : statements[i].group = plan.gid[p] => i < j

\* Groups leave the order of the plan only when a dependency makes them: a
\* group placed after one that stands later in write_groups was still waiting
\* for a group not placed before that one.
SourceOrderKept ==
  \A i, j \in DOMAIN ordered :
    i < j /\ Position(ordered[j]) < Position(ordered[i]) =>
      \E k \in i..(j - 1) : <<ordered[k], ordered[j]>> \in Edges

\* When the loop stops, groups are left over (and the plan is refused) exactly
\* when the declared and foreign-key dependencies together have a cycle or two
\* groups share an id: no false alarm, and no cycle compiled as if it were none.
CycleErrorIffCyclic ==
  pc = "order" /\ ready = {} =>
    (Len(ordered) = Cardinality(plan.groups)
       <=> UniqueIds /\ ~ \E C \in SUBSET Nodes : Closed(C, Edges))

\* The counts of the loop stay true: indegree is the number of unplaced groups
\* before a group, and the ready list is the unplaced groups of count zero.
IndegreeCounts ==
  pc = "order" =>
    /\ \A g \in Nodes :
         indegree[g] = Cardinality({h \in Nodes \ Placed : <<h, g>> \in Edges})
    /\ ready = {g \in Nodes \ Placed : indegree[g] = 0}

EveryRowOnce ==
  \A p \in plan.groups : \A r \in DOMAIN plan.rows[p] :
    \E i \in DOMAIN statements :
      /\ statements[i].group = plan.gid[p]
      /\ r \in statements[i].rows
      /\ \A j \in DOMAIN statements :
           statements[j].group = plan.gid[p] /\ r \in statements[j].rows => j = i

\* Strict compilation and compile_verified_plan yield the whole plan or
\* nothing: a successful program inserts every row of every group in exactly
\* one statement, and any other program has no statement.
AllOrNothing ==
  pc = "done" /\ mode # "best_effort" =>
    IF status = "success" THEN EveryRowOnce ELSE statements = <<>>

\* Every call returns a program with a status.
Terminates == <>(pc = "done" /\ status # "none")
=============================================================================
