--------------------------- MODULE CompilerProofs ---------------------------
(***************************************************************************)
(* What holds of the compiler for every plan and every number of groups:   *)
(* types and counts, the order, cycles, whole programs or none, that every *)
(* step has one way to go on, and the measure by which it ends.            *)
(***************************************************************************)
EXTENDS Compiler, FiniteSetTheorems, SequenceTheorems, FunctionTheorems,
        WellFoundedInduction, TLAPS

-----------------------------------------------------------------------------
\* A non-empty set of positions has a last one (the dict entry that stays).
LEMMA MaxExists ==
  ASSUME NEW n \in Nat, NEW S \in SUBSET (1..n), S # {}
  PROVE  \E m \in S : \A k \in S : k <= m
<1> DEFINE Up(k) == {j \in S : k <= j}
           T == {Up(k) : k \in S}
<1>0. S \subseteq Int
  OBVIOUS
<1>1. IsFiniteSet(S)
  <2>1. IsFiniteSet(1..n)
    BY FS_Interval
  <2> QED BY <2>1, FS_Subset
<1>2. T \subseteq FiniteSubsetsOf(S)
  <2>1. \A k \in S : Up(k) \subseteq S /\ IsFiniteSet(Up(k))
    BY <1>1, FS_Subset
  <2> QED BY <2>1 DEF FiniteSubsetsOf
<1>3. PICK x \in T : \A y \in T : ~ (<<y, x>> \in StrictSubsetOrdering(S))
  <2>1. T # {}
    OBVIOUS
  <2> HIDE DEF T
  <2> QED BY <2>1, <1>2, FS_StrictSubsetOrderingWellFounded, WFMin
<1>4. PICK m \in S : x = Up(m)
  OBVIOUS
<1>5. \A k \in S : k <= m
  <2> SUFFICES ASSUME NEW k \in S, ~(k <= m)
               PROVE  FALSE
    OBVIOUS
  <2>1. Up(k) \in T
    OBVIOUS
  <2>2. \A j \in S : k <= j => m <= j
    BY <1>0
  <2>3. m <= m /\ ~(k <= m)
    BY <1>0
  <2>4. <<Up(k), Up(m)>> \in StrictSubsetOrdering(S)
    BY <2>2, <2>3 DEF StrictSubsetOrdering
  <2> QED BY <2>1, <2>4, <1>3, <1>4
<1> QED BY <1>5

\* The position of an id is that of a group carrying it.
LEMMA PositionOfNode ==
  ASSUME plan \in PlanType, NEW g \in Nodes
  PROVE  Position(g) \in plan.groups /\ plan.gid[Position(g)] = g
<1> DEFINE S == {p \in plan.groups : plan.gid[p] = g}
<1>1. S \in SUBSET (1..N) /\ S # {}
  BY DEF PlanType, Positions, Nodes
<1>2. \E m \in S : \A k \in S : k <= m
  BY <1>1, MaxExists, NAssumption
<1> QED BY <1>2 DEF Position

\* The ids of a plan are finitely many, and as many as its groups exactly when
\* no two groups share one.
LEMMA NodesFinite ==
  ASSUME plan \in PlanType
  PROVE  /\ IsFiniteSet(Nodes)
         /\ IsFiniteSet(plan.groups)
         /\ Cardinality(Nodes) \in Nat
         /\ Cardinality(plan.groups) \in Nat
         /\ Cardinality(Nodes) <= Cardinality(plan.groups)
         /\ Cardinality(Nodes) = Cardinality(plan.groups) <=> UniqueIds
<1> DEFINE f == [p \in plan.groups |-> plan.gid[p]]
<1>1. plan.groups \subseteq 1..N
  BY DEF PlanType, Positions
<1>2. IsFiniteSet(plan.groups)
  <2>1. IsFiniteSet(1..N)
    BY FS_Interval, NAssumption
  <2> QED BY <2>1, <1>1, FS_Subset
<1>3. f \in Surjection(plan.groups, Nodes)
  BY DEF Surjection, Nodes
<1>4. /\ IsFiniteSet(Nodes)
      /\ Cardinality(Nodes) <= Cardinality(plan.groups)
      /\ Cardinality(Nodes) = Cardinality(plan.groups)
           <=> f \in Injection(plan.groups, Nodes)
  BY <1>2, <1>3, FS_Surjection
<1>5. f \in Injection(plan.groups, Nodes) <=> UniqueIds
  BY <1>3 DEF Injection, IsInjective, Surjection, UniqueIds
<1> QED BY <1>2, <1>4, <1>5, FS_CardinalityType

-----------------------------------------------------------------------------
Statement == [group : Nodes, rows : SUBSET Nat]

\* _group_shapes finds at least one shape in a non-empty list of rows.
LEMMA ShapesOfRows ==
  ASSUME NEW rows \in Seq(Shapes)
  PROVE  /\ IsFiniteSet(FirstRows(rows))
         /\ Cardinality(FirstRows(rows)) \in Nat
         /\ rows # <<>> => Cardinality(FirstRows(rows)) # 0
<1>1. DOMAIN rows = 1..Len(rows) /\ Len(rows) \in Nat
  BY LenProperties
<1>2. IsFiniteSet(FirstRows(rows))
  <2>1. IsFiniteSet(1..Len(rows))
    BY <1>1, FS_Interval
  <2>2. FirstRows(rows) \subseteq 1..Len(rows)
    BY <1>1 DEF FirstRows
  <2> QED BY <2>1, <2>2, FS_Subset
<1>3. rows # <<>> => FirstRows(rows) # {}
  <2> SUFFICES ASSUME rows # <<>>
               PROVE  1 \in FirstRows(rows)
    OBVIOUS
  <2>1. Len(rows) >= 1
    BY <1>1, EmptySeq
  <2> QED BY <1>1, <2>1 DEF FirstRows
<1> QED BY <1>2, <1>3, FS_CardinalityType, FS_EmptySet

\* The statements of a group are statements of that group, and a group with
\* rows has at least one.
LEMMA StatementsOfGroup ==
  ASSUME plan \in PlanType, NEW g \in Nodes
  PROVE  /\ GroupStatements(g) \in Seq(Statement)
         /\ \A k \in DOMAIN GroupStatements(g) : GroupStatements(g)[k].group = g
         /\ plan.rows[Position(g)] # <<>> => Len(GroupStatements(g)) > 0
<1> DEFINE rows == plan.rows[Position(g)]
           n == Cardinality(FirstRows(rows))
<1>1. rows \in Seq(Shapes)
  BY PositionOfNode DEF PlanType
<1>2. n \in Nat /\ (rows # <<>> => n # 0)
  BY <1>1, ShapesOfRows
<1>3. DOMAIN GroupShapes(rows) = 1..n
  BY DEF GroupShapes
<1>4. \A k \in 1..n : GroupShapes(rows)[k] \in SUBSET Nat
  <2>1. DOMAIN rows \subseteq Nat
    BY <1>1, LenProperties
  <2> QED BY <2>1 DEF GroupShapes
<1>5. GroupStatements(g) = [k \in 1..n |-> [group |-> g, rows |-> GroupShapes(rows)[k]]]
  BY <1>3 DEF GroupStatements
<1>6. GroupStatements(g) \in [1..n -> Statement]
  BY <1>4, <1>5 DEF Statement
<1>7. GroupStatements(g) \in Seq(Statement) /\ Len(GroupStatements(g)) = n
  BY <1>2, <1>6
<1> QED BY <1>2, <1>5, <1>7

-----------------------------------------------------------------------------
\* What the phases before the loop have not touched, and what verification
\* guarantees of the groups that are left.
PhaseInv ==
  /\ \A p \in plan.ok : plan.rows[p] # <<>>
  /\ pc \notin {"verify", "done"} => plan.groups \subseteq plan.ok
  /\ pc \in {"verify", "graph"} => ordered = <<>> /\ ready = {}
  /\ pc \in {"verify", "graph", "order"} => statements = <<>> /\ compiled = 0

\* The order built so far: no group twice, none before a group it needs, and
\* the counts of the loop are true.
OrderInv ==
  /\ \A i, j \in DOMAIN ordered : ordered[i] = ordered[j] => i = j
  /\ \A j \in DOMAIN ordered : \A h \in Nodes :
       <<h, ordered[j]>> \in Edges => \E i \in 1..(j - 1) : ordered[i] = h
  /\ IndegreeCounts

\* Type correctness is not inductive without the phases and the counts: an
\* indegree stays a natural number because it counts groups.
TypeInv == TypeOK /\ PhaseInv

\* The invariant holds when a compilation starts.
LEMMA InitTypeInv == Init => TypeInv /\ OrderInv
<1> SUFFICES ASSUME Init PROVE TypeInv /\ OrderInv
  OBVIOUS
<1>1. plan \in PlanType /\ \A p \in plan.ok : plan.rows[p] # <<>>
  BY PlansAssumption DEF Init
<1>2. <<>> \in Seq(Nodes) /\ Len(<<>>) = 0 /\ DOMAIN <<>> = {}
  BY EmptySeq
<1>3. <<>> \in Seq([group : Nodes, rows : SUBSET Nat])
  BY EmptySeq
<1>4. TypeOK
  <2>1. ready \subseteq Nodes /\ ordered \in Seq(Nodes) /\ compiled \in 0..Len(ordered)
    BY <1>2 DEF Init
  <2>2. statements \in Seq([group : Nodes, rows : SUBSET Nat])
    BY <1>3 DEF Init
  <2> QED BY <1>1, <2>1, <2>2 DEF Init, TypeOK
<1>5. PhaseInv
  BY <1>1 DEF Init, PhaseInv
<1>6. OrderInv
  BY <1>2 DEF Init, OrderInv, IndegreeCounts
<1> QED BY <1>4, <1>5, <1>6 DEF TypeInv

\* The groups a group still waits for.
Waiting(c) == {h \in Nodes \ Placed : <<h, c>> \in Edges}

\* A group waits for finitely many others, so that they can be counted.
LEMMA WaitingFinite ==
  ASSUME plan \in PlanType, NEW c \in Nodes
  PROVE  IsFiniteSet(Waiting(c)) /\ Cardinality(Waiting(c)) \in Nat
<1>1. Waiting(c) \subseteq Nodes /\ IsFiniteSet(Nodes)
  BY NodesFinite DEF Waiting
<1> QED BY <1>1, FS_Subset, FS_CardinalityType

\* Placing g takes g, and only g, from what its children wait for.
LEMMA PlaceCounts ==
  ASSUME TypeInv, OrderInv, pc = "order", NEW g \in ready, NEW c \in Nodes
  PROVE  /\ g \in Nodes \ Placed
         /\ <<g, c>> \in Edges =>
              indegree[c] - 1 = Cardinality(Waiting(c) \ {g}) /\ indegree[c] - 1 \in Nat
         /\ <<g, c>> \notin Edges =>
              indegree[c] = Cardinality(Waiting(c) \ {g}) /\ indegree[c] \in Nat
<1>1. g \in Nodes \ Placed
  BY DEF OrderInv, IndegreeCounts
<1>2. indegree[c] = Cardinality(Waiting(c))
  BY DEF OrderInv, IndegreeCounts, Waiting
<1>3. IsFiniteSet(Waiting(c)) /\ Cardinality(Waiting(c)) \in Nat
  BY WaitingFinite DEF TypeInv, TypeOK
<1>4. <<g, c>> \in Edges <=> g \in Waiting(c)
  BY <1>1 DEF Waiting
<1>5. /\ IsFiniteSet(Waiting(c) \ {g})
      /\ Cardinality(Waiting(c) \ {g}) =
           IF g \in Waiting(c) THEN Cardinality(Waiting(c)) - 1 ELSE Cardinality(Waiting(c))
  BY <1>3, FS_RemoveElement
<1>6. Cardinality(Waiting(c) \ {g}) \in Nat
  BY <1>5, FS_CardinalityType
<1> QED BY <1>1, <1>2, <1>3, <1>4, <1>5, <1>6

\* Every step keeps the types and the phases.
LEMMA NextTypeInv == TypeInv /\ OrderInv /\ [Next]_vars => TypeInv'
<1> SUFFICES ASSUME TypeInv, OrderInv, [Next]_vars PROVE TypeInv'
  OBVIOUS
<1> USE DEF TypeInv, TypeOK, PhaseInv
<1>1. CASE AcceptPlan
  BY <1>1 DEF AcceptPlan, PlanVerifies, Nodes
<1>2. CASE RejectPlan
  BY <1>2 DEF RejectPlan, Nodes
<1>3. CASE KeepValidGroups
  <2>1. plan' \in PlanType /\ plan'.ok = plan.ok /\ plan'.rows = plan.rows
        /\ plan'.groups \subseteq plan'.ok
    BY <1>3 DEF KeepValidGroups, PlanType
  <2>2. <<>> \in Seq(Nodes') /\ <<>> \in Seq([group : Nodes', rows : SUBSET Nat])
        /\ Len(<<>>) = 0
    BY EmptySeq
  <2> QED BY <1>3, <2>1, <2>2 DEF KeepValidGroups
<1>4. CASE BuildGraph
  <2>1. Nodes' = Nodes
    BY <1>4 DEF BuildGraph, Nodes
  <2>2. ASSUME NEW g \in Nodes PROVE Indegree(g) \in Nat
    <3>1. {h \in Nodes : <<h, g>> \in Edges} \subseteq Nodes /\ IsFiniteSet(Nodes)
      BY NodesFinite
    <3> QED BY <3>1, FS_Subset, FS_CardinalityType DEF Indegree
  <2> QED BY <1>4, <2>1, <2>2 DEF BuildGraph
<1>5. CASE PlaceGroup
  <2>1. Nodes' = Nodes
    BY <1>5 DEF PlaceGroup, Nodes
  <2>2. PICK g \in Nodes :
          /\ FirstReady(g)
          /\ ordered' = Append(ordered, g)
          /\ indegree' = [c \in Nodes |-> IF c \in {d \in Nodes : <<g, d>> \in Edges}
                                           THEN indegree[c] - 1 ELSE indegree[c]]
          /\ ready' = (ready \ {g})
                        \cup {c \in {d \in Nodes : <<g, d>> \in Edges} : indegree[c] = 1}
    BY <1>5 DEF PlaceGroup
  <2>3. indegree' \in [Nodes -> Nat]
    BY <1>5, <2>2, PlaceCounts DEF FirstReady, PlaceGroup
  <2>4. ordered' \in Seq(Nodes) /\ Len(ordered') = Len(ordered) + 1
    BY <2>2, AppendProperties
  <2>5. ready' \subseteq Nodes
    BY <2>2
  <2>6. compiled' \in 0..Len(ordered')
    BY <1>5, <2>4, LenProperties DEF PlaceGroup
  <2> QED BY <1>5, <2>1, <2>3, <2>4, <2>5, <2>6 DEF PlaceGroup
<1>6. CASE OrderFails
  BY <1>6 DEF OrderFails, Nodes
<1>7. CASE OrderDone
  BY <1>7 DEF OrderDone, Nodes
<1>8. CASE EmitGroup
  <2>1. Nodes' = Nodes
    BY <1>8 DEF EmitGroup, Nodes
  <2>2. Len(ordered) \in Nat /\ compiled + 1 \in 1..Len(ordered)
    BY <1>8, LenProperties DEF EmitGroup
  <2>3. ordered[compiled + 1] \in Nodes
    BY <2>2, ElementOfSeq
  <2>4. statements' \in Seq(Statement)
    BY <1>8, <2>3, StatementsOfGroup, ConcatProperties DEF EmitGroup, Statement
  <2>5. compiled' \in 0..Len(ordered')
    BY <1>8, <2>2 DEF EmitGroup
  <2> QED BY <1>8, <2>1, <2>4, <2>5 DEF EmitGroup, Statement
<1>9. CASE EmitFails
  <2>1. Nodes' = Nodes
    BY <1>9 DEF EmitFails, Nodes
  <2>2. statements' \in Seq([group : Nodes, rows : SUBSET Nat])
    BY <1>9, EmptySeq DEF EmitFails, KeptOnFailure
  <2> QED BY <1>9, <2>1, <2>2 DEF EmitFails
<1>10. CASE EmitDone
  BY <1>10 DEF EmitDone, Nodes
<1>11. CASE Finish
  BY <1>11 DEF Finish, ProgramStatus, Nodes
<1>12. CASE UNCHANGED vars
  BY <1>12 DEF vars, Nodes
<1> QED BY <1>1, <1>2, <1>3, <1>4, <1>5, <1>6, <1>7, <1>8, <1>9, <1>10, <1>11,
           <1>12 DEF Next

-----------------------------------------------------------------------------
\* The graph depends on the plan alone.
LEMMA SameGraph == plan' = plan => Nodes' = Nodes /\ Edges' = Edges
BY DEF Nodes, Edges, FkEdges, References

\* One turn of the loop keeps the order and the counts.
LEMMA PlaceOrderInv ==
  ASSUME TypeInv, OrderInv, PlaceGroup
  PROVE  OrderInv'
<1>1. PICK g \in Nodes :
        /\ FirstReady(g)
        /\ ordered' = Append(ordered, g)
        /\ indegree' = [c \in Nodes |-> IF c \in {d \in Nodes : <<g, d>> \in Edges}
                                         THEN indegree[c] - 1 ELSE indegree[c]]
        /\ ready' = (ready \ {g})
                      \cup {c \in {d \in Nodes : <<g, d>> \in Edges} : indegree[c] = 1}
  BY DEF PlaceGroup
<1>2. /\ pc = "order" /\ plan' = plan /\ Nodes' = Nodes /\ Edges' = Edges
      /\ g \in ready /\ plan \in PlanType
      /\ ordered \in Seq(Nodes) /\ indegree \in [Nodes -> Nat]
  BY <1>1, SameGraph DEF PlaceGroup, FirstReady, TypeInv, TypeOK
<1>3. /\ Len(ordered) \in Nat /\ DOMAIN ordered = 1..Len(ordered)
      /\ DOMAIN ordered' = 1..(Len(ordered) + 1)
      /\ \A i \in 1..Len(ordered) : ordered'[i] = ordered[i]
      /\ ordered'[Len(ordered) + 1] = g
      /\ Placed' = Placed \cup {g}
  <2>1. /\ Len(ordered) \in Nat /\ DOMAIN ordered = 1..Len(ordered)
        /\ DOMAIN ordered' = 1..(Len(ordered) + 1)
        /\ \A i \in 1..Len(ordered) : ordered'[i] = ordered[i]
        /\ ordered'[Len(ordered) + 1] = g
    BY <1>1, <1>2, AppendProperties, LenProperties
  <2> QED BY <2>1 DEF Placed
<1>4. g \notin Placed /\ <<g, g>> \notin Edges
  BY <1>2, PlaceCounts DEF Edges
<1>5. \A h \in Nodes : <<h, g>> \in Edges => h \in Placed
  <2>1. Cardinality(Waiting(g)) = 0
    BY <1>2 DEF OrderInv, IndegreeCounts, Waiting
  <2>2. Waiting(g) = {}
    BY <1>2, <2>1, WaitingFinite, FS_EmptySet
  <2> QED BY <2>2 DEF Waiting
<1>6. ASSUME NEW c \in Placed \cap Nodes PROVE <<g, c>> \notin Edges
  <2>1. PICK j \in DOMAIN ordered : ordered[j] = c
    BY DEF Placed
  <2>2. <<g, c>> \in Edges => \E i \in 1..(j - 1) : ordered[i] = g
    BY <2>1, <1>2 DEF OrderInv
  <2> QED BY <2>2, <1>3, <1>4, <2>1 DEF Placed
<1>7. \A i, j \in DOMAIN ordered' : ordered'[i] = ordered'[j] => i = j
  <2>1. \A i \in 1..Len(ordered) : ordered[i] # g
    BY <1>3, <1>4 DEF Placed
  <2> QED BY <2>1, <1>3 DEF OrderInv
<1>8. ASSUME NEW j \in DOMAIN ordered', NEW h \in Nodes, <<h, ordered'[j]>> \in Edges
      PROVE  \E i \in 1..(j - 1) : ordered'[i] = h
  <2>1. CASE j \in DOMAIN ordered
    <3>1. PICK i \in 1..(j - 1) : ordered[i] = h
      BY <2>1, <1>3, <1>8 DEF OrderInv
    <3> QED BY <3>1, <2>1, <1>3
  <2>2. CASE j = Len(ordered) + 1
    <3>1. PICK i \in DOMAIN ordered : ordered[i] = h
      BY <2>2, <1>3, <1>5, <1>8 DEF Placed
    <3> QED BY <3>1, <2>2, <1>3
  <2> QED BY <2>1, <2>2, <1>3
<1>9. \A c \in Nodes : Waiting(c)' = Waiting(c) \ {g}
  BY <1>2, <1>3 DEF Waiting
<1>10. \A c \in Nodes : indegree'[c] = Cardinality(Waiting(c)') /\ indegree'[c] \in Nat
  BY <1>1, <1>2, <1>9, PlaceCounts
<1>11. ready' = {c \in Nodes \ Placed' : indegree'[c] = 0}
  <2>1. ASSUME NEW c \in Nodes, <<g, c>> \in Edges PROVE indegree[c] # 0
    <3>1. indegree[c] - 1 \in Nat /\ indegree[c] \in Nat
      BY <1>2, <2>1, PlaceCounts
    <3> QED BY <3>1
  <2>2. \A c : c \in ready <=> c \in Nodes \ Placed /\ indegree[c] = 0
    BY <1>2 DEF OrderInv, IndegreeCounts
  <2>3. \A c \in Nodes : indegree'[c] =
          IF <<g, c>> \in Edges THEN indegree[c] - 1 ELSE indegree[c]
    BY <1>1
  <2>4. \A c \in Nodes : <<g, c>> \in Edges => c \notin Placed'
    BY <1>3, <1>4, <1>6
  <2>5. \A c \in Nodes : indegree[c] \in Nat
    BY <1>2
  <2>6. \A c \in Nodes : c \in ready' <=> c \in Nodes \ Placed' /\ indegree'[c] = 0
    BY <1>1, <1>3, <2>1, <2>2, <2>3, <2>4, <2>5
  <2>7. ready' \subseteq Nodes
    BY <1>1, <2>2
  <2> QED BY <2>6, <2>7
<1> QED BY <1>2, <1>7, <1>8, <1>10, <1>11 DEF OrderInv, IndegreeCounts, Waiting

\* Every step keeps the order found so far and the counts.
LEMMA NextOrderInv == TypeInv /\ OrderInv /\ [Next]_vars => OrderInv'
<1> SUFFICES ASSUME TypeInv, OrderInv, [Next]_vars PROVE OrderInv'
  OBVIOUS
<1>1. CASE BuildGraph
  <2>1. /\ plan' = plan /\ ordered' = ordered /\ ordered = <<>>
        /\ indegree' = [g \in Nodes |-> Indegree(g)]
        /\ ready' = {g \in Nodes : Indegree(g) = 0}
    BY <1>1 DEF BuildGraph, TypeInv, PhaseInv
  <2>2. Nodes' = Nodes /\ Edges' = Edges /\ Placed' = {}
    BY <2>1, SameGraph DEF Placed
  <2>3. IndegreeCounts'
    BY <2>1, <2>2 DEF IndegreeCounts, Indegree
  <2> QED BY <2>1, <2>2, <2>3 DEF OrderInv
<1>2. CASE PlaceGroup
  BY <1>2, PlaceOrderInv
<1>3. CASE KeepValidGroups
  BY <1>3 DEF KeepValidGroups, TypeInv, PhaseInv, OrderInv, IndegreeCounts
<1>4. CASE AcceptPlan \/ RejectPlan \/ OrderFails \/ OrderDone \/ EmitGroup \/ EmitFails
           \/ EmitDone \/ Finish
  <2>1. plan' = plan /\ ordered' = ordered /\ pc' # "order"
    BY <1>4 DEF AcceptPlan, RejectPlan, OrderFails, OrderDone, EmitGroup, EmitFails,
                EmitDone, Finish
  <2> QED BY <2>1, SameGraph DEF OrderInv, IndegreeCounts
<1>5. CASE UNCHANGED vars
  BY <1>5, SameGraph DEF vars, OrderInv, IndegreeCounts, Placed
<1> QED BY <1>1, <1>2, <1>3, <1>4, <1>5 DEF Next

\* The invariant holds throughout.
LEMMA OrderInvariant == Spec => [](TypeInv /\ OrderInv)
<1>1. Init => TypeInv /\ OrderInv
  BY InitTypeInv
<1>2. TypeInv /\ OrderInv /\ [Next]_vars => (TypeInv /\ OrderInv)'
  BY NextTypeInv, NextOrderInv
<1> QED BY <1>1, <1>2, PTL DEF Spec

\* Whatever the plan, the compiler's state stays within its types.
THEOREM TypeCorrect == Spec => []TypeOK
<1>1. TypeInv => TypeOK
  BY DEF TypeInv
<1> QED BY <1>1, OrderInvariant, PTL

\* The counts of the topological sort never drift from the graph.
THEOREM CountsCorrect == Spec => []IndegreeCounts
<1>1. OrderInv => IndegreeCounts
  BY DEF OrderInv
<1> QED BY <1>1, OrderInvariant, PTL

-----------------------------------------------------------------------------
\* The ids placed are as many as the order is long.
LEMMA PlacedCardinality ==
  ASSUME TypeInv, OrderInv
  PROVE  /\ IsFiniteSet(Placed)
         /\ Cardinality(Placed) = Len(ordered)
         /\ Placed \subseteq Nodes
<1>1. Len(ordered) \in Nat /\ DOMAIN ordered = 1..Len(ordered)
      /\ ordered \in [1..Len(ordered) -> Nodes]
  BY LenProperties DEF TypeInv, TypeOK
<1>2. ordered \in Surjection(1..Len(ordered), Placed)
  BY <1>1 DEF Surjection, Placed
<1>3. ordered \in Injection(1..Len(ordered), Placed)
  BY <1>1, <1>2 DEF Injection, IsInjective, Surjection, OrderInv
<1>4. IsFiniteSet(1..Len(ordered)) /\ Cardinality(1..Len(ordered)) = Len(ordered)
  BY <1>1, FS_Interval
<1>5. IsFiniteSet(Placed) /\ Cardinality(Placed) = Len(ordered)
  BY <1>2, <1>3, <1>4, FS_Surjection
<1> QED BY <1>1, <1>5 DEF Placed

\* No cycle runs through groups that have all been placed: its first group
\* would need one placed before it.
LEMMA PlacedAcyclic ==
  ASSUME TypeInv, OrderInv, NEW C \in SUBSET Nodes, C \subseteq Placed
  PROVE  ~Closed(C, Edges)
<1> SUFFICES ASSUME Closed(C, Edges) PROVE FALSE
  OBVIOUS
<1> DEFINE n == Len(ordered)
           S == {k \in 1..n : ordered[n + 1 - k] \in C}
<1>1. n \in Nat /\ DOMAIN ordered = 1..n
  BY LenProperties DEF TypeInv, TypeOK
<1>2. S # {}
  <2>1. PICK x \in C : TRUE
    BY DEF Closed
  <2>2. PICK i \in 1..n : ordered[i] = x
    BY <1>1, <2>1 DEF Placed
  <2>3. n + 1 - i \in 1..n /\ n + 1 - (n + 1 - i) = i
    BY <1>1, <2>2
  <2> QED BY <2>1, <2>2, <2>3
<1>3. PICK m \in S : \A k \in S : k <= m
  BY <1>1, <1>2, MaxExists
<1>4. n + 1 - m \in 1..n /\ ordered[n + 1 - m] \in C
  BY <1>1
<1>5. PICK y \in C : <<y, ordered[n + 1 - m]>> \in Edges
  BY <1>4 DEF Closed
<1>6. PICK i \in 1..(n + 1 - m - 1) : ordered[i] = y
  BY <1>1, <1>4, <1>5 DEF OrderInv
<1>7. n + 1 - i \in S
  <2>1. n + 1 - i \in 1..n /\ n + 1 - (n + 1 - i) = i
    BY <1>1, <1>4, <1>6
  <2> QED BY <2>1, <1>5, <1>6
<1>8. n + 1 - i > m
  BY <1>1, <1>4, <1>6
<1> QED BY <1>1, <1>3, <1>4, <1>6, <1>7, <1>8

\* Groups are left over without a ready one exactly when some wait for each
\* other: a set of groups each of which has a predecessor in the set.
LEMMA LeftOverCyclic ==
  ASSUME TypeInv, OrderInv
  PROVE  CycleErrorIffCyclic
<1> SUFFICES ASSUME pc = "order", ready = {}
             PROVE  Len(ordered) = Cardinality(plan.groups)
                      <=> UniqueIds /\ ~ \E C \in SUBSET Nodes : Closed(C, Edges)
  BY DEF CycleErrorIffCyclic
<1>1. /\ IsFiniteSet(Nodes)
      /\ Cardinality(Nodes) \in Nat
      /\ Cardinality(plan.groups) \in Nat
      /\ Cardinality(Nodes) <= Cardinality(plan.groups)
      /\ Cardinality(Nodes) = Cardinality(plan.groups) <=> UniqueIds
  BY NodesFinite DEF TypeInv, TypeOK
<1>2. /\ IsFiniteSet(Placed) /\ Cardinality(Placed) = Len(ordered)
      /\ Placed \subseteq Nodes
  BY PlacedCardinality
<1>3. /\ Cardinality(Placed) \in Nat
      /\ Cardinality(Placed) <= Cardinality(Nodes)
      /\ Cardinality(Nodes) = Cardinality(Placed) => Placed = Nodes
  BY <1>1, <1>2, FS_Subset, FS_CardinalityType
<1>4. ASSUME Len(ordered) = Cardinality(plan.groups)
      PROVE  UniqueIds /\ ~ \E C \in SUBSET Nodes : Closed(C, Edges)
  <2>1. Cardinality(Nodes) = Cardinality(plan.groups) /\ Placed = Nodes
    BY <1>1, <1>2, <1>3, <1>4
  <2> QED BY <1>1, <2>1, PlacedAcyclic
<1>5. ASSUME UniqueIds, ~ \E C \in SUBSET Nodes : Closed(C, Edges)
      PROVE  Len(ordered) = Cardinality(plan.groups)
  <2>1. ASSUME NEW c \in Nodes \ Placed
        PROVE  \E h \in Nodes \ Placed : <<h, c>> \in Edges
    <3>1. Cardinality(Waiting(c)) # 0
      BY <2>1 DEF OrderInv, IndegreeCounts, Waiting
    <3>2. Waiting(c) # {}
      BY <3>1, FS_EmptySet
    <3> QED BY <3>2 DEF Waiting
  <2>2. Nodes \ Placed = {}
    BY <1>5, <2>1 DEF Closed
  <2>3. Placed = Nodes
    BY <1>2, <2>2
  <2> QED BY <1>1, <1>2, <1>5, <2>3
<1> QED BY <1>4, <1>5

\* For every plan, the compiler reports left-over groups exactly when the
\* dependencies are cyclic or an id is shared.
THEOREM CycleDetection == Spec => []CycleErrorIffCyclic
BY LeftOverCyclic, OrderInvariant, PTL

-----------------------------------------------------------------------------
\* Each placed group came first, by position, among the groups that could have
\* been placed in its turn.
Before(i) == {ordered[k] : k \in 1..(i - 1)}

LeastFirst ==
  \A i \in DOMAIN ordered : \A c \in Nodes \ Before(i) :
    (\A h \in Nodes : <<h, c>> \in Edges => h \in Before(i))
      => Position(ordered[i]) <= Position(c)

\* Placing the first ready group keeps the groups first by position.
LEMMA PlaceLeastFirst ==
  ASSUME TypeInv, OrderInv, LeastFirst, PlaceGroup
  PROVE  LeastFirst'
<1>1. PICK g \in Nodes : FirstReady(g) /\ ordered' = Append(ordered, g)
  BY DEF PlaceGroup
<1>2. /\ pc = "order" /\ plan' = plan /\ Nodes' = Nodes /\ Edges' = Edges
      /\ \A c : Position(c)' = Position(c)
  BY SameGraph DEF PlaceGroup, Position
<1>3. /\ Len(ordered) \in Nat /\ DOMAIN ordered = 1..Len(ordered)
      /\ DOMAIN ordered' = 1..(Len(ordered) + 1)
      /\ \A i \in 1..Len(ordered) : ordered'[i] = ordered[i]
      /\ ordered'[Len(ordered) + 1] = g
  BY <1>1, AppendProperties, LenProperties DEF TypeInv, TypeOK
<1>4. ASSUME NEW i \in 1..(Len(ordered) + 1)
      PROVE  Before(i)' = IF i = Len(ordered) + 1 THEN Placed ELSE Before(i)
  <2>1. Before(i)' = {ordered'[k] : k \in 1..(i - 1)}
    BY DEF Before
  <2>2. \A k \in 1..(i - 1) : k \in 1..Len(ordered) /\ ordered'[k] = ordered[k]
    BY <1>3
  <2>3. Before(i)' = Before(i)
    BY <2>1, <2>2 DEF Before
  <2>4. i = Len(ordered) + 1 => Before(i) = Placed
    BY <1>3 DEF Before, Placed
  <2> QED BY <2>3, <2>4
<1>5. ASSUME NEW c \in Nodes \ Placed,
             \A h \in Nodes : <<h, c>> \in Edges => h \in Placed
      PROVE  Position(g) <= Position(c)
  <2>1. Waiting(c) = {}
    BY <1>5 DEF Waiting
  <2>2. indegree[c] = 0
    BY <1>2, <2>1, FS_EmptySet DEF OrderInv, IndegreeCounts, Waiting
  <2>3. c \in ready
    BY <1>2, <2>2 DEF OrderInv, IndegreeCounts
  <2> QED BY <1>1, <2>3 DEF FirstReady
<1>6. ASSUME NEW i \in 1..(Len(ordered) + 1), NEW c \in Nodes \ Before(i)',
             \A h \in Nodes : <<h, c>> \in Edges => h \in Before(i)'
      PROVE  Position(ordered'[i]) <= Position(c)
  <2>1. CASE i = Len(ordered) + 1
    BY <1>3, <1>4, <1>5, <1>6, <2>1
  <2>2. CASE i # Len(ordered) + 1
    <3>1. i \in DOMAIN ordered /\ Before(i)' = Before(i) /\ ordered'[i] = ordered[i]
      BY <1>3, <1>4, <2>2
    <3> QED BY <3>1, <1>6 DEF LeastFirst
  <2> QED BY <2>1, <2>2
<1>7. \A i \in 1..(Len(ordered) + 1) : Position(ordered[i])' = Position(ordered'[i])
  BY <1>2 DEF Position
<1> QED BY <1>2, <1>3, <1>6, <1>7 DEF LeastFirst

\* The other steps do not move groups.
LEMMA NextLeastFirst ==
  TypeInv /\ OrderInv /\ LeastFirst /\ [Next]_vars => LeastFirst'
<1> SUFFICES ASSUME TypeInv, OrderInv, LeastFirst, [Next]_vars PROVE LeastFirst'
  OBVIOUS
<1>1. CASE PlaceGroup
  BY <1>1, PlaceLeastFirst
<1>2. CASE KeepValidGroups
  BY <1>2 DEF KeepValidGroups, TypeInv, PhaseInv, LeastFirst
<1>3. CASE plan' = plan /\ ordered' = ordered
  <2>1. \A c : Position(c)' = Position(c)
    BY <1>3 DEF Position
  <2> QED BY <1>3, <2>1, SameGraph DEF LeastFirst, Before
<1> QED BY <1>1, <1>2, <1>3 DEF Next, vars, AcceptPlan, RejectPlan, BuildGraph,
           OrderFails, OrderDone, EmitGroup, EmitFails, EmitDone, Finish

\* A group is overtaken by a later one only while it waits for another: the
\* order of write_groups is kept wherever the dependencies allow it.
THEOREM SourceOrder == Spec => []SourceOrderKept
<1>1. Init => LeastFirst
  BY DEF Init, LeastFirst
<1>2. TypeInv /\ OrderInv /\ LeastFirst => SourceOrderKept
  <2> SUFFICES ASSUME TypeInv, OrderInv, LeastFirst,
                      NEW i \in DOMAIN ordered, NEW j \in DOMAIN ordered,
                      i < j, Position(ordered[j]) < Position(ordered[i])
               PROVE  \E k \in i..(j - 1) : <<ordered[k], ordered[j]>> \in Edges
    BY DEF SourceOrderKept
  <2>1. /\ Len(ordered) \in Nat /\ DOMAIN ordered = 1..Len(ordered)
        /\ ordered[i] \in Nodes /\ ordered[j] \in Nodes
    BY LenProperties DEF TypeInv, TypeOK
  <2>2. ordered[j] \notin Before(i)
    BY <2>1 DEF Before, OrderInv
  <2>3. ~(Position(ordered[i]) <= Position(ordered[j]))
    <3>1. Position(ordered[i]) \in Int /\ Position(ordered[j]) \in Int
      BY <2>1, PositionOfNode DEF TypeInv, TypeOK, PlanType, Positions
    <3> QED BY <3>1
  <2>4. PICK h \in Nodes : <<h, ordered[j]>> \in Edges /\ h \notin Before(i)
    BY <2>1, <2>2, <2>3 DEF LeastFirst
  <2>5. PICK k \in 1..(j - 1) : ordered[k] = h
    BY <2>1, <2>4 DEF OrderInv
  <2>6. k \in i..(j - 1)
    BY <2>1, <2>4, <2>5 DEF Before
  <2> QED BY <2>4, <2>5, <2>6
<1> QED BY <1>1, <1>2, NextLeastFirst, OrderInvariant, PTL DEF Spec

-----------------------------------------------------------------------------
\* The program follows the order: its statements belong to the groups compiled
\* so far, block by block, and no block is missing from a program that has any.
StatementInv ==
  /\ \A s \in DOMAIN statements : \E k \in 1..compiled :
       statements[s].group = ordered[k]
  /\ \A s, r \in DOMAIN statements : \A k, l \in 1..compiled :
       statements[s].group = ordered[k] /\ statements[r].group = ordered[l] /\ k < l
         => s < r
  /\ pc = "emit" \/ statements # <<>> =>
       \A k \in 1..compiled : \E s \in DOMAIN statements :
         statements[s].group = ordered[k]

\* Emitting a group keeps statements in the order of the groups.
LEMMA EmitStatementInv ==
  ASSUME TypeInv, OrderInv, StatementInv, EmitGroup
  PROVE  StatementInv'
<1> DEFINE g == ordered[compiled + 1]
           new == GroupStatements(g)
           m == Len(statements)
           n == Len(new)
<1>1. /\ pc = "emit" /\ compiled' = compiled + 1 /\ ordered' = ordered
      /\ statements' = statements \o new
  BY DEF EmitGroup
<1>2. /\ Len(ordered) \in Nat /\ DOMAIN ordered = 1..Len(ordered)
      /\ compiled \in Nat /\ compiled + 1 \in 1..Len(ordered)
      /\ ordered \in Seq(Nodes) /\ statements \in Seq(Statement)
  BY LenProperties DEF EmitGroup, TypeInv, TypeOK, Statement
<1>3. g \in Nodes
  BY <1>2, ElementOfSeq
<1>4. plan.rows[Position(g)] # <<>>
  BY <1>1, <1>3, PositionOfNode DEF TypeInv, TypeOK, PhaseInv
<1>5. new \in Seq(Statement) /\ (\A k \in DOMAIN new : new[k].group = g) /\ n > 0
  BY <1>3, <1>4, StatementsOfGroup DEF TypeInv, TypeOK
<1>6. /\ m \in Nat /\ n \in Nat /\ DOMAIN statements = 1..m /\ DOMAIN new = 1..n
      /\ DOMAIN statements' = 1..(m + n)
      /\ \A s \in 1..(m + n) :
           statements'[s] = IF s <= m THEN statements[s] ELSE new[s - m]
  <2> HIDE DEF new
  <2> QED BY <1>1, <1>2, <1>5, LenProperties, ConcatProperties
<1>7. /\ \A s \in 1..m : statements'[s].group = statements[s].group
      /\ \A s \in (m + 1)..(m + n) : statements'[s].group = g
  <2> HIDE DEF new, g
  <2> QED BY <1>5, <1>6
<1>8. \A k \in 1..compiled : ordered[k] # g
  BY <1>2 DEF OrderInv
<1> HIDE DEF new, g, m, n
<1>9. ASSUME NEW s \in 1..(m + n)
      PROVE  \E k \in 1..(compiled + 1) : statements'[s].group = ordered[k]
  <2>1. CASE s \in 1..m
    <3>1. PICK k \in 1..compiled : statements[s].group = ordered[k]
      BY <1>6, <2>1 DEF StatementInv
    <3> QED BY <1>2, <1>7, <2>1, <3>1
  <2>2. CASE s \in (m + 1)..(m + n)
    BY <1>2, <1>7, <2>2 DEF g
  <2> QED BY <1>6, <2>1, <2>2
<1>10. ASSUME NEW s \in 1..(m + n), NEW r \in 1..(m + n),
              NEW k \in 1..(compiled + 1), NEW l \in 1..(compiled + 1),
              statements'[s].group = ordered[k], statements'[r].group = ordered[l], k < l
       PROVE  s < r
  <2>1. k \in 1..compiled /\ ordered[k] # g
    BY <1>2, <1>8, <1>10
  <2>2. s \in 1..m /\ statements[s].group = ordered[k]
    BY <1>6, <1>7, <1>10, <2>1
  <2>3. CASE r \in 1..m
    <3>1. statements[r].group = ordered[l]
      BY <1>7, <1>10, <2>3
    <3>2. l \in 1..compiled
      <4>1. PICK j \in 1..compiled : statements[r].group = ordered[j]
        BY <1>6, <2>3 DEF StatementInv
      <4>2. j \in DOMAIN ordered /\ l \in DOMAIN ordered /\ ordered[j] = ordered[l]
        BY <1>2, <3>1, <4>1
      <4>3. j = l
        BY <4>2 DEF OrderInv
      <4> QED BY <4>3
    <3>3. s \in DOMAIN statements /\ r \in DOMAIN statements
      BY <1>6, <2>2, <2>3
    <3> QED BY <1>10, <2>1, <2>2, <3>1, <3>2, <3>3 DEF StatementInv
  <2>4. CASE r \notin 1..m
    BY <1>6, <2>2, <2>4
  <2> QED BY <2>3, <2>4
<1>11. ASSUME NEW k \in 1..(compiled + 1)
       PROVE  \E s \in 1..(m + n) : statements'[s].group = ordered[k]
  <2>1. CASE k \in 1..compiled
    <3>1. PICK s \in 1..m : statements[s].group = ordered[k]
      BY <1>1, <1>6, <2>1 DEF StatementInv
    <3> QED BY <1>6, <1>7, <3>1
  <2>2. CASE k = compiled + 1
    <3>1. m + 1 \in (m + 1)..(m + n) /\ m + 1 \in 1..(m + n)
      BY <1>5, <1>6
    <3> QED BY <1>7, <2>2, <3>1 DEF g
  <2> QED BY <1>2, <2>1, <2>2
<1>12. DOMAIN statements' = 1..(m + n) /\ compiled' = compiled + 1 /\ ordered' = ordered
  BY <1>1, <1>6
<1>13. \A s \in DOMAIN statements' : \E k \in 1..compiled' :
         statements'[s].group = ordered'[k]
  BY <1>9, <1>12
<1>14. \A s, r \in DOMAIN statements' : \A k, l \in 1..compiled' :
         statements'[s].group = ordered'[k] /\ statements'[r].group = ordered'[l] /\ k < l
           => s < r
  BY <1>10, <1>12
<1>15. \A k \in 1..compiled' : \E s \in DOMAIN statements' :
         statements'[s].group = ordered'[k]
  BY <1>11, <1>12
<1> QED BY <1>13, <1>14, <1>15 DEF StatementInv

\* So does every step.
LEMMA NextStatementInv ==
  TypeInv /\ OrderInv /\ StatementInv /\ [Next]_vars => StatementInv'
<1> SUFFICES ASSUME TypeInv, OrderInv, StatementInv, [Next]_vars PROVE StatementInv'
  OBVIOUS
<1>1. CASE EmitGroup
  BY <1>1, EmitStatementInv
<1>2. CASE AcceptPlan \/ RejectPlan \/ KeepValidGroups \/ BuildGraph \/ PlaceGroup
           \/ OrderFails \/ OrderDone
  <2>1. compiled' = 0 /\ statements' = <<>>
    BY <1>2 DEF AcceptPlan, RejectPlan, KeepValidGroups, BuildGraph, PlaceGroup,
                OrderFails, OrderDone, TypeInv, PhaseInv
  <2> QED BY <2>1 DEF StatementInv
<1>3. CASE EmitFails
  <2>1. CASE statements' = statements
    BY <1>3, <2>1 DEF EmitFails, StatementInv
  <2>2. CASE statements' = <<>>
    BY <1>3, <2>2 DEF EmitFails, StatementInv
  <2> QED BY <1>3, <2>1, <2>2 DEF EmitFails, KeptOnFailure
<1>4. CASE EmitDone \/ Finish
  <2>1. statements' = statements /\ compiled' = compiled /\ ordered' = ordered
    BY <1>4 DEF EmitDone, Finish
  <2>2. pc' = "emit" => pc = "emit"
    BY <1>4 DEF EmitDone, Finish
  <2>3. \A s \in DOMAIN statements' : \E k \in 1..compiled' :
          statements'[s].group = ordered'[k]
    BY <2>1 DEF StatementInv
  <2>4. \A s, r \in DOMAIN statements' : \A k, l \in 1..compiled' :
          statements'[s].group = ordered'[k] /\ statements'[r].group = ordered'[l] /\ k < l
            => s < r
    BY <2>1 DEF StatementInv
  <2>5. pc' = "emit" \/ statements' # <<>> =>
          \A k \in 1..compiled' : \E s \in DOMAIN statements' :
            statements'[s].group = ordered'[k]
    BY <2>1, <2>2 DEF StatementInv
  <2> QED BY <2>3, <2>4, <2>5 DEF StatementInv
<1>5. CASE UNCHANGED vars
  BY <1>5 DEF vars, StatementInv
<1> QED BY <1>1, <1>2, <1>3, <1>4, <1>5 DEF Next

\* In every program the compiler builds, for every plan and schema, the rows a
\* group references or depends on are inserted before its own.
THEOREM ParentsInsertedFirst == Spec => []ParentsFirst
<1>1. Init => StatementInv
  BY DEF Init, StatementInv
<1>2. TypeInv /\ OrderInv /\ StatementInv => ParentsFirst
  <2> SUFFICES ASSUME TypeInv, OrderInv, StatementInv,
                      NEW p \in plan.groups, NEW c \in plan.groups, MustPrecede(p, c),
                      NEW j \in DOMAIN statements, statements[j].group = plan.gid[c]
               PROVE  /\ \E i \in DOMAIN statements : statements[i].group = plan.gid[p]
                      /\ \A i \in DOMAIN statements :
                           statements[i].group = plan.gid[p] => i < j
    BY DEF ParentsFirst
  <2>1. <<plan.gid[p], plan.gid[c]>> \in Edges /\ plan.gid[p] \in Nodes
    BY DEF MustPrecede, Edges, FkEdges, Nodes
  <2>2. PICK k \in 1..compiled : ordered[k] = plan.gid[c]
    BY DEF StatementInv
  <2>3. /\ compiled \in Nat /\ compiled <= Len(ordered) /\ k \in DOMAIN ordered
        /\ Len(ordered) \in Nat
    BY LenProperties DEF TypeInv, TypeOK
  <2>4. PICK l \in 1..(k - 1) : ordered[l] = plan.gid[p]
    BY <2>1, <2>2, <2>3 DEF OrderInv
  <2>5. l \in 1..compiled /\ l < k
    BY <2>3, <2>4
  <2>6. statements # <<>>
    BY DEF TypeInv, TypeOK
  <2> QED BY <2>2, <2>4, <2>5, <2>6 DEF StatementInv
<1> QED BY <1>1, <1>2, NextStatementInv, OrderInvariant, PTL DEF Spec

-----------------------------------------------------------------------------
\* A non-empty set of positions has a first one, the last seen from the end.
LEMMA MinExists ==
  ASSUME NEW n \in Nat, NEW S \in SUBSET (1..n), S # {}
  PROVE  \E m \in S : \A k \in S : m <= k
<1> DEFINE T == {n + 1 - k : k \in S}
<1>1. T \in SUBSET (1..n) /\ T # {}
  <2>1. \A k \in 1..n : n + 1 - k \in 1..n
    OBVIOUS
  <2> QED BY <2>1
<1>2. PICK t \in T : \A u \in T : u <= t
  <2> HIDE DEF T
  <2> QED BY <1>1, MaxExists
<1>3. PICK m \in S : t = n + 1 - m
  OBVIOUS
<1>4. \A k \in S : n + 1 - k <= n + 1 - m
  BY <1>2, <1>3
<1>5. S \subseteq Int
  OBVIOUS
<1> QED BY <1>4, <1>5

\* Which of the shapes a row is the first of.
RankOf(rows, i) == Cardinality({h \in FirstRows(rows) : h <= i})

\* Each shape has one first row: the first rows are numbered without a gap.
LEMMA RankIsBijective ==
  ASSUME NEW rows \in Seq(Shapes)
  PROVE  LET n == Cardinality(FirstRows(rows))
         IN  /\ \A i \in FirstRows(rows) : RankOf(rows, i) \in 1..n
             /\ \A i, j \in FirstRows(rows) : RankOf(rows, i) = RankOf(rows, j) => i = j
             /\ \A k \in 1..n : \E i \in FirstRows(rows) : RankOf(rows, i) = k
<1> DEFINE F == FirstRows(rows)
           n == Cardinality(F)
           Upto(i) == {h \in F : h <= i}
           rank == [i \in F |-> Cardinality(Upto(i))]
<1>1. F \subseteq Nat /\ IsFiniteSet(F) /\ n \in Nat
  BY ShapesOfRows, LenProperties DEF FirstRows
<1>2. \A i \in F : RankOf(rows, i) = Cardinality(Upto(i))
  BY DEF RankOf
<1> HIDE DEF F, n
<1>3. \A i \in F : IsFiniteSet(Upto(i)) /\ Cardinality(Upto(i)) \in Nat
                   /\ Cardinality(Upto(i)) <= n
  BY <1>1, FS_Subset, FS_CardinalityType DEF n
<1>4. \A i \in F : Cardinality(Upto(i)) \in 1..n
  <2> SUFFICES ASSUME NEW i \in F PROVE Cardinality(Upto(i)) \in 1..n
    OBVIOUS
  <2>1. i \in Upto(i)
    BY <1>1
  <2>2. Cardinality(Upto(i)) # 0
    <3> HIDE DEF Upto
    <3> QED BY <2>1, <1>3, FS_EmptySet
  <2>3. Cardinality(Upto(i)) \in Nat /\ Cardinality(Upto(i)) <= n
    BY <1>3
  <2> HIDE DEF Upto
  <2> QED BY <2>2, <2>3, <1>1
<1>5. ASSUME NEW i \in F, NEW j \in F, i < j
      PROVE  Cardinality(Upto(i)) # Cardinality(Upto(j))
  <2>1. Upto(i) \in SUBSET Upto(j)
    <3>1. \A h \in F : h <= i => h <= j
      BY <1>1, <1>5
    <3> QED BY <3>1
  <2>2. j \in Upto(j) /\ j \notin Upto(i)
    BY <1>1, <1>5
  <2> HIDE DEF Upto
  <2> QED BY <2>1, <2>2, <1>3, FS_Subset
<1>6. \A i, j \in F : Cardinality(Upto(i)) = Cardinality(Upto(j)) => i = j
  BY <1>1, <1>5
<1>7. rank \in Injection(F, 1..n)
  BY <1>4, <1>6 DEF Injection, IsInjective
<1>8. IsFiniteSet(1..n) /\ Cardinality(1..n) = n
  BY <1>1, FS_Interval
<1>9. rank \in Surjection(F, 1..n)
  <2> HIDE DEF rank
  <2> QED BY <1>7, <1>8, FS_Injection DEF n
<1>10. \A k \in 1..n : \E i \in F : rank[i] = k
  BY <1>9 DEF Surjection
<1>11. /\ \A i \in F : RankOf(rows, i) \in 1..n
       /\ \A i, j \in F : RankOf(rows, i) = RankOf(rows, j) => i = j
       /\ \A k \in 1..n : \E i \in F : RankOf(rows, i) = k
  <2>1. \A i \in F : rank[i] = Cardinality(Upto(i))
    OBVIOUS
  <2> HIDE DEF Upto, rank
  <2> QED BY <1>2, <1>4, <1>6, <1>10, <2>1
<1> QED BY <1>11 DEF F, n

\* Every row has one of the shapes, and only one.
LEMMA RowHasOneShape ==
  ASSUME NEW rows \in Seq(Shapes), NEW r \in DOMAIN rows
  PROVE  \E k \in DOMAIN GroupShapes(rows) :
           /\ r \in GroupShapes(rows)[k]
           /\ \A l \in DOMAIN GroupShapes(rows) : r \in GroupShapes(rows)[l] => l = k
<1> DEFINE F == FirstRows(rows)
           n == Cardinality(F)
           like == {j \in DOMAIN rows : rows[j] = rows[r]}
<1>1. DOMAIN rows = 1..Len(rows) /\ Len(rows) \in Nat
  BY LenProperties
<1>2. PICK f \in like : \A j \in like : f <= j
  <2>1. like \in SUBSET (1..Len(rows)) /\ like # {}
    BY <1>1
  <2> QED BY <1>1, <2>1, MinExists
<1>3. f \in F /\ rows[f] = rows[r]
  BY <1>1, <1>2 DEF FirstRows
<1>4. \A i, j \in F : rows[i] = rows[j] => i = j
  BY <1>1 DEF FirstRows
<1>5. ASSUME NEW k \in 1..n
      PROVE  \E i \in F : RankOf(rows, i) = k /\ NthShape(rows, k) = rows[i]
  <2>1. PICK i \in F : RankOf(rows, i) = k
    BY RankIsBijective
  <2>2. \A j \in F : RankOf(rows, j) = k => j = i
    BY <2>1, RankIsBijective
  <2>3. (CHOOSE j \in F : Cardinality({h \in F : h <= j}) = k) = i
    BY <2>1, <2>2 DEF RankOf
  <2> QED BY <2>1, <2>3 DEF NthShape
<1>6. DOMAIN GroupShapes(rows) = 1..n
      /\ \A k \in 1..n : r \in GroupShapes(rows)[k] <=> rows[r] = NthShape(rows, k)
  BY DEF GroupShapes
<1>7. RankOf(rows, f) \in 1..n
  BY <1>3, RankIsBijective
<1>8. \A k \in 1..n : rows[r] = NthShape(rows, k) <=> k = RankOf(rows, f)
  <2> SUFFICES ASSUME NEW k \in 1..n
               PROVE  rows[r] = NthShape(rows, k) <=> k = RankOf(rows, f)
    OBVIOUS
  <2>1. PICK i \in F : RankOf(rows, i) = k /\ NthShape(rows, k) = rows[i]
    BY <1>5
  <2>2. RankOf(rows, i) = RankOf(rows, f) => i = f
    BY <1>3, RankIsBijective
  <2> QED BY <1>3, <1>4, <2>1, <2>2
<1> QED BY <1>6, <1>7, <1>8

-----------------------------------------------------------------------------
\* A statement of group g that inserts its row r, and the only one.
Inserts(stmts, g, r, i) ==
  /\ stmts[i].group = g /\ r \in stmts[i].rows
  /\ \A j \in DOMAIN stmts : stmts[j].group = g /\ r \in stmts[j].rows => j = i

\* Every row of a group compiled so far is in one statement of its group, unless
\* the program was emptied.
RowInv ==
  pc = "emit" \/ statements # <<>> =>
    \A k \in 1..compiled : \A r \in DOMAIN plan.rows[Position(ordered[k])] :
      \E i \in DOMAIN statements : Inserts(statements, ordered[k], r, i)

\* The statements of a group insert each of its rows once.
LEMMA GroupInserts ==
  ASSUME plan \in PlanType, NEW g \in Nodes, NEW r \in DOMAIN plan.rows[Position(g)]
  PROVE  \E i \in DOMAIN GroupStatements(g) : Inserts(GroupStatements(g), g, r, i)
<1> DEFINE rows == plan.rows[Position(g)]
<1>1. rows \in Seq(Shapes)
  BY PositionOfNode DEF PlanType
<1>2. PICK k \in DOMAIN GroupShapes(rows) :
        /\ r \in GroupShapes(rows)[k]
        /\ \A l \in DOMAIN GroupShapes(rows) : r \in GroupShapes(rows)[l] => l = k
  BY <1>1, RowHasOneShape
<1>3. /\ DOMAIN GroupStatements(g) = DOMAIN GroupShapes(rows)
      /\ \A l \in DOMAIN GroupShapes(rows) :
           GroupStatements(g)[l] = [group |-> g, rows |-> GroupShapes(rows)[l]]
  BY DEF GroupStatements
<1> HIDE DEF rows
<1> QED BY <1>2, <1>3 DEF Inserts

\* Emitting a group adds the statements of its rows, and none of another group.
LEMMA EmitRowInv ==
  ASSUME TypeInv, OrderInv, StatementInv, RowInv, EmitGroup
  PROVE  RowInv'
<1> DEFINE g == ordered[compiled + 1]
           new == GroupStatements(g)
           m == Len(statements)
           n == Len(new)
<1>1. /\ pc = "emit" /\ compiled' = compiled + 1 /\ ordered' = ordered /\ plan' = plan
      /\ statements' = statements \o new
  BY DEF EmitGroup
<1>2. /\ Len(ordered) \in Nat /\ DOMAIN ordered = 1..Len(ordered)
      /\ compiled \in Nat /\ compiled + 1 \in 1..Len(ordered)
      /\ ordered \in Seq(Nodes) /\ statements \in Seq(Statement)
  BY LenProperties DEF EmitGroup, TypeInv, TypeOK, Statement
<1>3. g \in Nodes
  BY <1>2, ElementOfSeq
<1>4. new \in Seq(Statement) /\ (\A k \in DOMAIN new : new[k].group = g)
  BY <1>3, StatementsOfGroup DEF TypeInv, TypeOK
<1>5. \A r \in DOMAIN plan.rows[Position(g)] : \E i \in DOMAIN new : Inserts(new, g, r, i)
  BY <1>3, GroupInserts DEF TypeInv, TypeOK
<1>6. /\ m \in Nat /\ n \in Nat /\ DOMAIN statements = 1..m /\ DOMAIN new = 1..n
      /\ DOMAIN statements' = 1..(m + n)
      /\ \A i \in 1..m : i \in 1..(m + n) /\ statements'[i] = statements[i]
      /\ \A i \in 1..n : m + i \in 1..(m + n) /\ statements'[m + i] = new[i]
      /\ \A j \in 1..(m + n) : j \in 1..m \/ \E i \in 1..n : j = m + i
  <2> HIDE DEF new
  <2>1. /\ m \in Nat /\ n \in Nat /\ DOMAIN statements = 1..m /\ DOMAIN new = 1..n
        /\ DOMAIN statements' = 1..(m + n)
        /\ \A s \in 1..(m + n) :
             statements'[s] = IF s <= m THEN statements[s] ELSE new[s - m]
    BY <1>1, <1>2, <1>4, LenProperties, ConcatProperties
  <2> HIDE DEF m, n
  <2>2. \A i \in 1..m : i \in 1..(m + n) /\ statements'[i] = statements[i]
    BY <2>1
  <2>3. \A i \in 1..n : m + i \in 1..(m + n) /\ statements'[m + i] = new[i]
    BY <2>1
  <2>4. ASSUME NEW j \in 1..(m + n), j \notin 1..m
        PROVE  \E i \in 1..n : j = m + i
    <3>1. j - m \in 1..n /\ j = m + (j - m)
      BY <2>1, <2>4
    <3> QED BY <3>1
  <2> QED BY <2>1, <2>2, <2>3, <2>4
<1>7. \A k \in 1..compiled : ordered[k] # g
  BY <1>2 DEF OrderInv
<1>8. \A j \in 1..m : statements[j].group # g
  BY <1>6, <1>7 DEF StatementInv
<1> HIDE DEF new, g, m, n
<1>9. ASSUME NEW k \in 1..compiled, NEW r \in DOMAIN plan.rows[Position(ordered[k])]
       PROVE  \E i \in DOMAIN statements' : Inserts(statements', ordered[k], r, i)
  <2>1. PICK i \in 1..m : Inserts(statements, ordered[k], r, i)
    BY <1>1, <1>6 DEF RowInv
  <2>2. \A j \in 1..(m + n) :
          statements'[j].group = ordered[k] /\ r \in statements'[j].rows => j = i
    <3> SUFFICES ASSUME NEW j \in 1..(m + n), statements'[j].group = ordered[k],
                        r \in statements'[j].rows
                 PROVE  j = i
      OBVIOUS
    <3>1. ASSUME j \notin 1..m PROVE FALSE
      <4>1. PICK h \in 1..n : j = m + h
        BY <1>6, <3>1
      <4>2. statements'[j] = new[h] /\ new[h].group = g
        BY <1>4, <1>6, <4>1
      <4> QED BY <1>7, <4>2
    <3> QED BY <1>6, <2>1, <3>1 DEF Inserts
  <2>3. statements'[i].group = ordered[k] /\ r \in statements'[i].rows
    BY <1>6, <2>1 DEF Inserts
  <2> QED BY <1>6, <2>2, <2>3 DEF Inserts
<1>10. ASSUME NEW r \in DOMAIN plan.rows[Position(g)]
       PROVE  \E i \in DOMAIN statements' : Inserts(statements', g, r, i)
  <2>1. PICK i \in 1..n : Inserts(new, g, r, i)
    BY <1>5, <1>6
  <2>2. \A j \in 1..(m + n) :
          statements'[j].group = g /\ r \in statements'[j].rows => j = m + i
    <3> SUFFICES ASSUME NEW j \in 1..(m + n), statements'[j].group = g,
                        r \in statements'[j].rows
                 PROVE  j = m + i
      OBVIOUS
    <3>1. PICK h \in 1..n : j = m + h
      BY <1>6, <1>8
    <3> QED BY <1>6, <2>1, <3>1 DEF Inserts
  <2>3. m + i \in 1..(m + n) /\ statements'[m + i].group = g /\ r \in statements'[m + i].rows
    BY <1>6, <2>1 DEF Inserts
  <2>4. Inserts(statements', g, r, m + i)
    BY <1>6, <2>2, <2>3 DEF Inserts
  <2>5. m + i \in DOMAIN statements'
    BY <1>6, <2>3
  <2> QED BY <2>4, <2>5
<1>11. ASSUME NEW k \in 1..(compiled + 1),
              NEW r \in DOMAIN plan.rows[Position(ordered[k])]
       PROVE  \E i \in DOMAIN statements' : Inserts(statements', ordered[k], r, i)
  <2>1. CASE k \in 1..compiled
    BY <1>9, <2>1
  <2>2. CASE k = compiled + 1
    BY <1>10, <2>2 DEF g
  <2> QED BY <1>2, <2>1, <2>2
<1>12. \A k \in 1..(compiled + 1) : Position(ordered[k])' = Position(ordered[k])
  BY <1>1 DEF Position
<1>13. \A k \in 1..compiled' : \A r \in DOMAIN plan'.rows[Position(ordered[k])'] :
         \E i \in DOMAIN statements' : Inserts(statements', ordered'[k], r, i)
  BY <1>1, <1>11, <1>12
<1> QED BY <1>13 DEF RowInv, Inserts

\* So does every step keep the rows where they are.
LEMMA NextRowInv ==
  TypeInv /\ OrderInv /\ StatementInv /\ RowInv /\ [Next]_vars => RowInv'
<1> SUFFICES ASSUME TypeInv, OrderInv, StatementInv, RowInv, [Next]_vars PROVE RowInv'
  OBVIOUS
<1>1. CASE EmitGroup
  BY <1>1, EmitRowInv
<1>2. CASE AcceptPlan \/ RejectPlan \/ KeepValidGroups \/ BuildGraph \/ PlaceGroup
           \/ OrderFails \/ OrderDone
  <2>1. compiled' = 0
    BY <1>2 DEF AcceptPlan, RejectPlan, KeepValidGroups, BuildGraph, PlaceGroup,
                OrderFails, OrderDone, TypeInv, PhaseInv
  <2> QED BY <2>1 DEF RowInv
<1>3. CASE EmitFails /\ statements' = <<>>
  BY <1>3 DEF EmitFails, RowInv
<1>4. CASE (EmitFails /\ statements' = statements) \/ EmitDone \/ Finish \/ UNCHANGED vars
  <2>1. /\ statements' = statements /\ compiled' = compiled /\ ordered' = ordered
        /\ plan' = plan /\ (pc' = "emit" => pc = "emit")
    BY <1>4 DEF EmitFails, EmitDone, Finish, vars
  <2>2. \A k \in 1..compiled : Position(ordered[k])' = Position(ordered[k])
    BY <2>1 DEF Position
  <2> QED BY <2>1, <2>2 DEF RowInv, Inserts
<1>5. EmitFails => statements' = statements \/ statements' = <<>>
  BY DEF EmitFails, KeptOnFailure
<1> QED BY <1>1, <1>2, <1>3, <1>4, <1>5 DEF Next

\* What a compilation that is not best-effort knows at each phase: no error
\* before the end, no statement with one, and every group compiled without.
OutcomeInv ==
  mode # "best_effort" =>
    /\ pc \notin {"finish", "done"} => ~errors
    /\ pc # "verify" /\ ~errors => UniqueIds
    /\ pc = "emit" => Len(ordered) = Cardinality(plan.groups)
    /\ pc \in {"finish", "done"} =>
         IF errors THEN statements = <<>>
                   ELSE compiled = Len(ordered) /\ Len(ordered) = Cardinality(plan.groups)
    /\ pc = "done" => (status = "success" <=> ~errors /\ statements # <<>>)

\* Every step keeps it.
LEMMA NextOutcomeInv == TypeInv /\ OutcomeInv /\ [Next]_vars => OutcomeInv'
<1> SUFFICES ASSUME TypeInv, OutcomeInv, [Next]_vars, mode' # "best_effort"
             PROVE  OutcomeInv'
  BY DEF OutcomeInv
<1>1. mode # "best_effort"
  BY DEF Next, AcceptPlan, RejectPlan, KeepValidGroups, BuildGraph, PlaceGroup,
         OrderFails, OrderDone, EmitGroup, EmitFails, EmitDone, Finish, vars
<1>2. ~KeepValidGroups
  BY <1>1 DEF KeepValidGroups
<1>3. plan' = plan
  BY <1>2 DEF Next, AcceptPlan, RejectPlan, BuildGraph, PlaceGroup,
         OrderFails, OrderDone, EmitGroup, EmitFails, EmitDone, Finish, vars
<1>4. UniqueIds' = UniqueIds
  BY <1>3 DEF UniqueIds
<1>5. CASE AcceptPlan
  BY <1>1, <1>3, <1>4, <1>5 DEF AcceptPlan, OutcomeInv, PlanVerifies
<1>6. CASE RejectPlan
  BY <1>1, <1>3, <1>4, <1>6 DEF RejectPlan, OutcomeInv, TypeInv, PhaseInv
<1>7. CASE BuildGraph
  BY <1>1, <1>3, <1>4, <1>7 DEF BuildGraph, OutcomeInv
<1>8. CASE PlaceGroup
  BY <1>1, <1>3, <1>4, <1>8 DEF PlaceGroup, OutcomeInv
<1>9. CASE OrderFails
  BY <1>1, <1>3, <1>4, <1>9 DEF OrderFails, OutcomeInv, TypeInv, PhaseInv
<1>10. CASE OrderDone
  BY <1>1, <1>3, <1>4, <1>10 DEF OrderDone, OutcomeInv
<1>11. CASE EmitGroup
  BY <1>1, <1>3, <1>4, <1>11 DEF EmitGroup, OutcomeInv
<1>12. CASE EmitFails
  BY <1>1, <1>3, <1>4, <1>12 DEF EmitFails, KeptOnFailure, OutcomeInv
<1>13. CASE EmitDone
  BY <1>1, <1>3, <1>4, <1>13 DEF EmitDone, OutcomeInv
<1>14. CASE Finish
  BY <1>1, <1>3, <1>4, <1>14 DEF Finish, ProgramStatus, OutcomeInv
<1>15. CASE UNCHANGED vars
  BY <1>1, <1>3, <1>4, <1>15 DEF vars, OutcomeInv
<1> QED BY <1>2, <1>5, <1>6, <1>7, <1>8, <1>9, <1>10, <1>11, <1>12, <1>13, <1>14, <1>15
        DEF Next

\* Strict compilation and compile_verified_plan, for every plan: a successful
\* program inserts each row of each group once, any other program inserts none.
THEOREM WholeOrNothing == Spec => []AllOrNothing
<1>1. Init => StatementInv /\ RowInv /\ OutcomeInv
  BY DEF Init, StatementInv, RowInv, OutcomeInv
<1>2. TypeInv /\ OrderInv /\ RowInv /\ OutcomeInv => AllOrNothing
  <2> SUFFICES ASSUME TypeInv, OrderInv, RowInv, OutcomeInv,
                      pc = "done", mode # "best_effort"
               PROVE  IF status = "success" THEN EveryRowOnce ELSE statements = <<>>
    BY DEF AllOrNothing
  <2>1. CASE status # "success"
    BY <2>1 DEF OutcomeInv
  <2>2. CASE status = "success"
    <3>1. /\ statements # <<>> /\ UniqueIds
          /\ compiled = Len(ordered) /\ Len(ordered) = Cardinality(plan.groups)
      BY <2>2 DEF OutcomeInv
    <3>2. Placed = Nodes
      <4>1. Cardinality(Nodes) = Cardinality(plan.groups) /\ IsFiniteSet(Nodes)
        BY <3>1, NodesFinite DEF TypeInv, TypeOK
      <4>2. Placed \in SUBSET Nodes /\ Cardinality(Placed) = Len(ordered)
        BY PlacedCardinality
      <4> QED BY <3>1, <4>1, <4>2, FS_Subset
    <3>3. ASSUME NEW p \in plan.groups, NEW r \in DOMAIN plan.rows[p]
          PROVE  \E i \in DOMAIN statements : Inserts(statements, plan.gid[p], r, i)
      <4>1. plan.gid[p] \in Nodes
        BY DEF Nodes
      <4>2. Position(plan.gid[p]) = p
        BY <3>1, <4>1, PositionOfNode DEF UniqueIds, TypeInv, TypeOK
      <4>3. PICK k \in DOMAIN ordered : ordered[k] = plan.gid[p]
        BY <3>2, <4>1 DEF Placed
      <4>4. k \in 1..compiled
        BY <3>1, <4>3, LenProperties DEF TypeInv, TypeOK
      <4> QED BY <3>1, <4>2, <4>3, <4>4 DEF RowInv
    <3> QED BY <2>2, <3>3 DEF EveryRowOnce, Inserts
  <2> QED BY <2>1, <2>2
<1> QED BY <1>1, <1>2, NextStatementInv, NextRowInv, NextOutcomeInv, OrderInvariant,
           PTL DEF Spec

\* No group is in a program by half, in any mode and after any failure: the
\* program that inserts one row of a group inserts every row of it, each once.
\* This is what makes a best-effort program partial by groups and not by rows.
GroupsWhole ==
  \A s \in DOMAIN statements :
    \A r \in DOMAIN plan.rows[Position(statements[s].group)] :
      \E i \in DOMAIN statements : Inserts(statements, statements[s].group, r, i)

THEOREM NoHalfGroup == Spec => []GroupsWhole
<1>1. Init => StatementInv /\ RowInv
  BY DEF Init, StatementInv, RowInv
<1>2. TypeInv /\ StatementInv /\ RowInv => GroupsWhole
  <2> SUFFICES ASSUME TypeInv, StatementInv, RowInv, NEW s \in DOMAIN statements,
                      NEW r \in DOMAIN plan.rows[Position(statements[s].group)]
               PROVE  \E i \in DOMAIN statements :
                        Inserts(statements, statements[s].group, r, i)
    BY DEF GroupsWhole
  <2>1. PICK k \in 1..compiled : statements[s].group = ordered[k]
    BY DEF StatementInv
  <2>2. statements # <<>>
    BY EmptySeq DEF TypeInv, TypeOK
  <2> QED BY <2>1, <2>2 DEF RowInv
<1> QED BY <1>1, <1>2, NextStatementInv, NextRowInv, OrderInvariant, PTL DEF Spec

-----------------------------------------------------------------------------
\* Ids stand at different positions.
LEMMA PositionsDiffer ==
  ASSUME plan \in PlanType, NEW g \in Nodes, NEW h \in Nodes, Position(g) = Position(h)
  PROVE  g = h
BY PositionOfNode

\* Some id of a non-empty set stands first in the plan.
LEMMA FirstExists ==
  ASSUME plan \in PlanType, NEW S \in SUBSET Nodes, S # {}
  PROVE  \E g \in S : \A h \in S : Position(g) <= Position(h)
<1> DEFINE P == {Position(g) : g \in S}
<1>1. P \in SUBSET (1..N) /\ P # {}
  BY PositionOfNode DEF PlanType, Positions
<1>2. PICK m \in P : \A k \in P : m <= k
  <2> HIDE DEF P
  <2> QED BY <1>1, MinExists, NAssumption
<1> QED BY <1>2

\* A compilation that has not ended can go on, and the order is a function of
\* the plan: a plan refused by the verifier has a mode to handle it, and as long
\* as groups are ready there is one, and only one, that the loop places.
CanGoOn ==
  /\ pc = "verify" /\ ~PlanVerifies => mode \in {"strict", "best_effort"}
  /\ pc = "order" /\ ready # {} =>
       \E g \in Nodes : FirstReady(g) /\ \A h \in Nodes : FirstReady(h) => h = g

THEOREM OneNextGroup == Spec => []CanGoOn
<1> DEFINE Inv == pc = "verify" /\ mode = "verified" => PlanVerifies
<1>1. Init => Inv
  BY DEF Init
<1>2. Inv /\ [Next]_vars => Inv'
  <2> SUFFICES ASSUME Inv, [Next]_vars PROVE Inv'
    OBVIOUS
  <2>1. CASE UNCHANGED vars
    <3>1. PlanVerifies' = PlanVerifies
      BY <2>1 DEF vars, PlanVerifies, UniqueIds, DependenciesVerify, Nodes, Closed
    <3> QED BY <2>1, <3>1 DEF vars
  <2>2. CASE Next
    <3>1. pc' # "verify"
      BY <2>2 DEF Next, AcceptPlan, RejectPlan, KeepValidGroups, BuildGraph, PlaceGroup,
           OrderFails, OrderDone, EmitGroup, EmitFails, EmitDone, Finish
    <3> QED BY <3>1
  <2> QED BY <2>1, <2>2
<1>3. TypeInv /\ Inv => CanGoOn
  <2> SUFFICES ASSUME TypeInv, Inv PROVE CanGoOn
    OBVIOUS
  <2>1. ASSUME pc = "verify", ~PlanVerifies
        PROVE  mode \in {"strict", "best_effort"}
    BY <2>1 DEF TypeInv, TypeOK, Modes
  <2>2. ASSUME pc = "order", ready # {}
        PROVE  \E g \in Nodes : FirstReady(g) /\ \A h \in Nodes : FirstReady(h) => h = g
    <3>1. ready \in SUBSET Nodes /\ plan \in PlanType
      BY DEF TypeInv, TypeOK
    <3>2. PICK g \in ready : \A h \in ready : Position(g) <= Position(h)
      BY <2>2, <3>1, FirstExists
    <3>3. ASSUME NEW h \in Nodes, FirstReady(h)
          PROVE  h = g
      <4>1. Position(g) <= Position(h) /\ Position(h) <= Position(g)
        BY <3>2, <3>3 DEF FirstReady
      <4>2. Position(g) \in Int /\ Position(h) \in Int
        BY <3>1, PositionOfNode DEF PlanType, Positions
      <4>3. Position(g) = Position(h)
        BY <4>1, <4>2
      <4> QED BY <3>1, <4>3, PositionsDiffer
    <3> QED BY <3>1, <3>2, <3>3 DEF FirstReady
  <2> QED BY <2>1, <2>2 DEF CanGoOn
<1> QED BY <1>1, <1>2, <1>3, OrderInvariant, PTL DEF Spec

-----------------------------------------------------------------------------
\* What is left to do: the phases to come, the groups to place and the groups
\* to compile.
Stage ==
  CASE pc = "verify" -> 5
    [] pc = "graph"  -> 4
    [] pc = "order"  -> 3
    [] pc = "emit"   -> 2
    [] pc = "finish" -> 1
    [] pc = "done"   -> 0

Left == (N - Len(ordered)) + (N - compiled) + Stage
LessLeft == Left \in Nat /\ Left' \in Nat /\ Left' < Left

\* No more groups are placed than the plan has positions.
Fits == Len(ordered) \in 0..N /\ compiled \in 0..N

LEMMA OrderFits == TypeInv /\ OrderInv => Fits
<1> SUFFICES ASSUME TypeInv, OrderInv PROVE Fits
  OBVIOUS
<1>1. /\ Cardinality(Nodes) \in Nat /\ IsFiniteSet(Nodes)
      /\ Cardinality(plan.groups) \in Nat
      /\ Cardinality(Nodes) <= Cardinality(plan.groups)
  BY NodesFinite DEF TypeInv, TypeOK
<1>2. Cardinality(plan.groups) <= N
  <2>1. IsFiniteSet(1..N) /\ Cardinality(1..N) = N
    BY FS_Interval, NAssumption
  <2>2. plan.groups \in SUBSET (1..N)
    BY DEF TypeInv, TypeOK, PlanType, Positions
  <2> QED BY <2>1, <2>2, FS_Subset
<1>3. Len(ordered) <= Cardinality(Nodes)
  <2>1. Placed \in SUBSET Nodes /\ Cardinality(Placed) = Len(ordered)
    BY PlacedCardinality
  <2> QED BY <1>1, <2>1, FS_Subset
<1>4. Len(ordered) \in Nat /\ compiled \in 0..Len(ordered)
  BY LenProperties DEF TypeInv, TypeOK
<1> QED BY <1>1, <1>2, <1>3, <1>4, NAssumption DEF Fits

\* Every step of the compiler leaves less to do: the measure by which it ends,
\* whatever the plan, cyclic or not.
THEOREM EveryStepCounts == Spec => [][LessLeft]_vars
<1>1. TypeInv /\ Fits /\ TypeInv' /\ Fits' /\ [Next]_vars => [LessLeft]_vars
  <2> SUFFICES ASSUME TypeInv, Fits, TypeInv', Fits', Next
               PROVE  LessLeft
    OBVIOUS
  <2> DEFINE a == N - Len(ordered)
             b == N - compiled
  <2>1. Len(ordered) \in 0..N /\ compiled \in 0..N
    BY DEF Fits
  <2>2. Len(ordered') \in 0..N /\ compiled' \in 0..N
    BY DEF Fits
  <2>3. a \in Nat /\ b \in Nat /\ a' \in Nat /\ b' \in Nat
    <3>1. \A c \in 0..N : N - c \in Nat
      BY NAssumption
    <3> QED BY <2>1, <2>2, <3>1
  <2>4. Stage \in Nat /\ Stage' \in Nat
    BY DEF Stage, TypeInv, TypeOK
  <2>5. /\ (a' < a /\ b' = b /\ Stage' = Stage) => LessLeft
        /\ (a' = a /\ b' < b /\ Stage' = Stage) => LessLeft
        /\ (a' = a /\ b' = b /\ Stage' < Stage) => LessLeft
    <3>1. \A x, y, z, w \in Nat :
            /\ x + y + z \in Nat
            /\ w < x => w + y + z < x + y + z
            /\ w < y => x + w + z < x + y + z
            /\ w < z => x + y + w < x + y + z
      OBVIOUS
    <3>2. Left = a + b + Stage /\ Left' = a' + b' + Stage'
      BY DEF Left
    <3> HIDE DEF a, b
    <3> QED BY <2>3, <2>4, <3>1, <3>2 DEF LessLeft
  <2>6. CASE PlaceGroup
    <3>1. PICK g \in Nodes : ordered' = Append(ordered, g)
      BY <2>6 DEF PlaceGroup
    <3>2. Len(ordered') = Len(ordered) + 1
      BY <3>1, AppendProperties DEF TypeInv, TypeOK
    <3>3. N - (Len(ordered) + 1) < N - Len(ordered)
      BY <2>1, NAssumption
    <3>4. compiled' = compiled /\ Stage' = Stage
      BY <2>6 DEF PlaceGroup, Stage
    <3> QED BY <2>5, <3>2, <3>3, <3>4
  <2>7. CASE EmitGroup
    <3>1. compiled' = compiled + 1 /\ ordered' = ordered /\ Stage' = Stage
      BY <2>7 DEF EmitGroup, Stage
    <3>2. N - (compiled + 1) < N - compiled
      BY <2>1, NAssumption
    <3> QED BY <2>5, <3>1, <3>2
  <2>8. CASE AcceptPlan \/ RejectPlan \/ KeepValidGroups \/ BuildGraph \/ OrderFails
             \/ OrderDone \/ EmitFails \/ EmitDone \/ Finish
    <3>1. ordered' = ordered /\ compiled' = compiled
      BY <2>8 DEF AcceptPlan, RejectPlan, KeepValidGroups, BuildGraph, OrderFails,
           OrderDone, EmitFails, EmitDone, Finish
    <3>2. Stage' < Stage
      BY <2>8 DEF Stage, AcceptPlan, RejectPlan, KeepValidGroups, BuildGraph, OrderFails,
           OrderDone, EmitFails, EmitDone, Finish
    <3> QED BY <2>5, <3>1, <3>2
  <2> QED BY <2>6, <2>7, <2>8 DEF Next
<1> QED BY <1>1, OrderFits, OrderInvariant, PTL DEF Spec
=============================================================================
