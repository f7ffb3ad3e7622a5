----------------------------- MODULE MCCompiler -----------------------------
(* Three write groups over three tables.  The first family of plans has every  *)
(* dependency graph of at most two declared and two foreign-key edges; the     *)
(* second varies what verification and value building find wrong.              *)
EXTENDS Compiler

CONSTANTS a, b, c, t, u, v, x, y

MCIds == {a, b, c}
MCTables == {t, u, v}
MCShapes == {x, y}

AtMostTwo(S) == {{}} \cup {{e} : e \in S} \cup {{e[1], e[2]} : e \in S \X S}

Plan(gid, table, deps, fk, ok, clean, raises) ==
  [ groups |-> Positions, gid |-> gid, table |-> table,
    rows |-> <<<<x, y, x>>, <<x>>, <<y, x>>>>,
    deps |-> deps, fk |-> fk, ok |-> ok, clean |-> clean, raises |-> raises ]

GraphPlans ==
  {Plan(<<a, b, c>>, table, deps, fk, Positions, TRUE, {}) :
     table \in {<<t, u, v>>, <<v, u, u>>, <<u, t, u>>},
     deps \in AtMostTwo(MCIds \X MCIds),
     fk \in AtMostTwo(MCTables \X MCTables)}

FaultyPlans ==
  {Plan(gid, <<t, u, v>>, deps, fk, ok, clean, raises) :
     gid \in {<<a, b, c>>, <<a, b, a>>},
     deps \in {{}, {<<c, a>>}, {<<a, b>>, <<b, a>>}},
     fk \in {{}, {<<u, t>>}, {<<u, t>>, <<t, v>>}},
     ok \in SUBSET Positions, clean \in BOOLEAN, raises \in {{}, {1}, {2}}}

MCPlans == GraphPlans \cup FaultyPlans
=============================================================================
