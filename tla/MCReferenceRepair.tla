------------------------- MODULE MCReferenceRepair -------------------------
(* Two collections, c1 (people) with the fields a (f1), b (f2) and Y (f3)   *)
(* and c2 (pets) with the fields d (g1) and w (g2); two tables, t1 (T) with *)
(* the columns x, y and the generated column z, t2 (U) with the column w;   *)
(* four spans, e1 a word where a date is asked for, e2 a date after it, e3  *)
(* a number with a full stop, e4 the number.                                *)
EXTENDS ReferenceRepair, TLC

CONSTANTS MCBlank, MCSpace

MCCollectionOf == [r \in {"c1", "people"} |-> "C"] @@ [r \in {"c2", "pets"} |-> "D"]
MCSelectorOf == "s1" :> "C" @@ "s2" :> "D"
MCFieldOf == "C" :> ("f1" :> "a" @@ "a" :> "a" @@ "f2" :> "b" @@ "b" :> "b"
                 @@ "f3" :> "Y" @@ "Y" :> "Y")
          @@ "D" :> ("g1" :> "d" @@ "d" :> "d" @@ "g2" :> "w" @@ "w" :> "w")
MCTableOf == "t1" :> "T" @@ "t2" :> "U"
MCColumnsOf == "T" :> {"x", "y", "z"} @@ "U" :> {"w"}
MCInsertable == {"x", "y", "w"}
MCPolicyOf == "T" :> {"key"} @@ "U" :> {}
MCEvidence == {"e1", "e2", "e3", "e4"}
MCUntimely == {"e1"}
MCLaterDates == [e \in MCEvidence |-> IF e = "e1" THEN {"e2"} ELSE {}]
MCTrimmed == [e \in MCEvidence |-> IF e = "e3" THEN {"e4"} ELSE {}]

\* What a planner may write for a reference: another spelling of a name, or
\* a reference that does not exist ("?").
Spelling == "People" :> "people" @@ "Tt" :> "T" @@ "A" :> "a" @@ "c.a" :> "a"
         @@ "X" :> "x" @@ "t.x" :> "x" @@ "Z" :> "z" @@ "Y" :> "y"
Valid == DOMAIN MCCollectionOf \cup DOMAIN MCSelectorOf \cup DOMAIN MCFieldOf["C"]
    \cup DOMAIN MCFieldOf["D"] \cup DOMAIN MCTableOf \cup MCInsertable
    \cup {"z", "key"} \cup MCEvidence
MCRefs == Valid \cup DOMAIN Spelling \cup {"?", MCBlank, MCSpace}
MCNameOf == "c1" :> "people" @@ "c2" :> "pets" @@ "f1" :> "a" @@ "f2" :> "b" @@ "f3" :> "y"
         @@ "g1" :> "d" @@ "g2" :> "w"
         @@ "t1" :> "T" @@ "t2" :> "U" @@ "x" :> "x" @@ "y" :> "y" @@ "z" :> "z" @@ "w" :> "w"
MCKeyOf == [r \in MCRefs |-> IF r \in DOMAIN Spelling THEN Spelling[r] ELSE r]

At(g, part, row, entry) == [group |-> g, part |-> part, row |-> row, entry |-> entry]

\* A mapping plan: a group with two entries, a constant and a conflict target.
Mapping(collection, selector, table, source, target, constant, policy) ==
     At(1, "collection", 0, 0) :> collection
  @@ At(1, "selector", 0, 0) :> selector
  @@ At(1, "table", 0, 0) :> table
  @@ At(1, "source", 0, 1) :> source[1] @@ At(1, "source", 0, 2) :> source[2]
  @@ At(1, "target", 0, 1) :> target[1] @@ At(1, "target", 0, 2) :> target[2]
  @@ At(1, "constant", 0, 1) :> constant
  @@ At(1, "policy", 0, 0) :> policy

\* And a second group, with one constant.
Second(table, constant) ==
  At(2, "table", 0, 0) :> table @@ At(2, "constant", 0, 1) :> constant

\* A free-text plan: a row of two cells, and one of a cell.
FreeText(table, cell, evidence) ==
     At(1, "table", 0, 0) :> table
  @@ At(1, "cell", 1, 1) :> cell[1] @@ At(1, "evidence", 1, 1) :> evidence[1]
  @@ At(1, "cell", 1, 2) :> cell[2] @@ At(1, "evidence", 1, 2) :> evidence[2]
  @@ At(1, "cell", 2, 1) :> cell[3] @@ At(1, "evidence", 2, 1) :> evidence[3]

Entries == {Mapping("c1", "s1", "t1", source, target, constant, "key") :
              source \in {s \in {"f1", "a", "A", "c.a", "f2"} \X {"f2", "b", "A", "?", "c.a"} : s[1] # s[2]},
              target \in {"x", "X", "Z", MCBlank} \X {"y", "z", "t.x"},
              constant \in {"x", "y", "X", "Z"}}
Groups == {Mapping(collection, selector, table, source, target, "x", policy) :
             collection \in {"c1", "people", "People", "c2", "?"},
             selector \in {"s1", "?"}, table \in {"t1", "Tt", "?", "t2"},
             source \in {<<"a", "f1">>, <<"f1", "A">>}, target \in {<<"y", "X">>, <<"x", "y">>},
             policy \in {"key", "?"}}

\* Targets left out, under keys that spell a column, are one, or neither.
Gaps == {Mapping("c1", "s1", "t1", source, target, constant, "key") :
           source \in {<<"Y", "f1">>, <<"f3", "A">>, <<"a", "Y">>, <<"Y", "A">>, <<"f1", "f3">>},
           target \in {MCBlank, MCSpace, "x"} \X {MCBlank, "y", "X"},
           constant \in {"x", "y", "Z", MCBlank}}
Only(source, target) ==
     At(1, "collection", 0, 0) :> "c2" @@ At(1, "selector", 0, 0) :> "s2"
  @@ At(1, "table", 0, 0) :> "t2"
  @@ At(1, "source", 0, 1) :> source @@ At(1, "target", 0, 1) :> target

MCPlans ==
       {m @@ s : m \in Entries, s \in {Second("t1", "y"), Second("t2", "?")}}
  \cup {m @@ Second("t1", "t.x") : m \in Groups}
  \cup {m @@ Second("t2", "w") : m \in Gaps}
  \cup {Only(source, target) : source \in {"d", "g1", "w", "?", MCBlank}, target \in {MCBlank, MCSpace, "?"}}
  \cup {FreeText(table, cell, evidence) :
          table \in {"t1", "Tt", "t2"},
          cell \in {<<"x", "y", "x">>, <<"X", "t.x", "X">>, <<"X", "x", "X">>, <<"x", "y", "Z">>},
          evidence \in {"e1", "e2", "e3"} \X {"e1", "e3", "e4", "?"} \X {"e2", "e3", "e4"}}
=============================================================================
