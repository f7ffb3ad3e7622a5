----------------------------- MODULE MCExecutor -----------------------------
(* A parent p, a child c with an immediate and a child d with a deferred      *)
(* foreign key to p, and a row a under an ON CONFLICT ROLLBACK constraint.    *)
EXTENDS Executor

CONSTANTS p, c, d, a

MCRows == {p, c, d, a}
MCRefs == [r \in MCRows |-> IF r \in {c, d} THEN {p} ELSE {}]

Insert(rows, conflict) == [rows |-> rows, conflict |-> conflict, binds |-> TRUE]
Unbindable == [rows |-> {p}, conflict |-> "none", binds |-> FALSE]

Parent == Insert({p}, "none")
Child == Insert({c}, "none")
Late == Insert({d, a}, "none")

MCPrograms ==
  {[status |-> "success", statements |-> ss] : ss \in
     {<<Parent, Child>>, <<Child, Parent>>, <<Late>>, <<Late, Parent>>,
      <<Insert({p, c}, "do_update")>>, <<Insert({a}, "do_nothing"), Child>>,
      <<Parent, Insert({a}, "none")>>, <<Parent, Unbindable>>}}
    \cup {[status |-> "partial", statements |-> <<Child>>]}
=============================================================================
