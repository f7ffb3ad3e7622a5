---------------------------- MODULE StreamLedger ----------------------------
(***************************************************************************)
(* What the confirmation harness promises of its generation streams: each  *)
(* is a log that receives one row per sample, in sample order, and whose   *)
(* rows never change.  A stream may become unusable, and then stays so:    *)
(* nothing is ever generated on top of a log that is not trusted.          *)
(***************************************************************************)
EXTENDS Integers, Sequences

CONSTANTS Streams, N, Row

VARIABLE ledger  \* per stream: whether it is usable, and its rows

Usable == {s \in Streams : ledger[s].usable}

Append1(s) ==
  /\ s \in Usable
  /\ Len(ledger[s].rows) < N
  /\ \E row \in Row :
       /\ row.sample = Len(ledger[s].rows) + 1
       /\ \A i \in DOMAIN ledger[s].rows : ledger[s].rows[i].run = row.run
       /\ ledger' = [ledger EXCEPT ![s].rows = Append(ledger[s].rows, row)]

Spoil(s) ==
  /\ s \in Usable
  /\ ledger' = [ledger EXCEPT ![s] = [usable |-> FALSE, rows |-> <<>>]]

LInit == ledger = [s \in Streams |-> [usable |-> TRUE, rows |-> <<>>]]
LNext == \E s \in Streams : Append1(s) \/ Spoil(s)
LSpec == LInit /\ [][LNext]_ledger
=============================================================================
