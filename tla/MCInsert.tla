------------------------------ MODULE MCInsert ------------------------------
(***************************************************************************)
(* Instances of Insert for TLC: three rows, two of them under one key.     *)
(***************************************************************************)
EXTENDS Insert

MCKeys == 1..2
MCContents == {"a", "b"}
MCAbsent == "absent"

Row(k, v) == [key |-> k, content |-> v]

Texts ==
  {<<Row(1, "a")>>, <<Row(1, "a"), Row(2, "a")>>,
   <<Row(1, "a"), Row(2, "b"), Row(1, "b")>>, <<Row(2, "a"), Row(2, "b"), Row(1, "a")>>}

MCCommands ==
  {[insert |-> i, explain |-> e, limited |-> FALSE, fits |-> f, rows |-> rows] :
     i \in BOOLEAN, e \in BOOLEAN, f \in BOOLEAN, rows \in Texts}

MCLimited ==
  {[insert |-> i, explain |-> FALSE, limited |-> TRUE, fits |-> TRUE, rows |-> rows] :
     i \in BOOLEAN, rows \in Texts}

MCAll == MCCommands \union MCLimited
=============================================================================
