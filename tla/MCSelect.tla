------------------------------ MODULE MCSelect ------------------------------
(***************************************************************************)
(* The way of a SELECT, for TLC: from the WHERE clause to the request, and *)
(* from the request to the rows.  WherePlan and Select share no state, so  *)
(* a behaviour is one of either, chosen at the start, while the other is   *)
(* left at an initial state.                                               *)
(***************************************************************************)
EXTENDS Select, WherePlan, TLC

CONSTANT Parts      \* the parts that are checked: "clause", "pages" or both

VARIABLE part       \* the one of them that runs, fixed

-----------------------------------------------------------------------------
(***************************************************************************)
(* Instances of Select.  Contents "in" satisfy the filter, "out" do not.   *)
(***************************************************************************)

MCKeys == 1..2
MCContents == {"in", "out"}
MCAbsent == "absent"
MCMaxPos == 3
MCBasePos == 1 :> 1 @@ 2 :> 3
MCIndexPos == 1 :> ("in" :> 1 @@ "out" :> 3) @@ 2 :> ("in" :> 3 @@ "out" :> 2)

Text(api, explain, keys, filter, index, consistent) ==
  [api |-> api, explain |-> explain, keys |-> keys, filter |-> filter, index |-> index,
   consistent |-> consistent, nearest |-> index = "vector", vectorFits |-> index = "vector",
   capacity |-> FALSE, limited |-> FALSE]

Paged ==
  {Text("scan", FALSE, {1, 2}, f, i, c) :
     f \in {{"in"}, MCContents}, i \in {"none", "local"}, c \in BOOLEAN}
  \union {Text("query", FALSE, {1, 2}, {"in"}, "global", c) : c \in BOOLEAN}

MCCommands ==
  Paged
  \union {Text("query", FALSE, {2}, {"in"}, "none", TRUE)}
  \union {Text("get", e, {1}, MCContents, "none", c) : e \in BOOLEAN, c \in BOOLEAN}
  \union {[Text("scan", e, {1, 2}, {"in"}, "vector", c) EXCEPT !.vectorFits = f] :
            e \in BOOLEAN, c \in BOOLEAN, f \in BOOLEAN}
  \union {[Text("scan", FALSE, {1, 2}, {"in"}, "local", FALSE) EXCEPT !.nearest = TRUE]}

MCLimited ==
  {[Text(a, FALSE, {1, 2}, {"in"}, "none", TRUE) EXCEPT !.limited = TRUE,
                                                        !.capacity = (a = "scan")] :
     a \in {"query", "scan"}}
  \union {[Text("get", FALSE, {1}, MCContents, "none", FALSE) EXCEPT !.limited = TRUE,
                                                                     !.capacity = TRUE]}

MCAll == MCCommands \union MCLimited

-----------------------------------------------------------------------------
(***************************************************************************)
(* Instances of WherePlan.                                                 *)
(***************************************************************************)

P(lhs, op, v) == [lhs |-> lhs, op |-> op, v |-> v]

\* Predicates on a partition key, on a sort key and on another attribute; every
\* kind of tree node occurs.
CommonTexts ==
  {P("p", "=", 1), P("p", ">", 1), P("r", "=", 1), P("r", ">", 1),
   P("r", "between", 2), P("a", "=", 1), P("a", "is not null", Null)}

\* The predicates CommonTexts leaves out; a clause has one of them at most.
RareTexts ==
  {P("r", "!=", 1), P("r", "not exists", 0), P("r", "is not null", Null),
   P("a", ">", 1), P("a", "!=", 1), P("a", "exists", 0), P("a", "not exists", 0),
   P("a", "is null", Null), P("a", "between", 2)}

AllTexts == CommonTexts \union RareTexts

-----------------------------------------------------------------------------
(***************************************************************************)
(* Either part.                                                            *)
(***************************************************************************)

ReadInit ==
  /\ part \in Parts
  /\ InitParser
  /\ IF part = "pages" THEN Init
     ELSE /\ cmd = Text("scan", FALSE, {1, 2}, {"in"}, "none", FALSE)
          /\ table = [k \in Keys |-> Absent] /\ view = table
          /\ Init

ReadNext ==
  \/ part = "pages" /\ Next /\ UNCHANGED <<part, stack>>
  \/ part = "clause" /\ NextReduction /\ UNCHANGED <<part, vars>>

ReadSpec == ReadInit /\ [][ReadNext]_<<part, stack, vars>>
=============================================================================
