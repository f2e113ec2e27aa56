---------------------------- MODULE MCBulkWrite ----------------------------
(***************************************************************************)
(* Instances of BulkWrite for TLC.  Contents "in" satisfy the WHERE, "out"  *)
(* do not; a SET may leave an item matching ("keep") or not ("drop").      *)
(***************************************************************************)
EXTENDS BulkWrite, TLC

MCKeys == 1..2
MCContents == {"in", "out"}
MCAbsent == "absent"
MCMaxPos == 3
MCUnits == {3}
MCBasePos == 1 :> 1 @@ 2 :> 3
\* In the index an item that no longer matches sorts after one that does.
MCIndexPos == [k \in MCKeys |-> ("in" :> k @@ "out" :> 3)]

Keep == "in" :> "in" @@ "out" :> "in" @@ MCAbsent :> "in"
Drop == "in" :> "out" @@ "out" :> "out" @@ MCAbsent :> "out"

Statement(verb, explain, api, index, keys, left, right, assign, limited) ==
  [verb |-> verb, explain |-> explain, api |-> api, index |-> index,
   target |-> 1, keys |-> keys, left |-> left, right |-> right,
   assign |-> assign, limited |-> limited]

\* A WHERE with a residual ("in"), with none, and one whose residual is a
\* top-level OR (for UPSERT and DELETE also one that is true of no item); each
\* verb, each path, with and without EXPLAIN.
MCCommands ==
  {Statement(v, e, "single", i, {1}, l, {}, Drop, FALSE) :
     v \in Verbs, e \in BOOLEAN, i \in BOOLEAN, l \in {{"in"}, Values}}
  \union
  {Statement(v, FALSE, "query", TRUE, {1, 2}, {"in"}, r, a, FALSE) :
     v \in Verbs, r \in {{}, {"out"}}, a \in {Keep, Drop}}
  \union
  {Statement(v, FALSE, "scan", FALSE, {1, 2}, {"in"}, r, Keep, FALSE) :
     v \in Verbs, r \in {{}, {"out"}}}
  \union
  {Statement(v, TRUE, api, i, {1, 2}, {"in"}, {}, Drop, FALSE) :
     v \in {"update", "delete"}, api \in {"query", "scan"}, i \in BOOLEAN}
  \union
  {Statement(v, FALSE, "query", FALSE, {2}, Values, {}, Drop, FALSE) : v \in Verbs}
  \union
  {Statement(v, FALSE, "single", FALSE, {1}, {"in"}, {MCAbsent}, Keep, FALSE) :
     v \in {"upsert", "delete"}}

\* Statements with a WITH RATELIMIT clause.
MCLimited ==
  {Statement(v, FALSE, "single", FALSE, {1}, {"in"}, {}, Keep, TRUE) : v \in Verbs}
  \union
  {Statement("update", e, "scan", FALSE, {1, 2}, {"in"}, {}, Keep, TRUE) :
     e \in BOOLEAN}

MCAll == MCCommands \union MCLimited

\* UPDATE ... WHERE a = 1 OR NOT b = 2: the right part is true of no item.
MCTopLevelOr ==
  {Statement("update", FALSE, "scan", FALSE, {1, 2}, {"in"}, {"out", MCAbsent},
             Keep, FALSE)}
=============================================================================
