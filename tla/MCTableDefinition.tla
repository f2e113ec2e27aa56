------------------------- MODULE MCTableDefinition -------------------------
(***************************************************************************)
(* Instances of TableDefinition for TLC.  Definitions vary the billing, the *)
(* indexes and one further clause; "total" is a name and a keyword.         *)
(***************************************************************************)
EXTENDS TableDefinition

Hash(a) == [hash |-> <<a>>, range |-> <<>>]
Both(a, b) == [hash |-> <<a>>, range |-> <<b>>]

All == [type |-> "ALL", attrs |-> <<>>]
KeysOnly == [type |-> "KEYS_ONLY", attrs |-> <<>>]
Include(a) == [type |-> "INCLUDE", attrs |-> a]

OnDemand(od) == [mode |-> "PAY_PER_REQUEST", rcu |-> 0, wcu |-> 0, od |-> od]
Provisioned(r, w) == [mode |-> "PROVISIONED", rcu |-> r, wcu |-> w, od |-> None]

Gsi(n, keys, projection, billing, warm) ==
  [name |-> n, keys |-> keys, projection |-> projection, billing |-> billing, warm |-> warm]
Lsi(projection) == [name |-> "lsi", keys |-> Both("pk", "a"), projection |-> projection]
Vsi(search, projection) ==
  [name |-> "vsi", attr |-> "vec", dimensions |-> 3, distance |-> "EUCLIDEAN",
   search |-> search, projection |-> projection]

Billings == {None, OnDemand(None), OnDemand(<<7, 9>>), Provisioned(5, 6)}

\* The throughput of an index, matching its table's or not.
GsiLists ==
  {<<>>} \union
  {<<Gsi("g1", keys, projection, billing, warm)>> :
     keys \in {Hash("b"), Both("b", "c"), [hash |-> <<"b", "c">>, range |-> <<"pk", "rk">>],
               [hash |-> <<>>, range |-> <<"b">>],
               [hash |-> <<"b", "c", "pk", "rk", "a">>, range |-> <<>>]},
     projection \in {All, Include(<<"x", "total">>)},
     billing \in {None, OnDemand(None), Provisioned(2, 3)}, warm \in {None}}
  \union {<<Gsi("g1", Hash("b"), KeysOnly, billing, 8),
            Gsi("g2", Both("c", "b"), Include(<<"x", "y">>), billing, None)>> :
            billing \in {None, Provisioned(2, 3)}}

LsiLists == {<<>>, <<Lsi(All)>>, <<Lsi(KeysOnly)>>,
             <<[Lsi(All) EXCEPT !.keys = [hash |-> <<"pk", "b">>, range |-> <<"a">>]]>>}

VsiLists ==
  {<<>>, <<Vsi(<<>>, All)>>,
   <<Vsi(<<[attr |-> "b", role |-> "HASH"], [attr |-> "c", role |-> "INLINE_FILTER"]>>,
         Include(<<"pk">>))>>,
   <<Vsi(<<>>, Include(<<"total">>))>>}

\* The attributes declared: the ones in use, in the order of their names.
Declared(d) ==
  LET used == InUse(build_create_table(d))
      order == <<"a", "b", "c", "pk", "rk", "total", "x", "y">>
  IN  [d EXCEPT !.attributes =
         Each(LAMBDA n : [name |-> n, type |-> IF n = "pk" THEN "number" ELSE "string"],
              SelectSeq(order, LAMBDA n : n \in used))]

Plain ==
  [attributes |-> <<>>, keys |-> Both("pk", "rk"), billing |-> None, warm |-> None,
   gsis |-> <<>>, lsis |-> <<>>, vsis |-> <<>>, stream |-> None, sse |-> None,
   class |-> "STANDARD", protection |-> FALSE, tags |-> <<>>]

\* A local index beside a vector index is one with KEYS ONLY.
Others ==
  {x \in LsiLists \X VsiLists : x[1] = <<>> \/ x[2] = <<>> \/ x[1] = <<Lsi(KeysOnly)>>}

Indexed ==
  {[Plain EXCEPT !.billing = b, !.gsis = g, !.lsis = x[1], !.vsis = x[2]] :
     b \in Billings, g \in GsiLists, x \in Others}

Rest ==
  {[Plain EXCEPT !.billing = b, !.stream = s, !.class = c, !.protection = p,
                 !.warm = h.warm, !.sse = h.sse, !.tags = h.tags, !.keys = k] :
     b \in {None, Provisioned(5, 6)},
     s \in {None, "DISABLED", "NEW_IMAGE", "OLD_IMAGE", "KEYS_ONLY", "NEW_AND_OLD_IMAGES"},
     c \in {"STANDARD", "STANDARD_INFREQUENT_ACCESS"}, p \in BOOLEAN,
     h \in {[warm |-> None, sse |-> None, tags |-> <<>>],
            [warm |-> 4, sse |-> "KMS", tags |-> <<"tag">>]},
     k \in {Hash("pk"), Both("pk", "rk"), [hash |-> <<>>, range |-> <<"rk">>]}}

AllDefinitions ==
  {Declared(d) : d \in Indexed \union Rest}
  \union {[Plain EXCEPT !.attributes = <<[name |-> "pk", type |-> "number"]>>]}

Update(n, billing, warm) ==
  [action |-> "update", name |-> n, billing |-> billing, warm |-> warm]

SomeChanges ==
  {[NothingSet EXCEPT !.billing = OnDemand(None)],
   [NothingSet EXCEPT !.billing = OnDemand(<<1, 1>>), !.warm = 9,
                    !.gsis = <<Update("g1", Provisioned(4, 4), None)>>],
   [NothingSet EXCEPT !.billing = Provisioned(8, 8)],
   [NothingSet EXCEPT !.billing = Provisioned(8, 8),
                    !.gsis = <<Update("g1", Provisioned(4, 4), None)>>],
   [NothingSet EXCEPT !.gsis = <<Update("g1", None, 2)>>],
   [NothingSet EXCEPT !.stream = "NEW_IMAGE"], [NothingSet EXCEPT !.stream = "DISABLED"],
   [NothingSet EXCEPT !.class = "STANDARD_INFREQUENT_ACCESS"],
   [NothingSet EXCEPT !.protection = TRUE], [NothingSet EXCEPT !.protection = FALSE],
   [NothingSet EXCEPT !.warm = 3], [NothingSet EXCEPT !.sse = "KMS"],
   [NothingSet EXCEPT !.gsis = <<[action |-> "drop", name |-> "g1"]>>],
   [NothingSet EXCEPT !.attributes = <<[name |-> "b", type |-> "string"]>>,
      !.gsis = <<[action |-> "create",
                  gsi |-> Gsi("g3", Hash("b"), KeysOnly, None, None)]>>],
   [NothingSet EXCEPT !.attributes = <<[name |-> "b", type |-> "string"]>>,
      !.gsis = <<[action |-> "create",
                  gsi |-> Gsi("g3", [hash |-> <<>>, range |-> <<"b">>], All, None, None)]>>],
   [NothingSet EXCEPT !.vsis = <<[create |-> None, drop |-> "vsi"]>>],
   [NothingSet EXCEPT !.vsis = <<[create |-> Vsi(<<>>, KeysOnly), drop |-> None]>>]}

Replica(action, class, rcu, gsis) ==
  [action |-> action, region |-> "r2", class |-> class, rcu |-> rcu, gsis |-> gsis]

SomeReplicas ==
  {Replica("add", None, None, <<>>),
   Replica("add", "STANDARD_INFREQUENT_ACCESS", 5, <<[name |-> "g1", rcu |-> 1]>>),
   Replica("add", "STANDARD_INFREQUENT_ACCESS", None, <<>>),
   Replica("update", None, 6, <<[name |-> "g1", rcu |-> 2], [name |-> "g2", rcu |-> 3]>>),
   Replica("update", None, 7, <<>>), Replica("update", "STANDARD", None, <<>>),
   Replica("drop", None, None, <<>>)}
=============================================================================
