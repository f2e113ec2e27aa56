------------------------ MODULE MCPreparedStatement ------------------------
(***************************************************************************)
(* Instances of PreparedStatement for TLC: every short text over an         *)
(* alphabet, and some longer ones.                                          *)
(***************************************************************************)
EXTENDS PreparedStatement

S(s) == [type |-> "S", s |-> s]
N(s) == [type |-> "N", s |-> s]

Alphabet == {Quote, "?", ":", "a", "1", " ", "-"}

AllTemplates ==
  UNION {[1 .. n -> Alphabet] : n \in 0 .. 3} \union [1 .. 4 -> {Quote, "?", " ", ":", "a"}]
  \union {<<"a", "=", "?", " ", ":", "a">>, <<"?", " ", "?", " ", ":", "b">>,
          <<Quote, "?", Quote, Quote, Quote, " ", "?">>,
          <<Quote, ":", "a", Quote, " ", ":", "a", "=", ":", "a">>,
          <<"{", Quote, "a", Quote, ":", "true", "}", " ", "?">>}

SomeValues ==
  {S(<<"?", Quote, ":", "a">>), S(<<"T">>), N(<<"-", "1">>),
   [type |-> "L", list |-> <<[type |-> "M", map |-> <<[name |-> <<"a", Quote>>, value |-> N(<<"1">>)]>>],
                             [type |-> "BOOL", boolean |-> TRUE], Null>>],
   [type |-> "L", list |-> <<[type |-> "SS"]>>]}

SomeNames == {<<"a">>, <<"b">>}
=============================================================================
