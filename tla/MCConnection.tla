---------------------------- MODULE MCConnection ----------------------------
(***************************************************************************)
(* Instances of Connection for TLC.                                        *)
(***************************************************************************)
EXTENDS Connection

Emits(fragments) == [fragments |-> fragments, connects |-> "none"]

Select == Emits(<<[form |-> "rows", n |-> 2]>>)
SelectNone == Emits(<<[form |-> "rows", n |-> 0]>>)
InsertTwo == Emits(<<[form |-> "tokens", n |-> 1], [form |-> "tokens", n |-> 1]>>)
UpdateOne == Emits(<<[form |-> "accounting", n |-> 0]>>)
Abort == Emits(<<[form |-> "explain", n |-> 0], [form |-> "status", n |-> 0]>>)
Silent == Emits(<<>>)
ConnectWest ==
  [fragments |-> <<[form |-> "status", n |-> 0]>>, connects |-> "west"]

Text(statements, broken) == [statements |-> statements, broken |-> broken]

MCBatches ==
  { Text(<<>>, TRUE), Text(<<>>, FALSE), Text(<<Select>>, FALSE), Text(<<Select>>, TRUE),
    Text(<<Select, SelectNone, Select>>, FALSE), Text(<<InsertTwo, Select>>, TRUE),
    Text(<<UpdateOne, Silent>>, FALSE), Text(<<Abort, ConnectWest, Select>>, FALSE) }
=============================================================================
