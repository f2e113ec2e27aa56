---------------------------- MODULE MCTransact ----------------------------
(***************************************************************************)
(* Instances of Transact for TLC: pairs of statements of every kind.       *)
(***************************************************************************)
EXTENDS Transact

MCKeys == 1..2
MCContents == {"a", "b"}
MCHaving == {"a"}
MCAbsent == "absent"

Stmt(verb, keys, where, residual, selects, fits) ==
  [verb |-> verb, keys |-> keys, where |-> where, residual |-> residual,
   assign |-> [v \in Values |-> IF v = "a" THEN "b" ELSE "a"],
   selects |-> selects, fits |-> fits]

WriteStatements ==
  {Stmt("insert", <<1, 2>>, "full", Values, 0, TRUE), Stmt("insert", <<1>>, "full", Values, 0, FALSE),
   Stmt("replace", <<2>>, "full", Values, 0, TRUE),
   Stmt("update", <<1>>, "full", {"a", MCAbsent}, 0, TRUE),
   Stmt("update", <<2>>, "partial", Values, 0, TRUE),
   Stmt("upsert", <<1>>, "exact", Values, 0, TRUE),
   Stmt("delete", <<2>>, "full", {"a"}, 0, TRUE), Stmt("delete", <<1>>, "none", Values, 0, TRUE),
   Stmt("exists", <<1>>, "full", {"b", MCAbsent}, 0, TRUE),
   Stmt("exists", <<2>>, "partial", Values, 0, TRUE),
   Stmt("exists", <<1>>, "exact", Values, 2, TRUE),
   Stmt("not_exists", <<2>>, "full", {"a"}, 0, TRUE),
   Stmt("not_exists", <<1>>, "exact", Values, 1, TRUE),
   Stmt("not_exists", <<2>>, "none", Values, 0, TRUE)}

ReadStatements ==
  {Stmt("select", <<1>>, "exact", Values, 0, TRUE), Stmt("select", <<2>>, "exact", Values, 1, TRUE),
   Stmt("select", <<2>>, "full", {"a"}, 0, TRUE)}

Txn(access, rollback, explain, statements) ==
  [access |-> access, rollback |-> rollback, explain |-> explain, statements |-> statements]

MCTransactions ==
  {Txn("read", TRUE, e, <<>>) : e \in BOOLEAN}
  \union {Txn("write", FALSE, FALSE, <<s, t>>) : s \in WriteStatements, t \in WriteStatements}
  \union {Txn("write", r, TRUE, <<s>>) : r \in BOOLEAN, s \in WriteStatements}
  \union {Txn("write", TRUE, FALSE, <<s>>) : s \in WriteStatements}
  \union {Txn("read", r, FALSE, <<s, t>>) : r \in BOOLEAN, s \in ReadStatements, t \in ReadStatements}
=============================================================================
