---------------------------- MODULE Transaction ----------------------------
(***************************************************************************)
(* What BEGIN ... COMMIT promises, whatever happens to its requests: the    *)
(* statements take effect together at one moment at which each of them may, *)
(* or none of them ever does; a transaction of SELECTs reads all its items  *)
(* at one moment.                                                           *)
(***************************************************************************)
EXTENDS TransactionText

VARIABLES txn,     \* the transaction, fixed
          table,   \* the table
          report,  \* what the user learns: "none" so far, "commit", "rows",
                   \* "nothing" happened, or "failed" (nobody knows)
          rows     \* the items read

vars == <<txn, table, report, rows>>

Statements == {txn.statements[i] : i \in DOMAIN txn.statements}

Init == /\ txn \in Transactions
        /\ table \in [Keys -> Values]
        /\ report = "none" /\ rows = <<>>

\* All statements at once, each on the items it names.
TakeEffect ==
  /\ txn.access = "write" /\ ~txn.rollback /\ ~txn.explain
  /\ \A s \in Statements : \A k \in Keys : On(s, k) => May(s, table[k])
  /\ table' = [k \in Keys |->
                 IF \E s \in Statements : On(s, k)
                 THEN Makes(CHOOSE s \in Statements : On(s, k), table[k]) ELSE table[k]]

Commit == report = "none" /\ TakeEffect /\ report' = "commit" /\ UNCHANGED <<txn, rows>>

CommitUnheard == report = "none" /\ TakeEffect /\ report' = "failed" /\ UNCHANGED <<txn, rows>>

Read ==
  /\ report = "none" /\ txn.access = "read" /\ ~txn.rollback /\ ~txn.explain
  /\ rows' = [i \in DOMAIN txn.statements |-> table[txn.statements[i].keys[1]]]
  /\ report' = "rows" /\ UNCHANGED <<txn, table>>

GiveUp ==
  /\ report = "none" /\ report' \in {"nothing", "failed"}
  /\ UNCHANGED <<txn, table, rows>>

\* Another client changes an item.
OtherWrite ==
  /\ \E k \in Keys, v \in Values : table' = [table EXCEPT ![k] = v]
  /\ UNCHANGED <<txn, report, rows>>

Next == Commit \/ CommitUnheard \/ Read \/ GiveUp \/ OtherWrite

Spec == Init /\ [][Next]_vars
=============================================================================
