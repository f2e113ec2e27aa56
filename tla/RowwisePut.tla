----------------------------- MODULE RowwisePut -----------------------------
(***************************************************************************)
(* What INSERT and REPLACE outside a transaction promise, whatever happens  *)
(* to their requests: the rows are put one at a time and in order, INSERT   *)
(* putting each only where at that very moment there is no item, whoever    *)
(* put it; a row is told when it is put, and after an error at most the     *)
(* next one was put untold.                                                 *)
(***************************************************************************)
EXTENDS Naturals, Sequences

CONSTANTS Keys, Contents,
          Absent  \* no item under this key

Statement == [insert: BOOLEAN, dry: BOOLEAN, rows: Seq([key: Keys, content: Contents])]

VARIABLES stmt,   \* the statement, fixed
          table,  \* the table
          told,   \* the number of rows told
          answer  \* "none" so far, "ok", "explain" or "error"

vars == <<stmt, table, told, answer>>

Init ==
  /\ stmt \in Statement
  /\ table \in [Keys -> Contents \union {Absent}]
  /\ told = 0 /\ answer = "none"

\* The next row is put.
Put ==
  /\ answer = "none" /\ ~stmt.dry /\ told < Len(stmt.rows)
  /\ LET r == stmt.rows[told + 1]
     IN  /\ stmt.insert => table[r.key] = Absent
         /\ table' = [table EXCEPT ![r.key] = r.content]
  /\ UNCHANGED stmt

PutTold == Put /\ told' = told + 1 /\ UNCHANGED answer

PutUntold == Put /\ answer' = "error" /\ UNCHANGED told

GiveUp == answer = "none" /\ answer' = "error" /\ UNCHANGED <<stmt, table, told>>

Finish ==
  /\ answer = "none"
  /\ IF stmt.dry THEN told = 0 /\ answer' = "explain"
     ELSE told = Len(stmt.rows) /\ answer' = "ok"
  /\ UNCHANGED <<stmt, table, told>>

\* Another client writes an item.
OtherWrite(k, v) ==
  /\ answer = "none" /\ table' = [table EXCEPT ![k] = v]
  /\ UNCHANGED <<stmt, told, answer>>

Next ==
  \/ PutTold \/ PutUntold \/ GiveUp \/ Finish
  \/ \E k \in Keys, v \in Contents \union {Absent} : OtherWrite(k, v)

Spec == Init /\ [][Next]_vars
=============================================================================
