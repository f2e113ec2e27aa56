--------------------------- MODULE ItemwiseWrite ---------------------------
(***************************************************************************)
(* What UPDATE, UPSERT and DELETE outside a transaction promise, without    *)
(* pages, indexes, rate limits or stale reads: items are written one at a   *)
(* time, each only if it may be at that moment, and a statement that        *)
(* succeeds says how many it changed and has left out no item that matched  *)
(* all the time and that it could see.  It is not atomic: other clients     *)
(* write in between, and a statement that fails may have changed any number *)
(* of items.                                                                *)
(***************************************************************************)
EXTENDS Naturals, FiniteSets

CONSTANTS Keys, Values,
          Absent  \* no item under this key

(***************************************************************************)
(* A statement: the keys its WHERE allows and the values it matches, the    *)
(* values it may be applied to, what it makes of each, the keys whose items *)
(* it may be blind to, whether it may come to an item again, and whether it *)
(* only explains.                                                           *)
(***************************************************************************)
Statement == [keys: SUBSET Keys, matches: SUBSET Values, takes: SUBSET Values,
              effect: [Values -> Values], blind: SUBSET Keys,
              again: BOOLEAN, dry: BOOLEAN]

VARIABLES stmt,     \* the statement, fixed
          table,    \* the table
          original, \* the table when the statement was issued
          foreign,  \* the keys other clients wrote
          tried,    \* the keys it sent a write for
          changed,  \* the keys it changed
          answer,   \* "none" so far, "acct", "explain" or "error"
          counts    \* the numbers of an answer "acct"

vars == <<stmt, table, original, foreign, tried, changed, answer, counts>>

Nothing == [modified |-> 0, ccf |-> 0]

Init ==
  /\ stmt \in Statement
  /\ table \in [Keys -> Values] /\ original = table
  /\ foreign = {} /\ tried = {} /\ changed = {}
  /\ answer = "none" /\ counts = Nothing

\* Every item is counted once, unless it may be written again.
Accounts(c) ==
  IF stmt.again
  THEN c.modified >= Cardinality(changed') /\ c.modified + c.ccf >= Cardinality(tried')
  ELSE c.modified = Cardinality(changed') /\ c.modified + c.ccf = Cardinality(tried')

Report ==
  /\ ~stmt.dry /\ answer' = "acct" /\ Accounts(counts')
  /\ \A k \in stmt.keys \ (foreign \union stmt.blind) :
       original[k] # Absent /\ original[k] \in stmt.matches => k \in changed'

Failure == answer' = "error" /\ UNCHANGED counts

\* A write of one item, and what may come of it.
Send(k) ==
  /\ answer = "none" /\ ~stmt.dry
  /\ k \in tried => stmt.again
  /\ tried' = tried \union {k}
  /\ UNCHANGED <<stmt, original, foreign>>

Change(k) ==
  /\ table[k] \in stmt.takes
  /\ table' = [table EXCEPT ![k] = stmt.effect[@]]
  /\ changed' = changed \union {k}

Refuse(k) == table[k] \notin stmt.takes /\ UNCHANGED <<table, changed>>

\* The write is answered; the statement goes on, or that was all of it.
Write(k) ==
  /\ Send(k) /\ (Change(k) \/ Refuse(k))
  /\ Report \/ UNCHANGED <<answer, counts>>

\* It is not answered, or refused for another reason.
WriteUnheard(k) ==
  /\ Send(k) /\ (Change(k) \/ UNCHANGED <<table, changed>>)
  /\ Failure

\* The statement ends between two writes.
End ==
  /\ answer = "none"
  /\ Report \/ Failure \/ (stmt.dry /\ answer' = "explain" /\ UNCHANGED counts)
  /\ UNCHANGED <<stmt, table, original, foreign, tried, changed>>

\* Another client writes an item.
OtherWrite(k, v) ==
  /\ answer = "none"
  /\ table' = [table EXCEPT ![k] = v] /\ foreign' = foreign \union {k}
  /\ UNCHANGED <<stmt, original, tried, changed, answer, counts>>

Next ==
  \/ \E k \in stmt.keys : Write(k) \/ WriteUnheard(k)
  \/ End
  \/ \E k \in Keys, v \in Values : OtherWrite(k, v)

Spec == Init /\ [][Next]_vars
=============================================================================
