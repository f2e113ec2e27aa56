------------------------------ MODULE Transact ------------------------------
(***************************************************************************)
(* BEGIN ... COMMIT|ROLLBACK as transact_executor runs it: the statements    *)
(* are turned one by one into parts of a single TransactWriteItems or        *)
(* TransactGetItems request (transact_build), each after a DescribeTable of  *)
(* its table, and the request is sent at the end, unless one of them cannot  *)
(* be.  Other clients write to the table all the while.  TransactWriteItems  *)
(* itself is external.                                                       *)
(***************************************************************************)
EXTENDS TransactionText

CONSTANT MaxForeign   \* bound: writes by other clients

ASSUME TransactAssumption == MaxForeign \in Nat

VARIABLES
  txn,     \* the transaction, fixed
  pc,      \* "build", "send" or "done"
  next,    \* the statement to build
  built,   \* the parts of the request so far: gets or writes
  aborted, \* has a statement been found that cannot be part of a request?
  token,   \* what was emitted: ABORT, COMMIT, rows, explain, empty or none
  error,   \* was an Error returned?
  rows,    \* the items of a read transaction
  table,   \* the table
  writes,  \* number of writes by other clients
  sent     \* history: the request that was sent

executor == <<pc, next, built, aborted, token, error, rows>>
vars == <<txn, executor, table, writes, sent>>

Report ==
  IF token = "COMMIT" THEN "commit"
  ELSE IF token = "rows" THEN "rows"
  ELSE IF error THEN "failed"
  ELSE IF pc # "done" THEN "none" ELSE "nothing"

\* What the transaction promises.
Promise == INSTANCE Transaction WITH report <- Report

Init ==
  /\ txn \in Transactions
  /\ pc = "build" /\ next = 1 /\ built = <<>> /\ aborted = txn.rollback
  /\ token = "none" /\ error = FALSE /\ rows = <<>>
  /\ table \in [Keys -> Values] /\ writes = 0
  /\ sent = <<>>

Elsewhere == UNCHANGED <<txn, writes>>

NotSent == UNCHANGED <<table, sent>>

Emit(what) == pc' = "done" /\ token' = what

Fail == pc' = "done" /\ error' = TRUE

-----------------------------------------------------------------------------
(***************************************************************************)
(* transact_build: a statement as parts of the request.                    *)
(***************************************************************************)

Upcoming == txn.statements[next]

\* Faulty variant: a write, too, has to name the key and nothing else.
ReducibleExactly(s) ==
  /\ s.verb \in {"select", "update", "upsert", "delete"} => s.where = "exact"
  /\ s.verb \in Checks => s.where # "none"

\* A SELECT has to name the full key and nothing else, an UPDATE or DELETE the
\* full key; a check only has to have a WHERE.
Reducible(s) ==
  /\ s.verb = "select" => s.where = "exact"
  /\ s.verb \in {"update", "upsert", "delete"} => s.where \in {"full", "exact"}
  /\ s.verb \in Checks => s.where # "none"

\* Faulty variant: the check asserts the residual filter alone.
CheckHoldsFiltered(s, v) == v \in s.residual

\* The residual filter AND attribute_[not_]exists of the partition key, or of
\* the attribute that is selected.
CheckHolds(s, v) ==
  v \in s.residual /\ (IF s.verb = "exists" THEN There(s, v) ELSE ~There(s, v))

\* The condition of a part: make_put_request, make_update_request,
\* make_delete_request and build_transact_condition_check.
ConditionHolds(s, v) ==
  /\ s.verb = "insert" => v = Absent
  /\ s.verb = "update" => v # Absent
  /\ s.verb \in {"update", "upsert", "delete"} => v \in s.residual
  /\ s.verb \in Checks => CheckHolds(s, v)

\* One part for every row.  get_gud_key of a check that names part of the key
\* is not a whole key; the conditions on several selected attributes are
\* written one after the other with nothing in between, which is no expression.
Parts(s) ==
  [j \in DOMAIN s.keys |->
     [key |-> s.keys[j],
      whole |-> s.verb \in Checks => s.where \in {"full", "exact"},
      legal |-> s.verb \in Checks => s.selects <= 1,
      of |-> s]]

-----------------------------------------------------------------------------
(***************************************************************************)
(* transact_executor.                                                      *)
(***************************************************************************)

\* BEGIN; ROLLBACK; says nothing.
Empty ==
  /\ pc = "build" /\ txn.statements = <<>>
  /\ Emit("empty")
  /\ UNCHANGED <<next, built, aborted, error, rows>>
  /\ NotSent /\ Elsewhere

Build ==
  /\ pc = "build" /\ next <= Len(txn.statements)
  /\ Reducible(Upcoming) /\ Upcoming.fits
  /\ built' = built \o Parts(Upcoming)
  /\ next' = next + 1
  /\ UNCHANGED <<pc, aborted, token, error, rows>>
  /\ NotSent /\ Elsewhere

\* Faulty variant: the transaction goes on without the statement.
BuildAbortsSkipping ==
  /\ pc = "build" /\ next <= Len(txn.statements)
  /\ ~Reducible(Upcoming)
  /\ next' = next + 1
  /\ UNCHANGED <<pc, built, aborted, token, error, rows>>
  /\ NotSent /\ Elsewhere

\* not_reducible_to_getitem: the others are still built.
BuildAborts ==
  /\ pc = "build" /\ next <= Len(txn.statements)
  /\ ~Reducible(Upcoming)
  /\ aborted' = TRUE
  /\ next' = next + 1
  /\ UNCHANGED <<pc, built, token, error, rows>>
  /\ NotSent /\ Elsewhere

\* A row that does not fit its columns, or a table that cannot be described.
BuildFails ==
  /\ pc = "build" /\ next <= Len(txn.statements)
  /\ Fail
  /\ UNCHANGED <<next, built, aborted, token, rows>>
  /\ NotSent /\ Elsewhere

\* Aborted by a statement or by ROLLBACK, which is told with no Error.
Stops == aborted

BuildEnds ==
  /\ pc = "build" /\ txn.statements # <<>> /\ next > Len(txn.statements)
  /\ IF Stops THEN Emit("ABORT") ELSE pc' = "send" /\ UNCHANGED token
  /\ UNCHANGED <<next, built, aborted, error, rows>>
  /\ NotSent /\ Elsewhere

Explain ==
  /\ pc = "send" /\ txn.explain
  /\ \/ Emit("explain") /\ UNCHANGED error
     \/ Fail /\ UNCHANGED token
  /\ UNCHANGED <<next, built, aborted, rows>>
  /\ NotSent /\ Elsewhere

Request == pc = "send" /\ ~txn.explain /\ sent' = built

\* The service takes a request whose keys are whole and distinct and whose
\* expressions parse, and applies it if all its conditions hold.
Accepted ==
  /\ \A i \in DOMAIN built : built[i].whole /\ built[i].legal
  /\ \A i, j \in DOMAIN built : i # j => built[i].key # built[j].key
  /\ \A i \in DOMAIN built : ConditionHolds(built[i].of, table[built[i].key])

\* DynamoDB applies all parts at once.
Applied ==
  [k \in Keys |->
     IF \E i \in DOMAIN built : built[i].key = k
     THEN Makes(built[CHOOSE i \in DOMAIN built : built[i].key = k].of, table[k])
     ELSE table[k]]

CommitHeard ==
  /\ Request /\ txn.access = "write"
  /\ Accepted /\ table' = Applied
  /\ Emit("COMMIT")
  /\ UNCHANGED <<next, built, aborted, error, rows>> /\ Elsewhere

\* Any failure is told as ABORT, and then as the Error.
Failed == pc' = "done" /\ token' = "ABORT" /\ error' = TRUE

CommitLost ==
  /\ Request /\ txn.access = "write"
  /\ Accepted /\ table' = Applied
  /\ Failed
  /\ UNCHANGED <<next, built, aborted, rows>> /\ Elsewhere

\* Cancelled for a condition, refused, or never received.
RequestFails ==
  /\ Request
  /\ Failed
  /\ UNCHANGED <<next, built, aborted, rows, table>> /\ Elsewhere

\* One row for each Get; one that found nothing is an empty row.
Responses == [i \in DOMAIN built |-> table[built[i].key]]

Get ==
  /\ Request /\ txn.access = "read"
  /\ rows' = Responses
  /\ Emit("rows")
  /\ UNCHANGED <<next, built, aborted, error, table>> /\ Elsewhere

Executor ==
  \/ Empty \/ Build \/ BuildAborts \/ BuildFails \/ BuildEnds \/ Explain
  \/ CommitHeard \/ CommitLost \/ RequestFails \/ Get

OtherWrite(k, v) ==
  /\ pc # "done" /\ writes < MaxForeign /\ table[k] # v
  /\ table' = [table EXCEPT ![k] = v]
  /\ writes' = writes + 1
  /\ UNCHANGED <<txn, executor, sent>>

Next == Executor \/ \E k \in Keys, v \in Values : OtherWrite(k, v)

Spec == Init /\ [][Next]_vars

-----------------------------------------------------------------------------
(***************************************************************************)
(* Properties.                                                             *)
(***************************************************************************)

\* The executor keeps the promise of Transaction: the statements take effect
\* together at a moment at which each of them may, or not at all, and COMMIT
\* and the rows of a read transaction tell the truth about it.
KeepsPromise == Promise!Spec

\* The keys of the parts are those of the first n statements, one after the
\* other: statement i has the parts after start[i].
Concatenated(parts, n) ==
  \E start \in [1..(n + 1) -> 0..Len(parts)] :
    /\ start[1] = 0 /\ start[n + 1] = Len(parts)
    /\ \A i \in 1..n : LET keys == txn.statements[i].keys IN
         /\ start[i + 1] = start[i] + Len(keys)
         /\ \A j \in DOMAIN keys : parts[start[i] + j].key = keys[j]

\* A request is only ever sent for all statements of the transaction, in their
\* order, each row of them, and never after ROLLBACK; and ABORT that comes
\* without an Error means that none was.
WholeRequest ==
  /\ sent # <<>> =>
       /\ ~txn.rollback /\ ~txn.explain
       /\ Concatenated(sent, Len(txn.statements))
  /\ token = "ABORT" /\ ~error => sent = <<>>

\* A transaction in which every statement names its item, with nothing in its
\* way, is not given up: it ends with COMMIT, with rows, with the EXPLAIN, or
\* with an Error.
NotGivenUp ==
  token = "ABORT" /\ ~error =>
    \/ txn.rollback
    \/ \E i \in DOMAIN txn.statements : LET s == txn.statements[i] IN
         \/ s.verb = "select" /\ s.where # "exact"
         \/ s.verb \in {"update", "upsert", "delete"} /\ s.where \in {"none", "partial"}
         \/ s.where = "none"
=============================================================================
