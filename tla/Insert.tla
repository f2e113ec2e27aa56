------------------------------- MODULE Insert -------------------------------
(***************************************************************************)
(* One INSERT or REPLACE of several rows (insert_executor), while other    *)
(* clients write to the table.  The rows are put one after the other, each *)
(* with a request of its own; a status token is emitted for a row as soon  *)
(* as its PutItem has succeeded, and the first failure ends the statement  *)
(* with the rows before it in place.                                       *)
(***************************************************************************)
EXTENDS RateLimiter, Sequences, FiniteSets

CONSTANTS Keys,        \* primary keys
          Contents,    \* what an item's other attributes can be
          Absent,      \* no item under this key
          Commands,    \* the statements considered
          Units,       \* capacity units a response can report
          MaxForeign,  \* bound: writes by other clients
          MaxIdle      \* bound: ticks that pass while nobody has to wait

Values == Contents \union {Absent}

\* `fits': every row has as many values as there are columns.
Command == [insert: BOOLEAN, explain: BOOLEAN, limited: BOOLEAN, fits: BOOLEAN,
            rows: Seq([key: Keys, content: Contents])]

ASSUME InsertAssumption ==
  /\ Absent \notin Contents /\ Units \subseteq Nat
  /\ MaxForeign \in Nat /\ MaxIdle \in Nat
  /\ Commands \subseteq Command

VARIABLES
  cmd,       \* the statement, fixed
  pc,        \* "describe", "row", "throttle" or "done"
  row,       \* the row to put or to explain
  tokens,    \* rows a status token was emitted for
  blocks,    \* EXPLAIN: requests serialized so far
  outcome,   \* "none", "ok", "explain" or "error"
  limiter,   \* the RateLimiter, meaningful when cmd.limited
  table,     \* the table
  now,       \* clock, in ticks
  idle,      \* ticks so far that nobody had to wait for
  foreign,   \* history: keys other clients wrote
  writes,    \* number of those writes
  original,  \* history: the table when the statement was issued
  applied    \* history: the rows that took effect, in order

executor == <<pc, row, tokens, blocks, outcome, limiter>>
clock == <<now, idle>>
others == <<foreign, writes>>
vars == <<cmd, executor, table, clock, others, original, applied>>

Init ==
  /\ cmd \in Commands
  /\ table \in [Keys -> Values] /\ original = table
  /\ pc = "describe" /\ row = 1 /\ tokens = 0 /\ blocks = 0 /\ outcome = "none"
  /\ limiter = NewLimiter(0)
  /\ now = 0 /\ idle = 0 /\ foreign = {} /\ writes = 0
  /\ applied = <<>>

Upcoming == cmd.rows[row]

Elsewhere == UNCHANGED <<cmd, clock, others, original>>

NoRequest == UNCHANGED <<table, applied>>

Return(what) == pc' = "done" /\ outcome' = what

-----------------------------------------------------------------------------

\* get_key_schema, validate_insert_rows, and the limiter.
Describe ==
  /\ pc = "describe" /\ cmd.fits
  /\ pc' = "row"
  /\ limiter' = NewLimiter(now)
  /\ UNCHANGED <<row, tokens, blocks, outcome>>
  /\ NoRequest /\ Elsewhere

\* The table cannot be described, or a row has too few or too many values.
DescribeFails ==
  /\ pc = "describe"
  /\ Return("error")
  /\ UNCHANGED <<row, tokens, blocks, limiter>>
  /\ NoRequest /\ Elsewhere

\* Faulty variant: INSERT, too, puts without a condition.
ConditionForgotten(v) == TRUE

\* Faulty variant: INSERT looks for the item when the statement begins.
ConditionStale(v) == cmd.insert => original[Upcoming.key] = Absent

\* attribute_not_exists(pk), for INSERT only.
ConditionHolds(v) == cmd.insert => v = Absent

TakeEffect ==
  /\ ConditionHolds(table[Upcoming.key])
  /\ table' = [table EXCEPT ![Upcoming.key] = Upcoming.content]
  /\ applied' = Append(applied, row)

\* ReturnConsumedCapacity is asked for when there is a WITH RATELIMIT clause;
\* otherwise no response has a figure.
ReportedUnits == IF cmd.limited THEN Units ELSE {0}

\* The token is emitted before the limiter is charged.
PutSucceeds ==
  /\ pc = "row" /\ ~cmd.explain /\ row <= Len(cmd.rows)
  /\ TakeEffect
  /\ tokens' = tokens + 1
  /\ \E units \in ReportedUnits :
       limiter' = IF cmd.limited THEN ConsumeWrites(limiter, units) ELSE limiter
  /\ pc' = "throttle"
  /\ UNCHANGED <<row, blocks, outcome>>
  /\ Elsewhere

\* Faulty variant: a row that fails is skipped.
AfterFailureGoesOn == row' = row + 1 /\ UNCHANGED <<pc, outcome>>

AfterFailure == Return("error") /\ UNCHANGED row

\* The condition does not hold, or any other failure, after which the row may
\* have taken effect all the same.
PutFails ==
  /\ pc = "row" /\ ~cmd.explain /\ row <= Len(cmd.rows)
  /\ TakeEffect \/ UNCHANGED <<table, applied>>
  /\ AfterFailure
  /\ UNCHANGED <<tokens, blocks, limiter>>
  /\ Elsewhere

\* consume_writes first and writelimit after it, so the wait follows every row,
\* the last one too.
MayGoOn == cmd.limited => WritelimitReturns(limiter, now)

Throttle ==
  /\ pc = "throttle"
  /\ MayGoOn
  /\ limiter' = IF cmd.limited THEN Refresh(limiter, now) ELSE limiter
  /\ row' = row + 1
  /\ pc' = "row"
  /\ UNCHANGED <<tokens, blocks, outcome>>
  /\ NoRequest /\ Elsewhere

\* explain_request of one row.
ExplainRow ==
  /\ pc = "row" /\ cmd.explain /\ row <= Len(cmd.rows)
  /\ \/ row' = row + 1 /\ blocks' = blocks + 1 /\ UNCHANGED <<pc, outcome>>
     \/ Return("error") /\ UNCHANGED <<row, blocks>>
  /\ UNCHANGED <<tokens, limiter>>
  /\ NoRequest /\ Elsewhere

Finish ==
  /\ pc = "row" /\ row > Len(cmd.rows)
  /\ Return(IF cmd.explain THEN "explain" ELSE "ok")
  /\ UNCHANGED <<row, tokens, blocks, limiter>>
  /\ NoRequest /\ Elsewhere

Executor ==
  \/ Describe \/ DescribeFails \/ PutSucceeds \/ PutFails \/ Throttle
  \/ ExplainRow \/ Finish

-----------------------------------------------------------------------------

\* Another client puts, changes or deletes an item.
OtherWrite(k, v) ==
  /\ pc # "done" /\ writes < MaxForeign /\ table[k] # v
  /\ table' = [table EXCEPT ![k] = v]
  /\ foreign' = foreign \union {k}
  /\ writes' = writes + 1
  /\ UNCHANGED <<cmd, executor, clock, original, applied>>

Waiting == pc = "throttle" /\ ~WritelimitReturns(limiter, now)

\* Time passes.
Tick ==
  /\ pc # "done" /\ cmd.limited
  /\ \/ Waiting /\ UNCHANGED idle
     \/ ~Waiting /\ idle < MaxIdle /\ idle' = idle + 1
  /\ now' = now + 1
  /\ UNCHANGED <<cmd, executor, table, others, original, applied>>

Next ==
  \/ Executor
  \/ \E k \in Keys, v \in Values : OtherWrite(k, v)
  \/ Tick

Spec == Init /\ [][Next]_vars

-----------------------------------------------------------------------------
(***************************************************************************)
(* Properties.                                                             *)
(***************************************************************************)

\* A user who sees n tokens knows which rows are in the table: the first n of
\* the statement took effect, in their order, and after an error at most the
\* next one besides them (its answer was lost); success means all of them did.
TokensAreRows ==
  /\ applied = [i \in 1..Len(applied) |-> i]
  /\ Len(applied) \in {tokens, tokens + 1}
  /\ Len(applied) # tokens => outcome = "error"
  /\ outcome = "ok" => tokens = Len(cmd.rows)

\* The rows of the statement for key k that took effect.
RowsOf(k) == {i \in 1..Len(applied) : cmd.rows[applied[i]].key = k}

\* Under a key that no other client wrote, INSERT leaves an item that was there
\* as it was and keeps the first of several rows it has for the key, while the
\* last one that took effect stays after REPLACE.
TableIsRows ==
  \A k \in Keys \ foreign :
    IF RowsOf(k) = {} THEN table[k] = original[k]
    ELSE \E i \in RowsOf(k) :
           /\ table[k] = cmd.rows[applied[i]].content
           /\ IF cmd.insert THEN original[k] = Absent /\ RowsOf(k) = {i}
              ELSE \A j \in RowsOf(k) : j <= i

\* The statement as a user of RowwisePut sees it.
Asked == [insert |-> cmd.insert, dry |-> cmd.explain, rows |-> cmd.rows]

Promise == INSTANCE RowwisePut WITH stmt <- Asked, told <- tokens, answer <- outcome

\* insert_executor implements RowwisePut: however its requests and the writes of
\* other clients interleave, and whatever fails, the rows are put in order, INSERT
\* never over an item that is there at the moment of the put, also one that
\* another client has just put, and each row that is told has been put.
ImplementsRowwisePut == Promise!Spec
=============================================================================
