------------------------------- MODULE Select -------------------------------
(***************************************************************************)
(* One SELECT (plan_select, execute_select): a GetItem, a Query or Scan of *)
(* the table or of an index that is followed page by page, or a search of  *)
(* a vector index, while other clients write to the table.  Nothing is a   *)
(* snapshot: every page is read at its own moment.                         *)
(*                                                                         *)
(* DynamoDB is external: `table' is the base table, `view' what an         *)
(* eventually consistent read, or a read of a global index, sees.          *)
(***************************************************************************)
EXTENDS RateLimiter, FiniteSets

CONSTANTS Keys,        \* base-table primary keys
          Contents,    \* what an item's other attributes can be
          Absent,      \* no item under this key
          MaxPos,      \* positions of an enumeration are 1..MaxPos
          BasePos,     \* where a Scan or Query of the base table finds a key
          IndexPos,    \* where the index finds a key with these contents
          Commands,    \* the statements considered
          Units,       \* capacity units a response can report
          MaxForeign,  \* bound: writes by other clients
          MaxIdle      \* bound: ticks that pass while nobody has to wait

Values == Contents \union {Absent}

(***************************************************************************)
(* A statement: the access the WHERE allows (WherePlan), the key predicates *)
(* as a set of keys and the rest as a set of contents, the index it names,  *)
(* CONSISTENT, NEAREST and whether its vector and count are right for the   *)
(* index, RETURN CONSUMED CAPACITY and WITH RATELIMIT.                      *)
(***************************************************************************)
Command == [api: {"get", "query", "scan"}, explain: BOOLEAN, keys: SUBSET Keys,
            filter: SUBSET Contents, index: {"none", "local", "global", "vector"},
            consistent: BOOLEAN, nearest: BOOLEAN, vectorFits: BOOLEAN,
            capacity: BOOLEAN, limited: BOOLEAN]

ASSUME SelectAssumption ==
  /\ Absent \notin Contents /\ MaxPos \in Nat
  /\ BasePos \in [Keys -> 1..MaxPos]
  /\ IndexPos \in [Keys -> [Contents -> 1..MaxPos]]
  /\ Units \subseteq Nat /\ MaxForeign \in Nat /\ MaxIdle \in Nat
  /\ Commands \subseteq Command
  /\ \A c \in Commands : c.api = "get" => /\ c.index = "none"
                                          /\ Cardinality(c.keys) = 1
                                          /\ c.filter = Contents

VARIABLES
  cmd,       \* the statement, fixed
  pc,        \* "route", "schema", "search", "read", "wait" or "done"
  outcome,   \* "none", "rows", "vectors", "explain" or "error"
  rows,      \* the items read: key, contents and page
  shown,     \* the consumed capacity that is displayed, or -1
  total,     \* ConsumedCapacityTotalizer, -1 before the first figure
  page,      \* pages read
  cursor,    \* exclusive_start_key: the position the next page starts after
  limiter,   \* the RateLimiter, meaningful when cmd.limited
  table,     \* the base table
  view,      \* what an eventually consistent read sees
  now,       \* clock, in ticks
  idle,      \* ticks so far that nobody had to wait for
  foreign,   \* history: keys other clients wrote
  writes,    \* number of those writes
  original,  \* history: the table when the statement was issued
  lagging,   \* history: keys whose view was behind at that time
  held       \* history: the values a key had in the table since then

executor == <<pc, outcome, rows, shown, total, page, cursor, limiter>>
clock == <<now, idle>>
others == <<foreign, writes, held>>
vars == <<cmd, executor, table, view, clock, others, original, lagging>>

Init ==
  /\ cmd \in Commands
  /\ table \in [Keys -> Values] /\ view \in [Keys -> Values]
  /\ original = table /\ lagging = {k \in Keys : view[k] # table[k]}
  /\ held = [k \in Keys |-> {table[k]}]
  /\ pc = "route" /\ outcome = "none" /\ rows = {}
  /\ shown = -1 /\ total = -1 /\ page = 0 /\ cursor = 0
  /\ limiter = NewLimiter(0)
  /\ now = 0 /\ idle = 0 /\ foreign = {} /\ writes = 0

Elsewhere == UNCHANGED <<cmd, table, view, clock, others, original, lagging>>

Fail ==
  /\ pc' = "done" /\ outcome' = "error"
  /\ UNCHANGED <<rows, shown, total, page, cursor, limiter>>
  /\ Elsewhere

-----------------------------------------------------------------------------
(***************************************************************************)
(* plan_select.                                                            *)
(***************************************************************************)

\* The index, if one is named, is looked up among the vector indexes first.
Route ==
  /\ pc = "route"
  /\ IF cmd.index = "vector"
     THEN /\ cmd.nearest /\ ~cmd.consistent /\ cmd.vectorFits
          /\ pc' = "search"
     ELSE ~cmd.nearest /\ pc' = "schema"
  /\ UNCHANGED <<outcome, rows, shown, total, page, cursor, limiter>>
  /\ Elsewhere

\* get_key_schema; execute_select builds its limiter after it.
Schema ==
  /\ pc = "schema"
  /\ pc' = "read"
  /\ limiter' = NewLimiter(now)
  /\ UNCHANGED <<outcome, rows, shown, total, page, cursor>>
  /\ Elsewhere

\* EXPLAIN serializes the request instead of sending it.
Explain ==
  /\ pc \in {"read", "search"} /\ cmd.explain
  /\ pc' = "done" /\ outcome' = "explain"
  /\ UNCHANGED <<rows, shown, total, page, cursor, limiter>>
  /\ Elsewhere

-----------------------------------------------------------------------------
(***************************************************************************)
(* execute_select.                                                         *)
(***************************************************************************)

\* Faulty variant: CONSISTENT is not passed on.
ReadsEventually == view

\* What a request sees: r.consistent_read = cmd.consistent.
Reads == IF cmd.consistent THEN table ELSE view

Pos(k, v) == IF cmd.index = "none" THEN BasePos[k] ELSE IndexPos[k][v]

\* The matching items in the positions from+1 .. to, as rows of this page.
Matches(from, to) ==
  {[key |-> k, content |-> Reads[k], page |-> page] :
     k \in {j \in cmd.keys : /\ Reads[j] \in cmd.filter
                             /\ Pos(j, Reads[j]) \in (from + 1)..to}}

\* ConsumedCapacityTotalizer::add.
Add(sum, units) == IF sum = -1 THEN units ELSE sum + units

\* Capacity is asked of the service for the user or for the limiter; no response
\* has a figure otherwise.
AsksCapacity == cmd.capacity \/ (cmd.limited /\ cmd.api # "get")

ReportedUnits == IF AsksCapacity THEN Units ELSE {0}

Reported(units) == IF AsksCapacity THEN Add(total, units) ELSE total

\* The figure is displayed only if the user asked for it.
Displayed(sum) == IF cmd.capacity THEN sum ELSE -1

Finish(sum) == pc' = "done" /\ outcome' = "rows" /\ shown' = Displayed(sum)

GetItem ==
  /\ pc = "read" /\ ~cmd.explain /\ cmd.api = "get"
  /\ rows' = Matches(0, MaxPos)
  /\ \E units \in ReportedUnits :
       total' = Reported(units) /\ Finish(total')
  /\ page' = page + 1
  /\ UNCHANGED <<cursor, limiter>> /\ Elsewhere

\* A page ends where the service says, on a match or not, and carries a
\* LastEvaluatedKey unless it reached the end of the table, index or partition.
PageEnds(last, lastKey) ==
  /\ last \in cursor..MaxPos
  /\ IF lastKey THEN last > cursor ELSE last = MaxPos

\* Faulty variant: a page without rows is taken for the last one.
StopsAtEmptyPage(lastKey, found) == lastKey /\ found # {}

\* Only the missing LastEvaluatedKey ends the loop.
LoopGoesOn(lastKey, found) == lastKey

\* Faulty variant: the next page starts where this one did.
NextStartUnmoved(last) == cursor

\* request.exclusive_start_key = last_evaluated_key.
NextStart(last) == last

\* One response of a Query or Scan.  A global index refuses a consistent read.
Page ==
  /\ pc = "read" /\ ~cmd.explain /\ cmd.api # "get"
  /\ ~(cmd.consistent /\ cmd.index = "global")
  /\ page' = page + 1
  /\ \E last \in 0..MaxPos, lastKey \in BOOLEAN, units \in ReportedUnits :
       /\ PageEnds(last, lastKey)
       /\ rows' = rows \union Matches(cursor, last)
       /\ total' = Reported(units)
       /\ limiter' = IF cmd.limited THEN ConsumeReads(limiter, units) ELSE limiter
       /\ IF LoopGoesOn(lastKey, Matches(cursor, last))
          THEN pc' = "wait" /\ cursor' = NextStart(last) /\ UNCHANGED <<outcome, shown>>
          ELSE Finish(total') /\ UNCHANGED cursor
  /\ Elsewhere

\* readlimit(), before the next page.
MayRead == cmd.limited => ReadlimitReturns(limiter, now)

Wait ==
  /\ pc = "wait"
  /\ MayRead
  /\ limiter' = IF cmd.limited THEN Refresh(limiter, now) ELSE limiter
  /\ pc' = "read"
  /\ UNCHANGED <<outcome, rows, shown, total, page, cursor>>
  /\ Elsewhere

\* One request; the service picks the nearest of the items that match.
SearchVectors ==
  /\ pc = "search" /\ ~cmd.explain
  /\ \E found \in SUBSET {k \in cmd.keys : view[k] \in cmd.filter} :
       rows' = {[key |-> k, content |-> view[k], page |-> 0] : k \in found}
  /\ \E units \in ReportedUnits : shown' = Displayed(units)
  /\ pc' = "done" /\ outcome' = "vectors"
  /\ UNCHANGED <<total, page, cursor, limiter>> /\ Elsewhere

\* The checks of the planner, and every service call, can fail: the rows read
\* so far are dropped.
CallFails == pc \in {"route", "schema", "search", "read"} /\ Fail

Executor ==
  Route \/ Schema \/ Explain \/ GetItem \/ Page \/ Wait \/ SearchVectors \/ CallFails

-----------------------------------------------------------------------------

\* Another client puts, changes or deletes an item.
OtherWrite(k, v) ==
  /\ pc # "done" /\ writes < MaxForeign /\ table[k] # v
  /\ table' = [table EXCEPT ![k] = v]
  /\ foreign' = foreign \union {k}
  /\ writes' = writes + 1
  /\ held' = [held EXCEPT ![k] = @ \union {v}]
  /\ UNCHANGED <<cmd, executor, view, clock, original, lagging>>

\* The replica or the index catches up with the table.
Replicate(k) ==
  /\ pc # "done" /\ view[k] # table[k]
  /\ view' = [view EXCEPT ![k] = table[k]]
  /\ UNCHANGED <<cmd, executor, table, clock, others, original, lagging>>

Waiting == pc = "wait" /\ ~ReadlimitReturns(limiter, now)

\* Time passes.
Tick ==
  /\ pc # "done" /\ cmd.limited
  /\ \/ Waiting /\ UNCHANGED idle
     \/ ~Waiting /\ idle < MaxIdle /\ idle' = idle + 1
  /\ now' = now + 1
  /\ UNCHANGED <<cmd, executor, table, view, others, original, lagging>>

Next ==
  \/ Executor
  \/ \E k \in Keys, v \in Values : OtherWrite(k, v)
  \/ \E k \in Keys : Replicate(k)
  \/ Tick

Spec == Init /\ [][Next]_vars

-----------------------------------------------------------------------------
(***************************************************************************)
(* Properties.                                                             *)
(***************************************************************************)

RowsOf(k) == {r \in rows : r.key = k}

\* An item that nobody changed meanwhile, and that the read could see, is in
\* the result exactly once if it matched and not at all if it did not,
\* whatever the page boundaries, the empty pages, and the items that other
\* clients moved along the index between two pages.
RowsExact ==
  outcome = "rows" =>
    \A k \in Keys \ (foreign \union (IF cmd.consistent THEN {} ELSE lagging)) :
      Cardinality(RowsOf(k)) =
        IF k \in cmd.keys /\ original[k] \in cmd.filter THEN 1 ELSE 0

\* A read of the base table never shows two versions of an item, even when it
\* changes between two pages.
NoItemTwice ==
  outcome = "rows" /\ cmd.index = "none" => \A k \in Keys : Cardinality(RowsOf(k)) <= 1

\* Every row of a CONSISTENT read was in the table, and matched, at some moment
\* since the statement was issued: none is older than the statement.
ConsistentRowsHeld ==
  outcome = "rows" /\ cmd.consistent =>
    \A r \in rows : r.content \in held[r.key] /\ r.content \in cmd.filter
=============================================================================
