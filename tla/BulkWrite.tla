----------------------------- MODULE BulkWrite -----------------------------
(***************************************************************************)
(* One UPDATE, UPSERT or DELETE statement (execute_update, execute_delete) *)
(* running against a table that other clients write to at the same time.   *)
(*                                                                         *)
(* The executor describes the table, builds one conditional write, and     *)
(* either sends it for the full key the WHERE names, or enumerates the     *)
(* base-table keys of the matching items page by page (Query or Scan, on   *)
(* the table or an index, never a consistent read) and sends the write for *)
(* each of them.  Nothing is locked: the item may change between the page  *)
(* and its write, and the residual WHERE is re-asserted by the write's     *)
(* condition.                                                              *)
(*                                                                         *)
(* DynamoDB is external: `table' is the base table, `view' what an         *)
(* eventually consistent read of the table or of its index sees.           *)
(***************************************************************************)
EXTENDS RateLimiter, FiniteSets

CONSTANTS Keys,        \* base-table primary keys
          Contents,      \* what an item's other attributes can be
          Absent,      \* no item under this key
          MaxPos,      \* positions of an enumeration are 1..MaxPos
          BasePos,     \* where a Scan or Query of the base table finds a key
          IndexPos,    \* where the index finds a key with these contents
          Commands,    \* the statements considered
          Units,       \* capacity units a response can report
          MaxForeign,  \* bound: writes by other clients
          MaxIdle      \* bound: ticks that pass while nobody has to wait

Values == Contents \union {Absent}

Verbs == {"update", "upsert", "delete"}

(***************************************************************************)
(* A statement as the planner leaves it.  The WHERE is a set of keys (its  *)
(* predicates on the primary key, which no write can change) and two sets  *)
(* of values: `left' where the text of the residual condition up to its    *)
(* first top-level OR is true, `right' where the rest of it is true.  A    *)
(* WHERE without a top-level OR has right = {}; no residual at all is      *)
(* left = Values.  `assign' is the effect of SET or REMOVE.                *)
(***************************************************************************)
Command == [verb: Verbs, explain: BOOLEAN, api: {"single", "query", "scan"},
            index: BOOLEAN, target: Keys, keys: SUBSET Keys,
            left: SUBSET Values, right: SUBSET Values,
            assign: [Values -> Contents], limited: BOOLEAN]

ASSUME TableAssumption ==
  /\ Absent \notin Contents
  /\ MaxPos \in Nat
  /\ BasePos \in [Keys -> 1..MaxPos]
  /\ IndexPos \in [Keys -> [Contents -> 1..MaxPos]]
  /\ Units \subseteq Nat
  /\ MaxForeign \in Nat /\ MaxIdle \in Nat

\* The single write is planned when the WHERE's key predicates name its key.
ASSUME CommandAssumption ==
  /\ Commands \subseteq Command
  /\ \A c \in Commands : c.api = "single" => c.keys = {c.target}

VARIABLES
  cmd,       \* the statement, fixed
  pc,        \* where the executor is
  outcome,   \* what it emitted: "none", "acct", "explain", or "error"
  acct,      \* BulkWriteOutcome: read, modified, ccf
  explained, \* EXPLAIN: keys a write request was serialized for
  pending,   \* keys of the current page still to be written
  current,   \* the key whose write is in flight
  cursor,    \* start_key: the position the next page starts after
  more,      \* the current page carried a LastEvaluatedKey
  limiter,   \* the RateLimiter, meaningful when cmd.limited
  table,     \* the base table
  view,      \* what an eventually consistent read sees
  now,       \* clock, in ticks
  idle,      \* ticks so far that nobody had to wait for
  foreign,   \* history: keys other clients wrote
  writes,    \* number of those writes
  original,  \* history: the table when the statement was issued
  lagging,   \* history: keys whose view was behind the table at that time
  issued,    \* history: keys a write request was sent for
  applied,   \* history: keys such a request took effect on
  effects,   \* history: number of write requests that took effect
  spent      \* history: units the page reads and the writes consumed, and
             \* how many of the latter went to writes that were refused

executor == <<pc, outcome, acct, explained, pending, current, cursor,
              more, limiter>>
history == <<issued, applied, effects, spent>>
others == <<foreign, writes>>
clock == <<now, idle>>
vars == <<cmd, executor, table, view, clock, others, original, lagging, history>>

Init ==
  /\ cmd \in Commands
  /\ table \in [Keys -> Values] /\ view \in [Keys -> Values]
  /\ original = table /\ lagging = {k \in Keys : view[k] # table[k]}
  /\ pc = "describe" /\ outcome = "none"
  /\ acct = [read |-> 0, modified |-> 0, ccf |-> 0]
  /\ explained = {} /\ pending = {} /\ cursor = 0 /\ more = FALSE
  /\ current = cmd.target
  /\ limiter = NewLimiter(0)
  /\ now = 0 /\ idle = 0
  /\ foreign = {} /\ writes = 0
  /\ issued = {} /\ applied = {} /\ effects = 0
  /\ spent = [read |-> 0, write |-> 0, refused |-> 0]

-----------------------------------------------------------------------------
(***************************************************************************)
(* The planned read and the planned write.                                 *)
(***************************************************************************)

Where == cmd.left \union cmd.right

\* Faulty variant: the residual WHERE is not re-asserted by the write.
ConditionForgotten(v) == cmd.verb = "update" => v # Absent

\* "attribute_exists(pk)" is put in front of the residual condition with
\* " AND ", and AND binds tighter than OR: it guards the left part only.
ConditionHolds(v) ==
  \/ (cmd.verb = "update" => v # Absent) /\ v \in cmd.left
  \/ v \in cmd.right

Effect(v) == IF cmd.verb = "delete" THEN Absent ELSE cmd.assign[v]

\* Is the enumeration, if there is one, over an index?
ReadsIndex == cmd.index /\ cmd.api # "single"

Pos(k, v) == IF cmd.index THEN IndexPos[k][v] ELSE BasePos[k]

\* Keys of the matching items a read finds in the positions from+1 .. to.  It
\* is a read with ConsistentRead false, of a replica or an index that may be
\* behind the table.
Matches(from, to) ==
  {k \in cmd.keys : /\ view[k] # Absent
                    /\ view[k] \in Where
                    /\ Pos(k, view[k]) \in (from + 1)..to}

\* Every step of the executor leaves the statement and the rest of the world
\* alone, except for the table (its writes) and the history of its requests.
Elsewhere == UNCHANGED <<cmd, view, clock, others, original, lagging>>

NoRequest == UNCHANGED <<table, history>>

\* Faulty variant: an error after some writes ends the loop with its report.
FailReported ==
  /\ pc' = "done" /\ outcome' = IF issued = {} THEN "error" ELSE "acct"
  /\ UNCHANGED <<acct, explained, pending, current, cursor, more, limiter>>
  /\ Elsewhere

\* return fail(...): whatever was counted so far is dropped.
Fail ==
  /\ pc' = "done" /\ outcome' = "error"
  /\ UNCHANGED <<acct, explained, pending, current, cursor, more, limiter>>
  /\ Elsewhere

\* sink.emit(...): the statement succeeded.
Emit(what) == pc' = "done" /\ outcome' = what

-----------------------------------------------------------------------------
(***************************************************************************)
(* The executor.                                                           *)
(***************************************************************************)

\* Faulty variant: only the bulk path honours EXPLAIN.
DryBulkOnly == cmd.explain /\ cmd.api # "single"

Dry == cmd.explain

\* get_key_schema of the base table.  The limiter is built right after it.
DescribeTable ==
  /\ pc = "describe"
  /\ pc' = IF cmd.api = "single" THEN "single"
           ELSE IF cmd.index THEN "describe_index" ELSE "plan"
  /\ limiter' = NewLimiter(now)
  /\ UNCHANGED <<outcome, acct, explained, pending, current, cursor, more>>
  /\ NoRequest /\ Elsewhere

DescribeIndex ==
  /\ pc = "describe_index"
  /\ pc' = "plan"
  /\ UNCHANGED <<outcome, acct, explained, pending, current, cursor, more,
                 limiter>>
  /\ NoRequest /\ Elsewhere

\* EXPLAIN DELETE by Query serializes the Query and stops; EXPLAIN UPDATE, and
\* EXPLAIN DELETE by Scan, go on to run the read.
PlanRead ==
  /\ pc = "plan"
  /\ IF Dry /\ cmd.verb = "delete" /\ cmd.api = "query"
     THEN Emit("explain")
     ELSE pc' = "page" /\ UNCHANGED outcome
  /\ UNCHANGED <<acct, explained, pending, current, cursor, more, limiter>>
  /\ NoRequest /\ Elsewhere

ExplainSingle ==
  /\ pc = "single" /\ Dry
  /\ explained' = {cmd.target}
  /\ Emit("explain")
  /\ UNCHANGED <<acct, pending, current, cursor, more, limiter>>
  /\ NoRequest /\ Elsewhere

\* A page ends where the service says, on a match or not, and carries a
\* LastEvaluatedKey unless it reached the end of the table, index or partition.
PageEnds(last, lastKey) ==
  /\ last \in cursor..MaxPos
  /\ IF lastKey THEN last > cursor ELSE last = MaxPos

\* Faulty variant: an empty page is taken for the last one.
StopsAtEmptyPage(lastKey, items) == lastKey /\ items # {}

\* Only the missing LastEvaluatedKey ends the loop.
LoopGoesOn(lastKey, items) == lastKey

\* What a request may consume.  ReturnConsumedCapacity is asked for when there
\* is a WITH RATELIMIT clause; otherwise no response has a figure and nobody
\* counts.
ConsumedUnits == IF cmd.limited THEN Units ELSE {0}

\* The limiter is not built when explaining: the pages EXPLAIN reads are not
\* metered.
ExplainPage ==
  /\ pc = "page" /\ Dry
  /\ \E last \in 0..MaxPos, lastKey \in BOOLEAN :
       /\ PageEnds(last, lastKey)
       /\ explained' = explained \union Matches(cursor, last)
       /\ cursor' = last
       /\ IF LoopGoesOn(lastKey, Matches(cursor, last))
          THEN UNCHANGED <<pc, outcome>> ELSE Emit("explain")
  /\ UNCHANGED <<acct, pending, current, more, limiter>>
  /\ NoRequest /\ Elsewhere

FetchPage ==
  /\ pc = "page" /\ ~Dry
  /\ \E last \in 0..MaxPos, lastKey \in BOOLEAN, units \in ConsumedUnits :
       /\ PageEnds(last, lastKey)
       /\ pending' = Matches(cursor, last)
       /\ cursor' = last
       /\ more' = LoopGoesOn(lastKey, pending')
       /\ limiter' = IF cmd.limited THEN ConsumeReads(limiter, units) ELSE limiter
       /\ spent' = [spent EXCEPT !.read = @ + units]
  /\ pc' = "item"
  /\ UNCHANGED <<outcome, acct, explained, current>>
  /\ UNCHANGED <<table, issued, applied, effects>>
  /\ Elsewhere

\* Faulty variants: writes are not throttled, and the wait looks at tokens that
\* are not refilled while it waits.
MayAlwaysWrite == TRUE
MayWriteUnrefreshed == cmd.limited => limiter.write >= 0

\* A write waits for its bucket before it is sent.
MayWrite == cmd.limited => WritelimitReturns(limiter, now)

Throttled == IF cmd.limited THEN Refresh(limiter, now) ELSE limiter

StartSingle ==
  /\ pc = "single" /\ ~Dry
  /\ MayWrite
  /\ limiter' = Throttled
  /\ current' = cmd.target
  /\ pc' = "write"
  /\ UNCHANGED <<outcome, acct, explained, pending, cursor, more>>
  /\ NoRequest /\ Elsewhere

\* The items of a page are written in the order the page lists them, which no
\* other part of the system depends on: any key of the page may be next.
StartItem ==
  /\ pc = "item"
  /\ MayWrite
  /\ limiter' = Throttled
  /\ \E k \in pending : current' = k /\ pending' = pending \ {k}
  /\ acct' = [acct EXCEPT !.read = @ + 1]
  /\ pc' = "write"
  /\ UNCHANGED <<outcome, explained, cursor, more>>
  /\ NoRequest /\ Elsewhere

\* After a write the single path emits its accounting, the item loop goes on.
AfterWrite ==
  IF cmd.api = "single" THEN Emit("acct") ELSE pc' = "item" /\ UNCHANGED outcome

Request == issued' = issued \union {current}

TakeEffect ==
  /\ ConditionHolds(table[current])
  /\ table' = [table EXCEPT ![current] = Effect(@)]
  /\ applied' = applied \union {current}
  /\ effects' = effects + 1

WriteSucceeds ==
  /\ pc = "write"
  /\ Request /\ TakeEffect
  /\ acct' = [acct EXCEPT !.modified = @ + 1]
  /\ \E units \in ConsumedUnits :
       /\ limiter' = IF cmd.limited THEN ConsumeWrites(limiter, units) ELSE limiter
       /\ spent' = [spent EXCEPT !.write = @ + units]
  /\ AfterWrite
  /\ UNCHANGED <<explained, pending, current, cursor, more>>
  /\ Elsewhere

\* Faulty variant: a failed condition is counted as a modification.
ConditionFailureModified == [acct EXCEPT !.modified = @ + 1]

ConditionFailureCounted == [acct EXCEPT !.ccf = @ + 1]

\* ConditionalCheckFailedException is counted as ccf.  The service has charged
\* for the refused write, but an error carries no ConsumedCapacity and the
\* executor charges its limiter nothing.
WriteConditionFails ==
  /\ pc = "write"
  /\ Request
  /\ ~ConditionHolds(table[current])
  /\ acct' = ConditionFailureCounted
  /\ \E units \in ConsumedUnits :
       spent' = [spent EXCEPT !.write = @ + units, !.refused = @ + units]
  /\ AfterWrite
  /\ UNCHANGED <<explained, pending, current, cursor, more, limiter>>
  /\ UNCHANGED <<table, applied, effects>>
  /\ Elsewhere

\* Any other answer ends the statement, whether the service refused the write
\* or applied it and the answer was lost.
WriteFails ==
  /\ pc = "write"
  /\ Request
  /\ \/ TakeEffect
     \/ UNCHANGED <<table, applied, effects>>
  /\ UNCHANGED spent
  /\ Fail

EndPage ==
  /\ pc = "item" /\ pending = {}
  /\ IF more
     THEN /\ cmd.limited => ReadlimitReturns(limiter, now)
          /\ limiter' = Throttled
          /\ pc' = "page" /\ UNCHANGED outcome
     ELSE Emit("acct") /\ UNCHANGED limiter
  /\ UNCHANGED <<acct, explained, pending, current, cursor, more>>
  /\ NoRequest /\ Elsewhere

\* Every service call, and every explain_request, can fail.
CallFails ==
  /\ \/ pc \in {"describe", "describe_index", "page"}
     \/ pc = "single" /\ Dry
     \/ pc = "plan" /\ Dry /\ cmd.verb = "delete"
  /\ NoRequest
  /\ Fail

Executor ==
  \/ DescribeTable \/ DescribeIndex \/ PlanRead \/ ExplainSingle \/ ExplainPage
  \/ FetchPage \/ StartSingle \/ StartItem
  \/ WriteSucceeds \/ WriteConditionFails \/ WriteFails
  \/ EndPage \/ CallFails

-----------------------------------------------------------------------------
(***************************************************************************)
(* The rest of the world.                                                  *)
(***************************************************************************)

\* Another client puts, changes or deletes an item.
OtherWrite(k, v) ==
  /\ pc # "done"
  /\ writes < MaxForeign
  /\ table[k] # v
  /\ table' = [table EXCEPT ![k] = v]
  /\ foreign' = foreign \union {k}
  /\ writes' = writes + 1
  /\ UNCHANGED <<cmd, executor, view, clock, original, lagging, history>>

\* The replica or the index catches up with the table.
Replicate(k) ==
  /\ pc # "done"
  /\ view[k] # table[k]
  /\ view' = [view EXCEPT ![k] = table[k]]
  /\ UNCHANGED <<cmd, executor, table, clock, others, original, lagging, history>>

Waiting ==
  /\ cmd.limited
  /\ \/ pc = "single" /\ ~cmd.explain /\ ~WritelimitReturns(limiter, now)
     \/ pc = "item" /\ pending # {} /\ ~WritelimitReturns(limiter, now)
     \/ pc = "item" /\ pending = {} /\ more /\ ~ReadlimitReturns(limiter, now)

\* Time passes.  Ticks that nobody waits for only matter to a limiter.
Tick ==
  /\ pc # "done" /\ cmd.limited
  /\ \/ Waiting /\ UNCHANGED idle
     \/ ~Waiting /\ idle < MaxIdle /\ idle' = idle + 1
  /\ now' = now + 1
  /\ UNCHANGED <<cmd, executor, table, view, others, original, lagging, history>>

Next ==
  \/ Executor
  \/ \E k \in Keys, v \in Values : OtherWrite(k, v)
  \/ \E k \in Keys : Replicate(k)
  \/ Tick

Spec == Init /\ [][Next]_vars

\* The shell's one thread keeps running, service calls return and time passes;
\* other clients and replication owe nothing.
FairSpec == Spec /\ WF_vars(Executor) /\ WF_vars(Tick)

-----------------------------------------------------------------------------
(***************************************************************************)
(* Properties.                                                             *)
(***************************************************************************)

Phases == {"describe", "describe_index", "plan", "single", "page", "item",
           "write", "done"}

\* The values the variables of execute_update and execute_delete range over.
TypeOK ==
  /\ cmd \in Commands
  /\ pc \in Phases
  /\ outcome \in {"none", "acct", "explain", "error"}
  /\ acct \in [read: Nat, modified: Nat, ccf: Nat]
  /\ explained \subseteq Keys
  /\ pending \subseteq Keys /\ current \in Keys
  /\ cursor \in 0..MaxPos /\ more \in BOOLEAN
  /\ limiter \in Limiter
  /\ table \in [Keys -> Values]
  /\ view \in [Keys -> Values]
  /\ original \in [Keys -> Values] /\ lagging \subseteq Keys
  /\ now \in Nat /\ idle \in Nat
  /\ foreign \subseteq Keys /\ writes \in Nat
  /\ issued \subseteq Keys /\ applied \subseteq Keys /\ effects \in Nat
  /\ spent \in [read: Nat, write: Nat, refused: Nat]

\* The line "(n read, m modified, k ccf)" of a statement that does not read an
\* index is exact whatever other clients did meanwhile: m items were changed
\* by it, n distinct items were tried (none is enumerated for the single
\* write), and each of them was either changed or counted as ccf.
ReportIsExact ==
  outcome = "acct" /\ ~ReadsIndex =>
    /\ acct.modified = Cardinality(applied)
    /\ acct.modified + acct.ccf = Cardinality(issued)
    /\ acct.read = IF cmd.api = "single" THEN 0 ELSE Cardinality(issued)

\* Keys a stale enumeration may be blind to: their last write had not reached
\* the replica or the index when the statement was issued.  A single write
\* reads nothing.
Blind == IF cmd.api = "single" THEN {} ELSE lagging

\* The matching items a statement answers for: they matched when it was issued,
\* no other client touched them, and the enumeration could see them.
Due == {k \in cmd.keys \ (foreign \union Blind) :
          original[k] # Absent /\ original[k] \in Where}

\* A statement that reports success changed every item it is due to change: no
\* page boundary, no empty page and no write of the statement itself (not even
\* one that moves items along the index it reads) makes the enumeration miss
\* one.  Its reads are eventually consistent, so it may miss an item whose last
\* write before the statement was not visible yet, unless the full key is given.
NoMatchMissed == outcome = "acct" => Due \subseteq applied

\* EXPLAIN changes nothing, and what it prints are the writes the statement
\* would send for the items it is due to change: all of them, except that
\* EXPLAIN DELETE by Query prints the Query alone.
ExplainIsDry ==
  /\ cmd.explain => issued = {} /\ effects = 0
  /\ outcome = "explain" /\ ~(cmd.verb = "delete" /\ cmd.api = "query") =>
       Due \subseteq explained

\* When a write is sent the writes before it have consumed no more than the
\* write rate allows since the statement began, but for what refused conditional
\* writes consumed, which the limiter never hears of; and when a page is asked
\* for the pages before it have consumed no more than the read rate allows.
RateRespected ==
  cmd.limited /\ ~cmd.explain =>
    /\ pc = "write" /\ WCU > 0 => spent.write <= WCU * now + spent.refused
    /\ pc = "page" /\ RCU > 0 => spent.read <= RCU * now

\* README.md:2379: "all writes to base tables and indices count against the write
\* limit (write token bucket)".  So when a write is sent, all the writes before it
\* have consumed no more than the write rate allows.
AllWritesCount ==
  cmd.limited /\ ~cmd.explain /\ pc = "write" /\ WCU > 0 => spent.write <= WCU * now

\* A statement that does not enumerate an index sends at most one write for
\* each key, so a SET x = x + 1 is never applied twice to an item.
WrittenOnce ==
  [][pc' = "write" /\ pc # "write" /\ ~ReadsIndex => current' \notin issued]_vars

\* UPDATE only ever changes items that exist and satisfy its WHERE at the
\* moment of the write, however stale the page that listed them: it neither
\* creates an item nor overwrites one that stopped matching.
UpdateOnlyMatching ==
  [][pc = "write" /\ pc' # "write" /\ cmd.verb = "update" /\ table' # table =>
       /\ current \in cmd.keys
       /\ table[current] # Absent
       /\ table[current] \in Where]_vars

\* The statement and its report as a user of ItemwiseWrite sees them: an UPDATE
\* may be applied to what matches and exists, and the counts are there when
\* they are printed.
Asked ==
  [keys |-> cmd.keys, matches |-> Where,
   takes |-> IF cmd.verb = "update" THEN Where \ {Absent} ELSE Where,
   effect |-> [v \in Values |-> Effect(v)], blind |-> Blind,
   again |-> ReadsIndex, dry |-> cmd.explain]

Told == IF outcome = "acct" THEN [modified |-> acct.modified, ccf |-> acct.ccf]
        ELSE [modified |-> 0, ccf |-> 0]

Promise == INSTANCE ItemwiseWrite
             WITH stmt <- Asked, answer <- outcome, counts <- Told, tried <- issued,
                  changed <- applied

\* The executors implement ItemwiseWrite: behind pages, indexes, rate limits and
\* stale reads every change is a conditional write of one item, on the value it
\* has at that moment, no item is written twice (unless an index lists it
\* again), and a report comes only when no match that could be seen is left, with
\* the counts of the writes; whatever fails before that is reported as an error.
ImplementsItemwiseWrite == Promise!Spec

\* Under fairness every statement ends, by its report or by an error.
Terminates == <>(pc = "done")
=============================================================================
