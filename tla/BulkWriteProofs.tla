-------------------------- MODULE BulkWriteProofs --------------------------
(***************************************************************************)
(* Proofs about BulkWrite for every table, statement, bound and rate.      *)
(***************************************************************************)
EXTENDS BulkWrite, FiniteSetTheorems, TLAPS

USE DEF executor, history, others, clock, vars

-----------------------------------------------------------------------------
(***************************************************************************)
(* The limiter's operators.                                                *)
(***************************************************************************)

\* Refilling and charging a limiter gives a limiter.
LEMMA LimiterType ==
  ASSUME NEW l \in Limiter, NEW t \in Nat, NEW units \in Nat
  PROVE  /\ NewLimiter(t) \in Limiter
         /\ Refresh(l, t) \in Limiter
         /\ ConsumeReads(l, units) \in Limiter
         /\ ConsumeWrites(l, units) \in Limiter
BY RateAssumption DEF Limiter, NewLimiter, Refresh, ConsumeReads, ConsumeWrites,
   AtMost

-----------------------------------------------------------------------------
(***************************************************************************)
(* Type correctness.                                                       *)
(***************************************************************************)

\* The keys a page lists are keys of the table.
LEMMA MatchesAreKeys ==
  ASSUME TypeOK, NEW from, NEW to
  PROVE  Matches(from, to) \subseteq Keys
BY CommandAssumption DEF TypeOK, Matches, Command

\* A write leaves contents, or no item, behind.
LEMMA EffectType ==
  ASSUME TypeOK, NEW v \in Values
  PROVE  Effect(v) \in Values
BY CommandAssumption DEF TypeOK, Effect, Command, Values

\* What CommandAssumption says of the running statement.
LEMMA CommandType ==
  ASSUME TypeOK
  PROVE  /\ cmd \in Command
         /\ cmd.target \in Keys /\ cmd.keys \subseteq Keys
         /\ cmd.explain \in BOOLEAN /\ cmd.index \in BOOLEAN
         /\ cmd.limited \in BOOLEAN
         /\ cmd.api = "single" => cmd.keys = {cmd.target}
BY CommandAssumption DEF TypeOK, Command

\* execute_update and execute_delete start with variables of their types.
LEMMA TypeInit == Init => TypeOK
<1> SUFFICES ASSUME Init PROVE TypeOK
  OBVIOUS
<1>1. cmd \in Commands /\ current \in Keys
  BY CommandAssumption DEF Init, Command
<1>2. limiter \in Limiter
  BY DEF Init, Limiter, NewLimiter
<1>3. /\ acct \in [read: Nat, modified: Nat, ccf: Nat]
      /\ spent \in [read: Nat, write: Nat, refused: Nat]
  BY DEF Init
<1>4. cursor \in 0..MaxPos
  BY TableAssumption DEF Init
<1> QED
  BY <1>1, <1>2, <1>3, <1>4 DEF Init, TypeOK, Phases

\* Every step of the executor keeps them.
LEMMA TypeExecutor == TypeOK /\ Executor => TypeOK'
<1> SUFFICES ASSUME TypeOK, Executor PROVE TypeOK'
  OBVIOUS
<1> USE DEF TypeOK, Elsewhere, NoRequest, Fail, Emit, Phases
<1>1. CASE DescribeTable
  BY <1>1, LimiterType DEF DescribeTable
<1>2. CASE DescribeIndex
  BY <1>2 DEF DescribeIndex
<1>3. CASE PlanRead
  BY <1>3 DEF PlanRead
<1>4. CASE ExplainSingle
  BY <1>4, CommandAssumption DEF ExplainSingle, Command
<1>5. CASE ExplainPage
  BY <1>5, MatchesAreKeys, TableAssumption DEF ExplainPage
<1>6. CASE FetchPage
  <2>1. PICK last \in 0..MaxPos, lastKey \in BOOLEAN, units \in ConsumedUnits :
          /\ pending' = Matches(cursor, last)
          /\ cursor' = last
          /\ more' = lastKey
          /\ limiter' = IF cmd.limited THEN ConsumeReads(limiter, units) ELSE limiter
          /\ spent' = [spent EXCEPT !.read = @ + units]
    BY <1>6 DEF FetchPage, LoopGoesOn
  <2>2. units \in Nat
    BY TableAssumption DEF ConsumedUnits
  <2>3. limiter' \in Limiter
    BY <2>1, <2>2, LimiterType
  <2>4. spent' \in [read: Nat, write: Nat, refused: Nat]
    BY <2>1, <2>2
  <2> QED
    BY <1>6, <2>1, <2>3, <2>4, MatchesAreKeys DEF FetchPage
<1>7. CASE StartSingle
  BY <1>7, LimiterType, CommandAssumption DEF StartSingle, Throttled, Command
<1>8. CASE StartItem
  <2>1. limiter' \in Limiter
    BY <1>8, LimiterType DEF StartItem, Throttled
  <2>2. acct' \in [read: Nat, modified: Nat, ccf: Nat]
    BY <1>8 DEF StartItem
  <2> QED
    BY <1>8, <2>1, <2>2 DEF StartItem
<1>9. CASE WriteSucceeds
  <2>1. PICK units \in ConsumedUnits :
          /\ limiter' = IF cmd.limited THEN ConsumeWrites(limiter, units) ELSE limiter
          /\ spent' = [spent EXCEPT !.write = @ + units]
    BY <1>9 DEF WriteSucceeds
  <2>2. units \in Nat
    BY TableAssumption DEF ConsumedUnits
  <2>3. limiter' \in Limiter
    BY <2>1, <2>2, LimiterType
  <2>4. /\ spent' \in [read: Nat, write: Nat, refused: Nat]
        /\ acct' \in [read: Nat, modified: Nat, ccf: Nat]
    BY <1>9, <2>1, <2>2 DEF WriteSucceeds
  <2>5. table' \in [Keys -> Values]
    BY <1>9, EffectType DEF WriteSucceeds, TakeEffect
  <2> QED
    BY <1>9, <2>3, <2>4, <2>5 DEF WriteSucceeds, Request, TakeEffect, AfterWrite
<1>10. CASE WriteConditionFails
  <2>1. PICK units \in ConsumedUnits :
          spent' = [spent EXCEPT !.write = @ + units, !.refused = @ + units]
    BY <1>10 DEF WriteConditionFails
  <2>2. units \in Nat
    BY TableAssumption DEF ConsumedUnits
  <2>3. spent' = [read |-> spent.read, write |-> spent.write + units,
                  refused |-> spent.refused + units]
    BY <2>1
  <2>4. spent' \in [read: Nat, write: Nat, refused: Nat]
    BY <2>2, <2>3
  <2>5. acct' \in [read: Nat, modified: Nat, ccf: Nat]
    BY <1>10 DEF WriteConditionFails, ConditionFailureCounted
  <2> QED
    BY <1>10, <2>4, <2>5 DEF WriteConditionFails, Request, AfterWrite
<1>11. CASE WriteFails
  BY <1>11, EffectType DEF WriteFails, Request, TakeEffect
<1>12. CASE EndPage
  BY <1>12, LimiterType DEF EndPage, Throttled
<1>13. CASE CallFails
  BY <1>13 DEF CallFails
<1> QED
  BY <1>1, <1>2, <1>3, <1>4, <1>5, <1>6, <1>7, <1>8, <1>9, <1>10, <1>11, <1>12,
     <1>13 DEF Executor

\* So does every step of other clients, of replication and of the clock.
LEMMA TypeNext == TypeOK /\ [Next]_vars => TypeOK'
<1> SUFFICES ASSUME TypeOK, [Next]_vars PROVE TypeOK'
  OBVIOUS
<1>1. CASE Executor
  BY <1>1, TypeExecutor
<1>2. ASSUME NEW k \in Keys, NEW v \in Values, OtherWrite(k, v) PROVE TypeOK'
  BY <1>2 DEF OtherWrite, TypeOK
<1>3. ASSUME NEW k \in Keys, Replicate(k) PROVE TypeOK'
  BY <1>3 DEF Replicate, TypeOK
<1>4. CASE Tick
  BY <1>4 DEF Tick, TypeOK
<1>5. CASE UNCHANGED vars
  BY <1>5 DEF TypeOK
<1> QED
  BY <1>1, <1>2, <1>3, <1>4, <1>5 DEF Next

\* Every variable of a running statement keeps the type TypeOK gives it.
THEOREM TypeCorrect == Spec => []TypeOK
<1>1. Init => TypeOK
  BY TypeInit
<1>2. TypeOK /\ [Next]_vars => TypeOK'
  BY TypeNext
<1> QED
  BY <1>1, <1>2, PTL DEF Spec

-----------------------------------------------------------------------------
(***************************************************************************)
(* Where the executor can be: single and bulk path, EXPLAIN and not.       *)
(***************************************************************************)

\* The single path never enters the loop, EXPLAIN never reaches a write, and an
\* outcome is there exactly at the end.
Control ==
  /\ pc \in {"describe", "describe_index", "plan", "single", "page"} => pending = {}
  /\ pc \in {"describe_index", "plan", "page", "item"} => cmd.api # "single"
  /\ pc = "single" => cmd.api = "single"
  /\ cmd.api = "single" => pending = {} /\ cursor = 0
  /\ pc = "done" <=> outcome # "none"
  /\ pc \in {"item", "write"} => ~cmd.explain
  /\ outcome = "acct" => ~cmd.explain
  /\ outcome = "explain" => cmd.explain
  /\ cmd.explain => issued = {} /\ applied = {} /\ effects = 0
  /\ cmd.api = "single" /\ pc = "write" => current = cmd.target
  /\ pc \in {"item", "write"} /\ cmd.api # "single" /\ ~more => cursor = MaxPos

\* A statement starts in a state that satisfies Control.
LEMMA ControlInit == Init => Control
BY DEF Init, Control

\* Every step keeps Control.
LEMMA ControlNext == TypeOK /\ Control /\ [Next]_vars => Control'
<1> SUFFICES ASSUME TypeOK, Control, [Next]_vars PROVE Control'
  OBVIOUS
<1> USE CommandType DEF Control, Elsewhere, NoRequest, Fail, Emit, Dry
<1>1. CASE DescribeTable
  BY <1>1 DEF DescribeTable
<1>2. CASE DescribeIndex
  BY <1>2 DEF DescribeIndex
<1>3. CASE PlanRead
  BY <1>3 DEF PlanRead
<1>4. CASE ExplainSingle
  BY <1>4 DEF ExplainSingle
<1>5. CASE ExplainPage
  BY <1>5 DEF ExplainPage
<1>6. CASE FetchPage
  BY <1>6 DEF FetchPage, LoopGoesOn, PageEnds
<1>7. CASE StartSingle
  BY <1>7 DEF StartSingle
<1>8. CASE StartItem
  BY <1>8 DEF StartItem
<1>9. CASE WriteSucceeds
  BY <1>9 DEF WriteSucceeds, Request, TakeEffect, AfterWrite
<1>10. CASE WriteConditionFails
  BY <1>10 DEF WriteConditionFails, Request, AfterWrite
<1>11. CASE WriteFails
  BY <1>11 DEF WriteFails, Request, TakeEffect
<1>12. CASE EndPage
  BY <1>12 DEF EndPage
<1>13. CASE CallFails
  BY <1>13 DEF CallFails
<1>14. CASE \E k \in Keys, v \in Values : OtherWrite(k, v)
  BY <1>14 DEF OtherWrite
<1>15. CASE \E k \in Keys : Replicate(k)
  BY <1>15 DEF Replicate
<1>16. CASE Tick
  BY <1>16 DEF Tick
<1>17. CASE UNCHANGED vars
  BY <1>17
<1> QED
  BY <1>1, <1>2, <1>3, <1>4, <1>5, <1>6, <1>7, <1>8, <1>9, <1>10, <1>11, <1>12,
     <1>13, <1>14, <1>15, <1>16, <1>17 DEF Next, Executor

-----------------------------------------------------------------------------
(***************************************************************************)
(* Without an index, no key is enumerated twice.                           *)
(***************************************************************************)

\* Keys already tried lie at or before the cursor, the page still to be written
\* holds none of them, and neither does the write in flight.
Fresh ==
  ~ReadsIndex =>
    /\ cmd.api = "single" /\ pc # "done" => issued = {}
    /\ cmd.api # "single" => \A k \in issued \union pending : BasePos[k] <= cursor
    /\ pending \intersect issued = {}
    /\ pc = "write" => current \notin issued \union pending
    /\ pc = "write" /\ cmd.api # "single" => BasePos[current] <= cursor

\* Nothing has been sent or listed at the start.
LEMMA FreshInit == Init => Fresh
BY DEF Init, Fresh

\* Every step keeps Fresh: a page starts after the positions of all keys
\* listed before it, and BasePos does not change.
LEMMA FreshNext == TypeOK /\ Control /\ Fresh /\ [Next]_vars => Fresh'
<1> SUFFICES ASSUME TypeOK, Control, Fresh, [Next]_vars, ~ReadsIndex PROVE Fresh'
  BY DEF Fresh, ReadsIndex, Next, Executor, Elsewhere, DescribeTable, DescribeIndex,
     PlanRead, ExplainSingle, ExplainPage, FetchPage, StartSingle, StartItem,
     WriteSucceeds, WriteConditionFails, WriteFails, EndPage, CallFails, Fail,
     OtherWrite, Replicate, Tick
<1> USE CommandType DEF Control, Fresh, ReadsIndex, Elsewhere, NoRequest, Fail, Emit, Dry
<1>1. CASE DescribeTable
  BY <1>1 DEF DescribeTable
<1>2. CASE DescribeIndex
  BY <1>2 DEF DescribeIndex
<1>3. CASE PlanRead
  BY <1>3 DEF PlanRead
<1>4. CASE ExplainSingle
  BY <1>4 DEF ExplainSingle
<1>5. CASE ExplainPage
  BY <1>5 DEF ExplainPage
<1>6. CASE FetchPage
  <2>1. PICK last \in 0..MaxPos, lastKey \in BOOLEAN :
          /\ PageEnds(last, lastKey)
          /\ pending' = Matches(cursor, last)
          /\ cursor' = last
    BY <1>6 DEF FetchPage
  <2>2. last >= cursor
    BY <2>1, TableAssumption DEF PageEnds, TypeOK
  <2>3. \A k \in pending' : k \in Keys /\ BasePos[k] \in (cursor + 1)..last
    BY <1>6, <2>1, MatchesAreKeys DEF FetchPage, Matches, Pos
  <2>4. \A k \in Keys : BasePos[k] \in Nat
    BY TableAssumption
  <2>5. \A k \in issued : BasePos[k] <= last
    BY <1>6, <2>2, <2>4, TableAssumption DEF FetchPage, TypeOK
  <2>6. pending' \intersect issued = {}
    BY <1>6, <2>3, <2>4, TableAssumption DEF FetchPage, TypeOK
  <2> QED
    BY <1>6, <2>1, <2>3, <2>5, <2>6 DEF FetchPage
<1>7. CASE StartSingle
  BY <1>7 DEF StartSingle
<1>8. CASE StartItem
  BY <1>8 DEF StartItem
<1>9. CASE WriteSucceeds
  BY <1>9 DEF WriteSucceeds, Request, AfterWrite
<1>10. CASE WriteConditionFails
  BY <1>10 DEF WriteConditionFails, Request, AfterWrite
<1>11. CASE WriteFails
  BY <1>11 DEF WriteFails, Request
<1>12. CASE EndPage
  BY <1>12 DEF EndPage
<1>13. CASE CallFails
  BY <1>13 DEF CallFails
<1>14. CASE \E k \in Keys, v \in Values : OtherWrite(k, v)
  BY <1>14 DEF OtherWrite
<1>15. CASE \E k \in Keys : Replicate(k)
  BY <1>15 DEF Replicate
<1>16. CASE Tick
  BY <1>16 DEF Tick
<1>17. CASE UNCHANGED vars
  BY <1>17
<1> QED
  BY <1>1, <1>2, <1>3, <1>4, <1>5, <1>6, <1>7, <1>8, <1>9, <1>10, <1>11, <1>12,
     <1>13, <1>14, <1>15, <1>16, <1>17 DEF Next, Executor

\* A statement that does not enumerate an index sends one write for a key.
THEOREM WrittenOnceCorrect == Spec => WrittenOnce
<1>1. TypeOK /\ Control /\ Fresh /\ [Next]_vars
        => [pc' = "write" /\ pc # "write" /\ ~ReadsIndex => current' \notin issued]_vars
  <2> SUFFICES ASSUME TypeOK, Control, Fresh, Next, pc' = "write", pc # "write",
                      ~ReadsIndex
               PROVE  current' \notin issued
    OBVIOUS
  <2>1. StartSingle \/ StartItem
    BY DEF Next, Executor, DescribeTable, DescribeIndex, PlanRead, ExplainSingle,
       ExplainPage, FetchPage, WriteSucceeds, WriteConditionFails, WriteFails,
       EndPage, CallFails, Fail, Emit, OtherWrite, Replicate, Tick
  <2> QED
    BY <2>1, CommandType DEF Fresh, Control, StartSingle, StartItem
<1> QED
  BY <1>1, TypeInit, TypeNext, ControlInit, ControlNext, FreshInit, FreshNext, PTL
     DEF Spec, WrittenOnce

-----------------------------------------------------------------------------
(***************************************************************************)
(* The accounting line.                                                    *)
(***************************************************************************)

\* Until an error drops it, the accounting counts the distinct keys tried so
\* far; the write in flight is counted as read and not yet as anything else.
Counted ==
  /\ IsFiniteSet(issued) /\ applied \subseteq issued
  /\ ~ReadsIndex /\ outcome # "error" =>
       /\ acct.modified = Cardinality(applied)
       /\ acct.modified + acct.ccf = Cardinality(issued)
       /\ cmd.api = "single" => acct.read = 0
       /\ cmd.api # "single" =>
            acct.read = Cardinality(issued) + (IF pc = "write" THEN 1 ELSE 0)

\* Nothing has been counted at the start.
LEMMA CountedInit == Init => Counted
BY FS_EmptySet DEF Init, Counted

\* Steps that send no write and count nothing.
LEMMA CountedQuiet ==
  ASSUME TypeOK, Counted, UNCHANGED <<cmd, acct, issued, applied>>,
         pc # "write", pc' # "write", outcome = "none"
  PROVE  Counted'
BY DEF Counted, ReadsIndex

\* Every step keeps Counted: an answer counts a key that Fresh says is new.
LEMMA CountedNext == TypeOK /\ Control /\ Fresh /\ Counted /\ [Next]_vars => Counted'
<1> SUFFICES ASSUME TypeOK, Control, Fresh, Counted, [Next]_vars PROVE Counted'
  OBVIOUS
<1> USE DEF Elsewhere, NoRequest, Fail, Emit, Dry
<1>1. CASE DescribeTable
  BY <1>1, CountedQuiet DEF DescribeTable, Control
<1>2. CASE DescribeIndex
  BY <1>2, CountedQuiet DEF DescribeIndex, Control
<1>3. CASE PlanRead
  BY <1>3, CountedQuiet DEF PlanRead, Control
<1>4. CASE ExplainSingle
  BY <1>4, CountedQuiet DEF ExplainSingle, Control
<1>5. CASE ExplainPage
  BY <1>5, CountedQuiet DEF ExplainPage, Control
<1>6. CASE FetchPage
  BY <1>6, CountedQuiet DEF FetchPage, Control
<1>7. CASE StartSingle
  <2>1. cmd.api = "single" /\ outcome = "none" /\ outcome' = "none"
    BY <1>7 DEF StartSingle, Control
  <2>2. UNCHANGED <<cmd, acct, issued, applied>>
    BY <1>7 DEF StartSingle
  <2> QED
    BY <2>1, <2>2 DEF Counted, ReadsIndex
<1>8. CASE StartItem
  <2>1. /\ acct'.read = acct.read + 1
        /\ acct'.modified = acct.modified /\ acct'.ccf = acct.ccf
    BY <1>8 DEF StartItem, TypeOK
  <2>2. Cardinality(issued) \in Nat
    BY FS_CardinalityType DEF Counted
  <2> QED
    BY <1>8, <2>1, <2>2 DEF StartItem, Control, Counted, ReadsIndex
<1>9. ASSUME pc = "write", Request, current \notin issued \/ ReadsIndex
      PROVE  /\ IsFiniteSet(issued')
             /\ ~ReadsIndex => Cardinality(issued') = Cardinality(issued) + 1
  BY <1>9, FS_AddElement DEF Request, Counted
<1>10. pc = "write" => current \notin issued \/ ReadsIndex
  BY DEF Fresh
<1>11. Cardinality(issued) \in Nat /\ Cardinality(applied) \in Nat
       /\ IsFiniteSet(applied)
  BY FS_CardinalityType, FS_Subset DEF Counted
<1>12. ASSUME pc = "write", Request, TakeEffect
       PROVE  /\ applied' \subseteq issued'
              /\ ~ReadsIndex => Cardinality(applied') = Cardinality(applied) + 1
  <2>1. current \notin applied \/ ReadsIndex
    BY <1>10, <1>12 DEF Counted
  <2> QED
    BY <1>11, <1>12, <2>1, FS_AddElement DEF Request, TakeEffect, Counted
<1>13. CASE WriteSucceeds
  <2>1. /\ acct'.read = acct.read /\ acct'.ccf = acct.ccf
        /\ acct'.modified = acct.modified + 1
    BY <1>13 DEF WriteSucceeds, TypeOK
  <2>2. /\ pc = "write" /\ Request /\ TakeEffect
        /\ pc' # "write" /\ outcome = "none" /\ cmd' = cmd
    BY <1>13 DEF WriteSucceeds, AfterWrite, Control
  <2> QED
    BY <2>1, <2>2, <1>9, <1>10, <1>11, <1>12 DEF Counted, ReadsIndex, TypeOK
<1>14. CASE WriteConditionFails
  <2>1. /\ acct'.read = acct.read /\ acct'.modified = acct.modified
        /\ acct'.ccf = acct.ccf + 1
    BY <1>14 DEF WriteConditionFails, ConditionFailureCounted, TypeOK
  <2>2. /\ pc = "write" /\ Request /\ applied' = applied
        /\ pc' # "write" /\ outcome = "none" /\ cmd' = cmd
    BY <1>14 DEF WriteConditionFails, AfterWrite, Control
  <2>3. applied' \subseteq issued'
    BY <2>2 DEF Counted, Request
  <2> QED
    BY <2>1, <2>2, <2>3, <1>9, <1>10, <1>11 DEF Counted, ReadsIndex, TypeOK
<1>15. CASE WriteFails
  <2>1. pc = "write" /\ Request /\ outcome' = "error"
    BY <1>15 DEF WriteFails
  <2>2. applied' \subseteq issued'
    BY <1>15, <2>1, <1>12 DEF WriteFails, Counted, Request
  <2> QED
    BY <2>1, <2>2, <1>9, <1>10 DEF Counted
<1>16. CASE EndPage
  BY <1>16, CountedQuiet DEF EndPage, Control
<1>17. CASE CallFails
  BY <1>17 DEF CallFails, Counted
<1>18. CASE \E k \in Keys, v \in Values : OtherWrite(k, v)
  BY <1>18 DEF OtherWrite, Counted, ReadsIndex
<1>19. CASE \E k \in Keys : Replicate(k)
  BY <1>19 DEF Replicate, Counted, ReadsIndex
<1>20. CASE Tick
  BY <1>20 DEF Tick, Counted, ReadsIndex
<1>21. CASE UNCHANGED vars
  BY <1>21 DEF Counted, ReadsIndex
<1> QED
  BY <1>1, <1>2, <1>3, <1>4, <1>5, <1>6, <1>7, <1>8, <1>13, <1>14, <1>15, <1>16,
     <1>17, <1>18, <1>19, <1>20, <1>21 DEF Next, Executor

\* The report of a statement that does not enumerate an index is exact.
THEOREM ReportIsExactCorrect == Spec => []ReportIsExact
<1>1. Control /\ Counted => ReportIsExact
  BY FS_CardinalityType DEF Control, Counted, ReportIsExact
<1> QED
  BY <1>1, TypeInit, TypeNext, ControlInit, ControlNext, FreshInit, FreshNext,
     CountedInit, CountedNext, PTL DEF Spec

-----------------------------------------------------------------------------
(***************************************************************************)
(* UPDATE changes only items that match.                                   *)
(***************************************************************************)

\* Whatever is about to be written was listed by the WHERE's key predicates.
Listed ==
  /\ pending \subseteq cmd.keys
  /\ pc = "write" => current \in cmd.keys

\* Every step keeps Listed.
LEMMA ListedNext == TypeOK /\ Control /\ Listed /\ [Next]_vars => Listed'
<1> SUFFICES ASSUME TypeOK, Control, Listed, [Next]_vars PROVE Listed'
  OBVIOUS
<1> USE CommandType DEF Listed, Control, Elsewhere, NoRequest, Fail, Emit, Dry
<1>1. CASE FetchPage
  BY <1>1 DEF FetchPage, Matches
<1>2. CASE StartSingle
  BY <1>2 DEF StartSingle
<1>3. CASE StartItem
  BY <1>3 DEF StartItem
<1>4. CASE WriteSucceeds \/ WriteConditionFails \/ WriteFails
  BY <1>4 DEF WriteSucceeds, WriteConditionFails, WriteFails, AfterWrite
<1>5. CASE \/ DescribeTable \/ DescribeIndex \/ PlanRead \/ ExplainSingle
           \/ ExplainPage \/ EndPage \/ CallFails
  BY <1>5 DEF DescribeTable, DescribeIndex, PlanRead, ExplainSingle, ExplainPage,
     EndPage, CallFails
<1>6. CASE \/ \E k \in Keys, v \in Values : OtherWrite(k, v)
           \/ \E k \in Keys : Replicate(k)
           \/ Tick
           \/ UNCHANGED vars
  BY <1>6 DEF OtherWrite, Replicate, Tick
<1> QED
  BY <1>1, <1>2, <1>3, <1>4, <1>5, <1>6 DEF Next, Executor

\* When no UPDATE has a WHERE whose part after a top-level OR is true of an
\* absent item, UPDATE changes only items that exist and match at that moment.
THEOREM UpdateOnlyMatchingCorrect ==
  ASSUME \A c \in Commands : c.verb = "update" => Absent \notin c.right
  PROVE  Spec => UpdateOnlyMatching
<1>1. Init => Listed
  BY DEF Init, Listed
<1>2. TypeOK /\ Control /\ Listed /\ [Next]_vars =>
        [pc = "write" /\ pc' # "write" /\ cmd.verb = "update" /\ table' # table =>
           /\ current \in cmd.keys
           /\ table[current] # Absent
           /\ table[current] \in Where]_vars
  <2> SUFFICES ASSUME TypeOK, Listed, Next, pc = "write", pc' # "write",
                      cmd.verb = "update", table' # table
               PROVE  /\ current \in cmd.keys
                      /\ table[current] # Absent
                      /\ table[current] \in Where
    OBVIOUS
  <2>1. TakeEffect
    BY DEF Next, Executor, DescribeTable, DescribeIndex, PlanRead, ExplainSingle,
       ExplainPage, FetchPage, StartSingle, StartItem, WriteSucceeds,
       WriteConditionFails, WriteFails, EndPage, CallFails, NoRequest, OtherWrite,
       Replicate, Tick
  <2>2. Absent \notin cmd.right
    BY DEF TypeOK
  <2> QED
    BY <2>1, <2>2 DEF TakeEffect, ConditionHolds, Where, Listed
<1> QED
  BY <1>1, <1>2, TypeInit, TypeNext, ControlInit, ControlNext, ListedNext, PTL
     DEF Spec, UpdateOnlyMatching

-----------------------------------------------------------------------------
(***************************************************************************)
(* No matching item is missed.                                             *)
(***************************************************************************)

\* An item no other client touched, and that the statement has not changed, is
\* as it was in the table and, unless reads were behind when the statement was
\* issued, in what they see.
Untouched ==
  \A k \in Keys \ foreign : k \notin applied =>
    /\ table[k] = original[k]
    /\ k \notin lagging => view[k] = original[k]

\* While the statement runs an item it is due to change has been changed (or, under EXPLAIN,
\* printed), is on the current page, is being written, or is still ahead.
Covered ==
  \A k \in Keys : k \in Due =>
    /\ outcome = "none" /\ ~cmd.explain =>
         \/ k \in applied \union pending
         \/ pc = "write" /\ current = k
         \/ Pos(k, original[k]) > cursor
    /\ outcome = "none" /\ cmd.explain =>
         k \in explained \/ Pos(k, original[k]) > cursor
    /\ outcome = "acct" => k \in applied
    /\ outcome = "explain" /\ ~(cmd.verb = "delete" /\ cmd.api = "query") =>
         k \in explained

\* An item that exists has a position.
LEMMA PosType ==
  ASSUME TypeOK, NEW k \in Keys, NEW v \in Contents
  PROVE  Pos(k, v) \in 1..MaxPos
BY TableAssumption DEF Pos

\* At the start every item is as it was and ahead of the cursor.
LEMMA CoveredInit == Init => Untouched /\ Covered
<1> SUFFICES ASSUME Init PROVE Untouched /\ Covered
  OBVIOUS
<1>1. Untouched
  BY DEF Init, Untouched
<1>2. ASSUME NEW k \in Keys, k \in Due PROVE Pos(k, original[k]) > cursor
  <2>1. original[k] \in Contents
    BY <1>2 DEF Init, Due, Blind, Where, Values
  <2> QED
    BY <2>1, PosType, TypeInit, TableAssumption DEF Init
<1> QED
  BY <1>1, <1>2 DEF Init, Covered

\* The steps that neither read a page nor write.
LEMMA CoveredQuiet ==
  ASSUME TypeOK, Covered, UNCHANGED <<cmd, original, lagging, foreign, applied, explained,
                                      pending, cursor, outcome>>,
         pc # "write"
  PROVE  Covered'
BY DEF Covered, Due, Blind, Where, Pos

\* Every step keeps Untouched.
LEMMA UntouchedNext == TypeOK /\ Untouched /\ [Next]_vars => Untouched'
<1> SUFFICES ASSUME TypeOK, Untouched, [Next]_vars PROVE Untouched'
  OBVIOUS
<1>1. CASE WriteSucceeds \/ WriteFails
  BY <1>1 DEF WriteSucceeds, WriteFails, TakeEffect, Untouched, TypeOK, Elsewhere,
     others, Fail
<1>2. CASE \/ DescribeTable \/ DescribeIndex \/ PlanRead \/ ExplainSingle
           \/ ExplainPage \/ FetchPage \/ StartSingle \/ StartItem
           \/ WriteConditionFails \/ EndPage \/ CallFails
  <2>1. UNCHANGED <<table, view, original, lagging, foreign, applied>>
    BY <1>2 DEF DescribeTable, DescribeIndex, PlanRead, ExplainSingle, ExplainPage,
       FetchPage, StartSingle, StartItem, WriteConditionFails, EndPage, CallFails,
       Elsewhere, NoRequest, Fail
  <2> QED
    BY <2>1 DEF Untouched
<1>3. ASSUME NEW k \in Keys, NEW v \in Values, OtherWrite(k, v) PROVE Untouched'
  BY <1>3 DEF OtherWrite, Untouched, TypeOK
<1>4. ASSUME NEW k \in Keys, Replicate(k) PROVE Untouched'
  BY <1>4 DEF Replicate, Untouched, TypeOK
<1>5. CASE Tick \/ UNCHANGED vars
  BY <1>5 DEF Tick, Untouched
<1> QED
  BY <1>1, <1>2, <1>3, <1>4, <1>5 DEF Next, Executor

\* Every step keeps Covered: a page takes over the items it passes, and a
\* write whose condition fails is not on an item that is owed one.
LEMMA CoveredNext ==
  TypeOK /\ Control /\ Untouched /\ Covered /\ [Next]_vars => Covered'
<1> SUFFICES ASSUME TypeOK, Control, Untouched, Covered, [Next]_vars PROVE Covered'
  OBVIOUS
<1> USE DEF Elsewhere, NoRequest, Fail, Emit, Dry
<1>a. ASSUME NEW k \in Keys, k \in Due
      PROVE  original[k] \in Contents /\ Pos(k, original[k]) \in 1..MaxPos
  BY <1>a, PosType DEF Due, Blind, Where, TypeOK, Values
<1>1. CASE DescribeTable \/ DescribeIndex \/ StartSingle
  BY <1>1, CoveredQuiet DEF DescribeTable, DescribeIndex, StartSingle
<1>2. CASE PlanRead
  BY <1>2 DEF PlanRead, Covered, Due, Blind, Where, Pos
<1>3. CASE ExplainSingle
  BY <1>3, CommandType DEF ExplainSingle, Control, Covered, Due, Blind, Where, Pos
<1>4. ASSUME NEW last \in 0..MaxPos, NEW lastKey \in BOOLEAN, PageEnds(last, lastKey),
             NEW k \in Keys, k \in Due, Pos(k, original[k]) > cursor, k \notin applied,
             cmd.api # "single"
      PROVE  /\ k \in Matches(cursor, last) \/ Pos(k, original[k]) > last
             /\ ~lastKey => k \in Matches(cursor, last)
  <2>1. view[k] = original[k]
    BY <1>4 DEF Untouched, Due, Blind, Where
  <2> QED
    BY <1>4, <2>1, <1>a, TableAssumption DEF Matches, Due, Blind, Where, TypeOK, PageEnds
<1>5. CASE ExplainPage
  <2>1. PICK last \in 0..MaxPos, lastKey \in BOOLEAN :
          /\ PageEnds(last, lastKey)
          /\ explained' = explained \union Matches(cursor, last)
          /\ cursor' = last
          /\ IF lastKey THEN UNCHANGED <<pc, outcome>> ELSE Emit("explain")
    BY <1>5 DEF ExplainPage, LoopGoesOn
  <2>2. applied = {}
    BY <1>5 DEF ExplainPage, Control
  <2> QED
    BY <1>4, <1>5, <2>1, <2>2 DEF ExplainPage, Control, Covered, Due, Blind, Where, Pos
<1>6. CASE FetchPage
  <2>1. PICK last \in 0..MaxPos, lastKey \in BOOLEAN :
          /\ PageEnds(last, lastKey)
          /\ pending' = Matches(cursor, last)
          /\ cursor' = last
    BY <1>6 DEF FetchPage
  <2> QED
    BY <1>4, <1>6, <2>1 DEF FetchPage, Control, Covered, Due, Blind, Where, Pos
<1>7. CASE StartItem
  BY <1>7 DEF StartItem, Control, Covered, Due, Blind, Where, Pos
<1>8. ASSUME NEW k \in Keys, k \in Due, k \notin applied PROVE ConditionHolds(table[k])
  BY <1>8 DEF Untouched, Due, Blind, Where, ConditionHolds, Where
<1>9. ASSUME NEW k \in Keys, k \in Due, cmd.api = "single" PROVE k = cmd.target
  BY <1>9, CommandType DEF Due, Blind, Where
<1>10. CASE WriteSucceeds
  BY <1>9, <1>10 DEF WriteSucceeds, AfterWrite, TakeEffect, Control, Covered, Due, Blind, Where,
     Where, Pos
<1>11. CASE WriteConditionFails
  BY <1>8, <1>9, <1>11 DEF WriteConditionFails, AfterWrite, Control, Covered, Due, Blind, Where,
     Where, Pos
<1>12. CASE WriteFails
  BY <1>12 DEF WriteFails, Covered
<1>13. CASE EndPage
  BY <1>13, <1>a, TableAssumption DEF EndPage, Control, Covered, Due, Blind, Where, Pos, TypeOK
<1>14. CASE CallFails
  BY <1>14 DEF CallFails, Covered
<1>15. CASE \E k \in Keys, v \in Values : OtherWrite(k, v)
  BY <1>15 DEF OtherWrite, Covered, Due, Blind, Where, Pos
<1>16. CASE (\E k \in Keys : Replicate(k)) \/ Tick
  BY <1>16 DEF Replicate, Tick, Covered, Due, Blind, Where, Pos
<1>17. CASE UNCHANGED vars
  BY <1>17 DEF Covered, Due, Blind, Where, Pos
<1> QED
  BY <1>1, <1>2, <1>3, <1>5, <1>6, <1>7, <1>10, <1>11, <1>12, <1>13, <1>14, <1>15,
     <1>16, <1>17 DEF Next, Executor

\* A statement that reports success has changed every item that matched when it
\* was issued, that nobody else touched and that its reads could see.
THEOREM NoMatchMissedCorrect == Spec => []NoMatchMissed
<1>1. TypeOK /\ Covered => NoMatchMissed
  BY CommandType DEF Covered, NoMatchMissed, Due, Blind, Where
<1> QED
  BY <1>1, TypeInit, TypeNext, ControlInit, ControlNext, CoveredInit, UntouchedNext,
     CoveredNext, PTL DEF Spec

\* EXPLAIN sends no write, and prints the write of every such item.
THEOREM ExplainIsDryCorrect == Spec => []ExplainIsDry
<1>1. TypeOK /\ Control /\ Covered => ExplainIsDry
  BY CommandType DEF Control, Covered, ExplainIsDry, Due, Blind, Where
<1> QED
  BY <1>1, TypeInit, TypeNext, ControlInit, ControlNext, CoveredInit, UntouchedNext,
     CoveredNext, PTL DEF Spec

-----------------------------------------------------------------------------
(***************************************************************************)
(* The rate limits.                                                        *)
(***************************************************************************)

\* A bucket never holds more than what the rate has added since the statement
\* began, less what has been charged; what has been charged is all that was
\* consumed but for the writes that were refused.
Metered ==
  cmd.limited /\ ~cmd.explain =>
    /\ limiter.last <= now
    /\ limiter.write + (spent.write - spent.refused) <= WCU * limiter.last
    /\ limiter.read + spent.read <= RCU * limiter.last
    /\ pc \in {"describe", "describe_index", "plan", "single"} =>
         limiter.read = 0 /\ spent.read = 0 /\ spent.write = 0 /\ spent.refused = 0
    /\ pc = "write" /\ WCU > 0 => limiter.write >= 0
    /\ pc = "page" /\ RCU > 0 => limiter.read >= 0

\* The product of a rate and a time grows with the time.
LEMMA RateTimes ==
  ASSUME NEW r \in Nat, NEW s \in Nat, NEW t \in Nat, s <= t
  PROVE  /\ r * s \in Nat /\ r * t \in Nat
         /\ r * s + (t - s) * r = r * t
         /\ r * s <= r * t
<1>1. PICK d \in Nat : t = s + d
  BY t - s \in Nat
<1>2. r * (s + d) = r * s + r * d /\ r * d \in Nat /\ r * s \in Nat
  OBVIOUS
<1> QED
  BY <1>1, <1>2

\* A refill keeps each bucket within what the rate has added.
LEMMA RefreshMetered ==
  ASSUME NEW l \in Limiter, NEW t \in Nat, l.last <= t,
         NEW w \in Int, NEW r \in Int,
         l.write + w <= WCU * l.last, l.read + r <= RCU * l.last
  PROVE  /\ Refresh(l, t).last = t
         /\ Refresh(l, t).write + w <= WCU * t
         /\ Refresh(l, t).read + r <= RCU * t
<1>1. l.read \in Int /\ l.write \in Int /\ l.last \in Nat
  BY DEF Limiter
<1>2. /\ WCU * l.last + (t - l.last) * WCU = WCU * t /\ WCU * t \in Nat
      /\ WCU * l.last \in Nat
  BY <1>1, RateTimes, RateAssumption
<1>3. /\ RCU * l.last + (t - l.last) * RCU = RCU * t /\ RCU * t \in Nat
      /\ RCU * l.last \in Nat
  BY <1>1, RateTimes, RateAssumption
<1>4. /\ (t - l.last) * WCU \in Int /\ (t - l.last) * RCU \in Int
      /\ WCU * Second \in Int /\ RCU * Second \in Int
  BY <1>1, RateAssumption
<1>5. AtMost(WCU * Second, l.write + (t - l.last) * WCU) <= l.write + (t - l.last) * WCU
  BY <1>1, <1>4 DEF AtMost
<1>6. AtMost(RCU * Second, l.read + (t - l.last) * RCU) <= l.read + (t - l.last) * RCU
  BY <1>1, <1>4 DEF AtMost
<1>7. /\ AtMost(WCU * Second, l.write + (t - l.last) * WCU) \in Int
      /\ AtMost(RCU * Second, l.read + (t - l.last) * RCU) \in Int
  BY <1>1, <1>4 DEF AtMost
<1>8. /\ Refresh(l, t).last = t
      /\ Refresh(l, t).write = AtMost(WCU * Second, l.write + (t - l.last) * WCU)
      /\ Refresh(l, t).read = AtMost(RCU * Second, l.read + (t - l.last) * RCU)
  BY DEF Refresh
<1> QED
  BY <1>1, <1>2, <1>3, <1>4, <1>5, <1>6, <1>7, <1>8

\* Nothing has been spent at the start.
LEMMA MeteredInit == Init => Metered
BY RateAssumption DEF Init, Metered, NewLimiter

\* Every step keeps Metered.
LEMMA MeteredNext == TypeOK /\ Control /\ Metered /\ [Next]_vars => Metered'
<1> SUFFICES ASSUME TypeOK, Control, Metered, [Next]_vars, cmd.limited, ~cmd.explain,
                    cmd' = cmd
             PROVE  Metered'
  BY DEF Metered, Next, Executor, Elsewhere, DescribeTable, DescribeIndex,
     PlanRead, ExplainSingle, ExplainPage, FetchPage, StartSingle, StartItem,
     WriteSucceeds, WriteConditionFails, WriteFails, EndPage, CallFails, Fail,
     OtherWrite, Replicate, Tick
<1> USE DEF Elsewhere, NoRequest, Fail, Emit, Dry
<1>a. /\ limiter \in Limiter /\ now \in Nat /\ spent.read \in Nat /\ spent.write \in Nat
      /\ spent.refused \in Nat
      /\ limiter.read \in Int /\ limiter.write \in Int /\ limiter.last \in Nat
  BY DEF TypeOK, Limiter
<1>b. WCU * limiter.last \in Nat /\ RCU * limiter.last \in Nat
  BY <1>a, RateAssumption
<1>r. Throttled = Refresh(limiter, now)
  BY DEF Throttled
<1>s. /\ Refresh(limiter, now).last = now
      /\ Refresh(limiter, now).write + (spent.write - spent.refused) <= WCU * now
      /\ Refresh(limiter, now).read + spent.read <= RCU * now
  BY <1>a, RefreshMetered DEF Metered
<1>1. CASE DescribeTable
  <2>1. limiter' = [read |-> 0, write |-> 0, last |-> now] /\ spent' = spent /\ now' = now
    BY <1>1 DEF DescribeTable, NewLimiter
  <2>2. WCU * now \in Nat /\ RCU * now \in Nat
    BY <1>a, RateAssumption
  <2>3. spent.read = 0 /\ spent.write = 0 /\ spent.refused = 0
    BY <1>1 DEF DescribeTable, Metered
  <2>4. pc' \in {"single", "describe_index", "plan"}
    BY <1>1 DEF DescribeTable
  <2> QED
    BY <2>1, <2>2, <2>3, <2>4, <1>a DEF Metered
<1>2. CASE DescribeIndex
  BY <1>2 DEF DescribeIndex, Metered
<1>3. CASE PlanRead
  BY <1>3 DEF PlanRead, Metered
<1>4. CASE FetchPage
  <2>1. PICK units \in ConsumedUnits :
          /\ limiter' = ConsumeReads(limiter, units)
          /\ spent' = [spent EXCEPT !.read = @ + units]
    BY <1>4 DEF FetchPage
  <2>2. units \in Nat
    BY TableAssumption DEF ConsumedUnits
  <2>3. /\ limiter'.read = limiter.read - units /\ limiter'.write = limiter.write
        /\ limiter'.last = limiter.last
        /\ spent'.read = spent.read + units /\ spent'.write = spent.write
        /\ spent'.refused = spent.refused
    BY <2>1 DEF ConsumeReads, Limiter, TypeOK
  <2>4. pc' = "item" /\ now' = now
    BY <1>4 DEF FetchPage
  <2> QED
    BY <2>2, <2>3, <2>4, <1>a, <1>b DEF Metered
<1>5. CASE StartSingle \/ StartItem
  <2>1. /\ limiter' = Refresh(limiter, now) /\ pc' = "write" /\ now' = now
        /\ spent' = spent
    BY <1>5, <1>r DEF StartSingle, StartItem
  <2>2. WCU > 0 => limiter'.write >= 0
    BY <1>5, <2>1, RateAssumption
       DEF StartSingle, StartItem, MayWrite, WritelimitReturns
  <2> QED
    BY <2>1, <2>2, <1>s, <1>a DEF Metered
<1>6. CASE WriteSucceeds
  <2>1. PICK units \in ConsumedUnits :
          /\ limiter' = ConsumeWrites(limiter, units)
          /\ spent' = [spent EXCEPT !.write = @ + units]
    BY <1>6 DEF WriteSucceeds
  <2>2. units \in Nat
    BY TableAssumption DEF ConsumedUnits
  <2>3. /\ limiter'.write = limiter.write - units /\ limiter'.read = limiter.read
        /\ limiter'.last = limiter.last
        /\ spent'.write = spent.write + units /\ spent'.read = spent.read
        /\ spent'.refused = spent.refused
    BY <2>1 DEF ConsumeWrites, Limiter, TypeOK
  <2>4. pc' \in {"item", "done"} /\ now' = now
    BY <1>6 DEF WriteSucceeds, AfterWrite
  <2> QED
    BY <2>2, <2>3, <2>4, <1>a, <1>b DEF Metered
<1>7. CASE WriteConditionFails
  <2>1. PICK units \in ConsumedUnits :
          spent' = [spent EXCEPT !.write = @ + units, !.refused = @ + units]
    BY <1>7 DEF WriteConditionFails
  <2>2. units \in Nat
    BY TableAssumption DEF ConsumedUnits
  <2>3. /\ spent'.read = spent.read /\ spent'.write = spent.write + units
        /\ spent'.refused = spent.refused + units
    BY <2>1 DEF TypeOK
  <2>4. pc' \in {"item", "done"} /\ now' = now /\ limiter' = limiter
    BY <1>7 DEF WriteConditionFails, AfterWrite
  <2> QED
    BY <2>2, <2>3, <2>4, <1>a, <1>b DEF Metered
<1>14. CASE WriteFails \/ CallFails
  BY <1>14 DEF WriteFails, CallFails, Metered
<1>8. CASE EndPage
  <2>1. CASE more
    <3>1. /\ limiter' = Refresh(limiter, now) /\ pc' = "page" /\ now' = now
          /\ spent' = spent
      BY <1>8, <2>1, <1>r DEF EndPage
    <3>2. RCU > 0 => limiter'.read >= 0
      BY <1>8, <2>1, <3>1, RateAssumption DEF EndPage, ReadlimitReturns
    <3> QED
      BY <3>1, <3>2, <1>s, <1>a DEF Metered
  <2>2. CASE ~more
    BY <1>8, <2>2 DEF EndPage, Metered
  <2> QED
    BY <2>1, <2>2
<1>9. CASE ExplainSingle \/ ExplainPage
  BY <1>9 DEF ExplainSingle, ExplainPage
<1>10. CASE \E k \in Keys, v \in Values : OtherWrite(k, v)
  BY <1>10 DEF OtherWrite, Metered
<1>11. CASE \E k \in Keys : Replicate(k)
  BY <1>11 DEF Replicate, Metered
<1>12. CASE Tick
  <2>1. now' = now + 1 /\ UNCHANGED <<limiter, spent, pc>>
    BY <1>12 DEF Tick
  <2> QED
    BY <2>1, <1>a DEF Metered
<1>13. CASE UNCHANGED vars
  BY <1>13 DEF Metered
<1> QED
  BY <1>1, <1>2, <1>3, <1>4, <1>5, <1>6, <1>7, <1>8, <1>9, <1>10, <1>11, <1>12,
     <1>13, <1>14 DEF Next, Executor

\* A WITH RATELIMIT clause is respected by every statement, for all rates, but
\* for the capacity that refused conditional writes consume.
THEOREM RateRespectedCorrect == Spec => []RateRespected
<1>1. TypeOK /\ Metered => RateRespected
  <2> SUFFICES ASSUME TypeOK, Metered, cmd.limited, ~cmd.explain
               PROVE  /\ pc = "write" /\ WCU > 0 => spent.write <= WCU * now + spent.refused
                      /\ pc = "page" /\ RCU > 0 => spent.read <= RCU * now
    BY DEF RateRespected
  <2>1. /\ now \in Nat /\ spent.read \in Nat /\ spent.write \in Nat /\ spent.refused \in Nat
        /\ limiter.read \in Int /\ limiter.write \in Int /\ limiter.last \in Nat
    BY DEF TypeOK, Limiter
  <2>2. limiter.last <= now
    BY DEF Metered
  <2>3. /\ WCU * limiter.last <= WCU * now /\ RCU * limiter.last <= RCU * now
        /\ WCU * limiter.last \in Nat /\ WCU * now \in Nat
        /\ RCU * limiter.last \in Nat /\ RCU * now \in Nat
    BY <2>1, <2>2, RateTimes, RateAssumption
  <2> QED
    BY <2>1, <2>3 DEF Metered
<1> QED
  BY <1>1, TypeInit, TypeNext, ControlInit, ControlNext, MeteredInit, MeteredNext,
     PTL DEF Spec

-----------------------------------------------------------------------------
(***************************************************************************)
(* BulkWrite implements ItemwiseWrite.                                     *)
(***************************************************************************)

\* Each key changed, and each key tried, has been counted at least once, also
\* where an index lists it more than once.
AtLeast ==
  /\ IsFiniteSet(issued) /\ applied \subseteq issued
  /\ outcome # "error" =>
       /\ Cardinality(applied) <= acct.modified
       /\ Cardinality(issued) <= acct.modified + acct.ccf

\* Nothing has been counted at the start.
LEMMA AtLeastInit == Init => AtLeast
BY FS_EmptySet DEF Init, AtLeast

\* One more key is at most one more.
LEMMA OneMore ==
  ASSUME NEW S, IsFiniteSet(S), NEW x
  PROVE  /\ IsFiniteSet(S \union {x}) /\ Cardinality(S) \in Nat
         /\ Cardinality(S \union {x}) \in Nat
         /\ Cardinality(S \union {x}) <= Cardinality(S) + 1
<1>1. IsFiniteSet(S \union {x}) /\ (x \in S => S \union {x} = S)
  BY FS_AddElement
<1>2. Cardinality(S) \in Nat /\ Cardinality(S \union {x}) \in Nat
  BY <1>1, FS_CardinalityType
<1>3. Cardinality(S \union {x}) = Cardinality(S) \/ Cardinality(S \union {x}) = Cardinality(S) + 1
  BY FS_AddElement
<1> QED
  BY <1>1, <1>2, <1>3

\* Every step keeps it.
LEMMA AtLeastNext == TypeOK /\ Control /\ AtLeast /\ [Next]_vars => AtLeast'
<1> SUFFICES ASSUME TypeOK, Control, AtLeast, [Next]_vars PROVE AtLeast'
  OBVIOUS
<1> USE DEF Elsewhere, NoRequest, Emit
<1>0. /\ acct \in [read: Nat, modified: Nat, ccf: Nat]
      /\ IsFiniteSet(issued) /\ applied \subseteq issued /\ IsFiniteSet(applied)
  BY FS_Subset DEF TypeOK, AtLeast
<1>1. CASE WriteSucceeds
  <2>1. /\ pc = "write" /\ issued' = issued \union {current} /\ applied' = applied \union {current}
        /\ acct'.modified = acct.modified + 1 /\ acct'.ccf = acct.ccf
    BY <1>0, <1>1 DEF WriteSucceeds, Request, TakeEffect
  <2>2. /\ Cardinality(applied) <= acct.modified
        /\ Cardinality(issued) <= acct.modified + acct.ccf
    BY <2>1 DEF Control, AtLeast
  <2>3. /\ IsFiniteSet(issued') /\ applied' \subseteq issued'
        /\ Cardinality(issued) \in Nat /\ Cardinality(issued') \in Nat
        /\ Cardinality(issued') <= Cardinality(issued) + 1
    BY <1>0, <2>1, OneMore
  <2>4. /\ Cardinality(applied) \in Nat /\ Cardinality(applied') \in Nat
        /\ Cardinality(applied') <= Cardinality(applied) + 1
    BY <1>0, <2>1, OneMore
  <2>5. /\ acct.modified \in Nat /\ acct.ccf \in Nat
    BY <1>0
  <2> QED
    BY <2>1, <2>2, <2>3, <2>4, <2>5 DEF AtLeast
<1>2. CASE WriteConditionFails
  <2>1. /\ pc = "write" /\ issued' = issued \union {current} /\ applied' = applied
        /\ acct'.modified = acct.modified /\ acct'.ccf = acct.ccf + 1
    BY <1>0, <1>2 DEF WriteConditionFails, Request, ConditionFailureCounted
  <2>2. /\ Cardinality(applied) <= acct.modified
        /\ Cardinality(issued) <= acct.modified + acct.ccf
    BY <2>1 DEF Control, AtLeast
  <2>3. /\ IsFiniteSet(issued') /\ applied' \subseteq issued'
        /\ Cardinality(issued) \in Nat /\ Cardinality(issued') \in Nat
        /\ Cardinality(issued') <= Cardinality(issued) + 1
    BY <1>0, <2>1, OneMore
  <2>4. /\ acct.modified \in Nat /\ acct.ccf \in Nat
    BY <1>0
  <2> QED
    BY <2>1, <2>2, <2>3, <2>4 DEF AtLeast
<1>3. CASE WriteFails
  <2>1. /\ issued' = issued \union {current} /\ applied' \subseteq applied \union {current}
        /\ outcome' = "error"
    BY <1>3 DEF WriteFails, Request, TakeEffect, Fail
  <2> QED
    BY <1>0, <2>1, OneMore DEF AtLeast
<1>4. CASE StartItem
  <2>1. /\ acct'.modified = acct.modified /\ acct'.ccf = acct.ccf /\ outcome' = outcome
        /\ UNCHANGED <<issued, applied>>
    BY <1>0, <1>4 DEF StartItem
  <2> QED
    BY <2>1 DEF AtLeast
<1>5. ASSUME UNCHANGED <<acct, issued, applied>>, pc # "done" \/ outcome' = outcome PROVE AtLeast'
  BY <1>5 DEF AtLeast, Control
<1>6. CASE \/ DescribeTable \/ DescribeIndex \/ PlanRead \/ ExplainSingle
           \/ ExplainPage \/ FetchPage \/ StartSingle \/ EndPage \/ CallFails
  BY <1>5, <1>6 DEF DescribeTable, DescribeIndex, PlanRead, ExplainSingle, ExplainPage, FetchPage,
     StartSingle, EndPage, CallFails, Fail
<1>7. CASE \/ \E k \in Keys, v \in Values : OtherWrite(k, v)
           \/ \E k \in Keys : Replicate(k)
           \/ Tick
           \/ UNCHANGED vars
  BY <1>5, <1>7 DEF OtherWrite, Replicate, Tick
<1> QED
  BY <1>1, <1>2, <1>3, <1>4, <1>6, <1>7 DEF Next, Executor

\* What the statement asks for, part by part.
LEMMA AskedParts ==
  ASSUME TypeOK
  PROVE  /\ Asked.keys = cmd.keys /\ Asked.matches = Where
         /\ Asked.takes = IF cmd.verb = "update" THEN Where \ {Absent} ELSE Where
         /\ \A v \in Values : Asked.effect[v] = Effect(v)
         /\ Asked.again = ReadsIndex /\ Asked.dry = cmd.explain /\ Asked.blind = Blind
BY DEF Asked

\* It is a statement of ItemwiseWrite.
LEMMA AskedType == ASSUME TypeOK PROVE Asked \in Promise!Statement
<1>1. cmd \in Command
  BY CommandType
<1>2. cmd.keys \subseteq Keys /\ cmd.left \subseteq Values /\ cmd.right \subseteq Values
      /\ cmd.explain \in BOOLEAN /\ ReadsIndex \in BOOLEAN
  BY <1>1 DEF Command, ReadsIndex
<1>3. Where \subseteq Values
  BY <1>2 DEF Where
<1>4. [v \in Values |-> Effect(v)] \in [Values -> Values]
  BY EffectType
<1>5. Blind \subseteq Keys
  BY DEF Blind, TypeOK
<1> QED
  BY <1>2, <1>3, <1>4, <1>5 DEF Asked, Promise!Statement

\* The condition of the write says what an item may be applied to.
LEMMA TakesIsCondition ==
  ASSUME TypeOK, \A c \in Commands : c.verb = "update" => Absent \notin c.right, NEW v
  PROVE  v \in Asked.takes <=> ConditionHolds(v)
<1>1. cmd.verb = "update" => Absent \notin cmd.right
  BY DEF TypeOK
<1> QED
  BY <1>1, AskedParts DEF ConditionHolds, Where

\* A step nobody sees.
LEMMA Unseen ==
  ASSUME UNCHANGED <<cmd, table, original, lagging, foreign, issued, applied, outcome>>,
         outcome # "acct" \/ UNCHANGED acct
  PROVE  UNCHANGED Promise!vars
<1>1. Asked' = Asked
  BY DEF Asked, Where, Effect, Blind, ReadsIndex
<1>2. Told' = Told
  BY DEF Told
<1> QED
  BY <1>1, <1>2 DEF Promise!vars

\* Both modules count alike.
LEMMA SameCardinality == ASSUME NEW S PROVE Promise!Cardinality(S) = Cardinality(S)
BY Zenon DEF Promise!Cardinality, Cardinality

\* A report keeps the promises of one, and no step before it tells the counts.
LEMMA TellsTruth ==
  ASSUME TypeOK', Control', ReportIsExact', NoMatchMissed', AtLeast',
         UNCHANGED <<cmd, original, lagging, foreign>>, outcome' = "acct", TypeOK
  PROVE  Promise!Report
<1>1. Told' = [modified |-> acct'.modified, ccf |-> acct'.ccf] /\ cmd' = cmd /\ foreign' = foreign
      /\ original' = original
  BY DEF Told
<1>2. Told'.modified = acct'.modified /\ Told'.ccf = acct'.ccf
  BY <1>1
<1>3. Promise!Accounts(Told')
  <2>a. Asked.again = ReadsIndex /\ ReadsIndex' = ReadsIndex
    BY <1>1, AskedParts DEF ReadsIndex
  <2>b. /\ acct'.modified \in Nat /\ acct'.ccf \in Nat
        /\ IsFiniteSet(issued') /\ IsFiniteSet(applied')
    BY FS_Subset DEF TypeOK, AtLeast
  <2>c. Cardinality(issued') \in Nat /\ Cardinality(applied') \in Nat
    BY <2>b, FS_CardinalityType
  <2>1. CASE ReadsIndex
    <3>1. /\ Cardinality(applied') <= acct'.modified
          /\ Cardinality(issued') <= acct'.modified + acct'.ccf
      BY DEF AtLeast
    <3>2. /\ Told'.modified >= Cardinality(applied')
          /\ Told'.modified + Told'.ccf >= Cardinality(issued')
      BY <1>2, <2>b, <2>c, <3>1
    <3> QED
      BY <2>a, <2>1, <3>2, SameCardinality DEF Promise!Accounts
  <2>2. CASE ~ReadsIndex
    <3>1. /\ acct'.modified = Cardinality(applied')
          /\ acct'.modified + acct'.ccf = Cardinality(issued')
      BY <2>a, <2>2, Zenon DEF ReportIsExact
    <3>2. /\ Told'.modified = Cardinality(applied')
          /\ Told'.modified + Told'.ccf = Cardinality(issued')
      BY <1>2, <3>1
    <3> QED
      BY <2>a, <2>2, <3>2, SameCardinality DEF Promise!Accounts
  <2> QED
    BY <2>1, <2>2
<1>4. ~Asked.dry
  BY <1>1, AskedParts DEF Control
<1>5. \A k \in Asked.keys \ (foreign \union Asked.blind) :
        original[k] # Absent /\ original[k] \in Asked.matches => k \in applied'
  <2>1. Due' = Due
    BY <1>1 DEF Due, Blind, Where
  <2>2. Due \subseteq applied'
    BY <2>1, Zenon DEF NoMatchMissed
  <2> QED
    BY <2>2, AskedParts DEF Due
<1> QED
  BY <1>3, <1>4, <1>5 DEF Promise!Report

\* What a write takes effect on, it may be applied to, and it makes of it what
\* the statement asks for.
LEMMA EffectIsChange ==
  ASSUME TypeOK, \A c \in Commands : c.verb = "update" => Absent \notin c.right, TakeEffect
  PROVE  Promise!Change(current)
<1>1. table[current] \in Asked.takes
  BY TakesIsCondition DEF TakeEffect
<1>2. table[current] \in Values
  BY DEF TypeOK
<1>3. Asked.effect[table[current]] = Effect(table[current])
  BY <1>2, AskedParts
<1>4. table' = [table EXCEPT ![current] = Effect(table[current])] /\ applied' = applied \union {current}
  BY DEF TakeEffect
<1> QED
  BY <1>1, <1>3, <1>4 DEF Promise!Change

\* A write request is one for a key of the statement that has not been tried,
\* or that an index may list again.
LEMMA RequestIsSend ==
  ASSUME TypeOK, Control, Fresh, Listed, pc = "write", Request, Elsewhere
  PROVE  current \in Asked.keys /\ Promise!Send(current)
<1>1. current \in Asked.keys /\ ~Asked.dry /\ outcome = "none"
  BY AskedParts DEF Listed, Control
<1>2. current \in issued => Asked.again
  BY AskedParts DEF Fresh
<1>3. Asked' = Asked
  BY DEF Asked, Where, Effect, Blind, ReadsIndex, Elsewhere
<1>4. issued' = issued \union {current} /\ UNCHANGED <<original, foreign>>
  BY DEF Request, Elsewhere
<1> QED
  BY <1>1, <1>2, <1>3, <1>4 DEF Promise!Send

\* Before a report there are no counts to see.
LEMMA NothingTold ==
  ASSUME outcome # "acct", outcome' # "acct"
  PROVE  Told' = Told
BY DEF Told

\* An answered write either reports or leaves the answer open.
LEMMA AnsweredWrite ==
  ASSUME TypeOK, Control, TypeOK', Control', ReportIsExact', NoMatchMissed', AtLeast',
         pc = "write", AfterWrite, Elsewhere
  PROVE  Promise!Report \/ UNCHANGED <<outcome, Told>>
<1>1. outcome = "none" /\ UNCHANGED <<cmd, original, lagging, foreign>>
  BY DEF Control, Elsewhere
<1>2. CASE outcome' = "acct"
  BY <1>1, <1>2, TellsTruth
<1>3. CASE outcome' # "acct"
  BY <1>1, <1>3, NothingTold DEF AfterWrite, Emit
<1> QED
  BY <1>2, <1>3

\* Every step of the executors and of the world is one of ItemwiseWrite, or none.
LEMMA StepIsItemwise ==
  ASSUME \A c \in Commands : c.verb = "update" => Absent \notin c.right,
         TypeOK, Control, Fresh, Listed,
         TypeOK', Control', ReportIsExact', NoMatchMissed', AtLeast', [Next]_vars
  PROVE  [Promise!Next]_(Promise!vars)
<1>1. CASE WriteSucceeds
  <2>1. /\ pc = "write" /\ Request /\ TakeEffect /\ AfterWrite /\ Elsewhere
    BY <1>1 DEF WriteSucceeds
  <2>2. Promise!Write(current)
    BY <2>1, EffectIsChange, RequestIsSend, AnsweredWrite DEF Promise!Write
  <2> QED
    BY <2>1, <2>2, RequestIsSend DEF Promise!Next
<1>2. CASE WriteConditionFails
  <2>1. /\ pc = "write" /\ Request /\ AfterWrite /\ Elsewhere /\ UNCHANGED <<table, applied>>
        /\ ~ConditionHolds(table[current])
    BY <1>2 DEF WriteConditionFails
  <2>2. Promise!Refuse(current)
    BY <2>1, TakesIsCondition DEF Promise!Refuse
  <2>3. Promise!Write(current)
    BY <2>1, <2>2, RequestIsSend, AnsweredWrite DEF Promise!Write
  <2> QED
    BY <2>1, <2>3, RequestIsSend DEF Promise!Next
<1>3. CASE WriteFails
  <2>1. /\ pc = "write" /\ Request /\ Elsewhere /\ outcome' = "error"
        /\ TakeEffect \/ UNCHANGED <<table, applied>>
    BY <1>3 DEF WriteFails, Fail
  <2>2. Promise!Failure
    BY <2>1, NothingTold DEF Control, Promise!Failure
  <2>3. Promise!WriteUnheard(current)
    BY <2>1, <2>2, EffectIsChange, RequestIsSend DEF Promise!WriteUnheard
  <2> QED
    BY <2>1, <2>3, RequestIsSend DEF Promise!Next
<1>4. ASSUME pc # "done", outcome' # "none", Elsewhere, NoRequest, outcome' = "explain" => cmd.explain
      PROVE  Promise!Next
  <2>1. /\ outcome = "none" /\ outcome' \in {"acct", "explain", "error"}
        /\ UNCHANGED <<cmd, table, original, lagging, foreign, issued, applied>>
    BY <1>4 DEF Control, TypeOK, Elsewhere, NoRequest
  <2>2. Asked' = Asked
    BY <2>1 DEF Asked, Where, Effect, Blind, ReadsIndex
  <2>3. CASE outcome' = "acct"
    <3>1. Promise!Report
      BY <2>1, <2>3, TellsTruth
    <3> QED
      BY <2>1, <2>2, <3>1 DEF Promise!End, Promise!Next
  <2>4. CASE outcome' # "acct"
    <3>1. Told' = Told
      BY <2>1, <2>4, NothingTold
    <3>2. Promise!Failure \/ (Asked.dry /\ outcome' = "explain" /\ Told' = Told)
      BY <1>4, <2>1, <2>4, <3>1, AskedParts DEF Promise!Failure
    <3> QED
      BY <2>1, <2>2, <3>2 DEF Promise!End, Promise!Next
  <2> QED
    BY <2>3, <2>4
<1>5. CASE \/ PlanRead \/ ExplainSingle \/ ExplainPage \/ EndPage \/ CallFails
  <2>1. /\ pc # "done" /\ Elsewhere /\ NoRequest /\ UNCHANGED acct
        /\ outcome' = outcome \/ outcome' # "none"
        /\ outcome' = "explain" => cmd.explain
    BY <1>5 DEF PlanRead, ExplainSingle, ExplainPage, EndPage, CallFails, Fail, Emit, Dry, Control
  <2>2. CASE outcome' = outcome
    <3>1. UNCHANGED <<cmd, table, original, lagging, foreign, issued, applied, outcome>>
      BY <2>1, <2>2 DEF Elsewhere, NoRequest
    <3> QED
      BY <2>1, <3>1, Unseen
  <2>3. CASE outcome' # outcome
    BY <1>4, <2>1, <2>3
  <2> QED
    BY <2>2, <2>3
<1>6. CASE \/ DescribeTable \/ DescribeIndex \/ FetchPage \/ StartSingle \/ StartItem
  <2>1. /\ pc # "done"
        /\ UNCHANGED <<cmd, table, original, lagging, foreign, issued, applied, outcome>>
    BY <1>6 DEF DescribeTable, DescribeIndex, FetchPage, StartSingle, StartItem, Elsewhere, NoRequest
  <2>2. outcome # "acct"
    BY <2>1 DEF Control
  <2> QED
    BY <2>1, <2>2, Unseen
<1>7. ASSUME NEW k \in Keys, NEW v \in Values, OtherWrite(k, v)
      PROVE  Promise!Next
  <2>1. /\ outcome = "none" /\ UNCHANGED <<cmd, original, lagging, issued, applied, outcome, acct>>
        /\ table' = [table EXCEPT ![k] = v] /\ foreign' = foreign \union {k}
    BY <1>7 DEF OtherWrite, Control
  <2>2. Asked' = Asked /\ Told' = Told
    BY <2>1 DEF Asked, Where, Effect, Blind, ReadsIndex, Told
  <2>3. Promise!OtherWrite(k, v)
    BY <2>1, <2>2 DEF Promise!OtherWrite
  <2> QED
    BY <2>3 DEF Promise!Next
<1>8. CASE (\E k \in Keys : Replicate(k)) \/ Tick \/ UNCHANGED vars
  <2>1. UNCHANGED <<cmd, table, original, lagging, foreign, issued, applied, outcome>> /\ UNCHANGED acct
    BY <1>8 DEF Replicate, Tick
  <2> QED
    BY <2>1, Unseen
<1> QED
  BY <1>1, <1>2, <1>3, <1>5, <1>6, <1>7, <1>8 DEF Next, Executor

\* What the executors keep from step to step for ItemwiseWrite.
KeptItemwise ==
  TypeOK /\ Control /\ Fresh /\ Counted /\ Listed /\ Untouched /\ Covered /\ AtLeast

\* A statement keeps it all along.
LEMMA KeptAlways == Spec => []KeptItemwise
<1>1. Init => Listed
  BY DEF Init, Listed
<1> QED
  BY <1>1, TypeInit, TypeNext, ControlInit, ControlNext, FreshInit, FreshNext, CountedInit,
     CountedNext, ListedNext, CoveredInit, UntouchedNext, CoveredNext, AtLeastInit, AtLeastNext,
     PTL DEF Spec, KeptItemwise

\* UPDATE, UPSERT and DELETE implement ItemwiseWrite, for every table, page
\* layout and rate, when no UPDATE has a WHERE whose part after a top-level OR
\* is true of an absent item.
THEOREM ItemwiseWriteImplemented ==
  ASSUME \A c \in Commands : c.verb = "update" => Absent \notin c.right
  PROVE  Spec => ImplementsItemwiseWrite
<1>1. Init => Promise!Init
  <2> SUFFICES ASSUME Init PROVE Promise!Init
    OBVIOUS
  <2>1. Asked \in Promise!Statement
    BY TypeInit, AskedType
  <2>2. Told = Promise!Nothing
    BY DEF Init, Told, Promise!Nothing
  <2>3. table \in [Keys -> Values] /\ original = table /\ foreign = {} /\ issued = {}
        /\ applied = {} /\ outcome = "none"
    BY DEF Init
  <2> QED
    BY <2>1, <2>2, <2>3 DEF Promise!Init
<1>2. KeptItemwise /\ KeptItemwise' /\ [Next]_vars => [Promise!Next]_(Promise!vars)
  <2> SUFFICES ASSUME KeptItemwise, KeptItemwise', [Next]_vars
               PROVE  [Promise!Next]_(Promise!vars)
    OBVIOUS
  <2>1. TypeOK /\ Control /\ Fresh /\ Listed /\ TypeOK' /\ Control' /\ AtLeast'
    BY DEF KeptItemwise
  <2>2. ReportIsExact'
    BY FS_CardinalityType DEF KeptItemwise, Control, Counted, ReportIsExact
  <2>3. NoMatchMissed'
    <3>1. cmd'.keys \subseteq Keys
      BY <2>1, CommandAssumption DEF TypeOK, Command
    <3> QED
      BY <3>1 DEF KeptItemwise, Covered, NoMatchMissed, Due, Blind, Where
  <2> QED
    BY <2>1, <2>2, <2>3, StepIsItemwise
<1> QED
  BY <1>1, <1>2, KeptAlways, PTL DEF Spec, ImplementsItemwiseWrite, Promise!Spec
=============================================================================
