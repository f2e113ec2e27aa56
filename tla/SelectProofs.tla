---------------------------- MODULE SelectProofs ----------------------------
(***************************************************************************)
(* Proofs about Select for every table, statement, page boundary and number *)
(* of writes by other clients.                                              *)
(***************************************************************************)
EXTENDS Select, FiniteSetTheorems, TLAPS

USE DEF executor, clock, others, vars

-----------------------------------------------------------------------------
(***************************************************************************)
(* The inductive invariant.                                                *)
(***************************************************************************)

\* The types of the table, what is seen of it, and the place in the listing.
SelectType ==
  /\ cmd \in Commands
  /\ table \in [Keys -> Values] /\ view \in [Keys -> Values] /\ original \in [Keys -> Values]
  /\ held \in [Keys -> SUBSET Values]
  /\ cursor \in 0..MaxPos

\* What the executor has read is decided by where it is.
Control ==
  /\ pc \in {"route", "schema", "search", "read", "wait", "done"}
  /\ outcome # "none" <=> pc = "done"
  /\ pc \in {"route", "schema", "search"} \/ (pc = "read" /\ cmd.api = "get") => rows = {} /\ cursor = 0
  /\ pc = "search" => cmd.index = "vector" /\ ~cmd.consistent
  /\ pc = "wait" => cmd.api # "get"

\* What nobody touched is as it was, and a value the table has, it has had.
Still ==
  /\ \A k \in Keys \ foreign : table[k] = original[k]
  /\ \A k \in Keys \ (foreign \union lagging) : view[k] = original[k]
  /\ \A k \in Keys : table[k] \in held[k]

\* The keys RowsExact speaks of.
Untouched == Keys \ (foreign \union (IF cmd.consistent THEN {} ELSE lagging))

OneRow(k) == \E r : RowsOf(k) = {r}

\* An item nobody touched is read with the page that covers its position.
Due(k, upto) ==
  /\ k \in cmd.keys /\ original[k] \in cmd.filter
  /\ Pos(k, original[k]) <= upto

Covered ==
  \A k \in Untouched :
    /\ outcome = "none" => IF Due(k, cursor) THEN OneRow(k) ELSE RowsOf(k) = {}
    /\ outcome = "rows" => IF Due(k, MaxPos) THEN OneRow(k) ELSE RowsOf(k) = {}

\* A key of the base table has one position, which is read once.
Once ==
  cmd.index = "none" =>
    \A k \in Keys : /\ RowsOf(k) = {} \/ OneRow(k)
                    /\ outcome = "none" /\ BasePos[k] > cursor => RowsOf(k) = {}

\* ConsistentRowsHeld of the rows read so far.
RowsHeld ==
  cmd.consistent =>
    \A r \in rows : r.key \in Keys /\ r.content \in held[r.key] /\ r.content \in cmd.filter

IInv == SelectType /\ Control /\ Still /\ Covered /\ Once /\ RowsHeld

\* What the assumption says of the running statement.
LEMMA CommandType ==
  ASSUME SelectType
  PROVE  /\ cmd.explain \in BOOLEAN /\ cmd.consistent \in BOOLEAN
         /\ cmd.index \in {"none", "local", "global", "vector"}
         /\ cmd.keys \subseteq Keys /\ cmd.filter \subseteq Contents
         /\ cmd.api = "get" => cmd.index = "none"
BY SelectAssumption DEF SelectType, Command

\* Positions are those of the listing.
LEMMA PosType ==
  ASSUME SelectType, NEW k \in Keys, NEW v \in Contents
  PROVE  Pos(k, v) \in 1..MaxPos /\ BasePos[k] \in 1..MaxPos /\ MaxPos \in Nat
BY SelectAssumption DEF Pos

\* A statement starts with the invariant.
LEMMA IInvInit == Init => IInv
<1> SUFFICES ASSUME Init PROVE IInv
  OBVIOUS
<1>1. SelectType
  BY SelectAssumption DEF Init, SelectType
<1>2. rows = {} /\ outcome = "none" /\ cursor = 0 /\ pc = "route" /\ original = table
  BY DEF Init
<1>3. Control /\ Still
  BY <1>2 DEF Init, Control, Still
<1>4. \A k : RowsOf(k) = {}
  BY <1>2 DEF RowsOf
<1>5. ASSUME NEW k \in Keys PROVE ~Due(k, cursor)
  BY <1>1, <1>2, CommandType, PosType DEF Due
<1>6. Covered /\ Once /\ RowsHeld
  BY <1>2, <1>4, <1>5 DEF Covered, Once, RowsHeld, Untouched
<1> QED
  BY <1>1, <1>3, <1>6 DEF IInv

-----------------------------------------------------------------------------
(***************************************************************************)
(* The rows of one response.                                               *)
(***************************************************************************)

\* A response has at most one row for a key: the one that is found at its
\* present position, if that is in the page and matches.
LEMMA MatchesOf ==
  ASSUME SelectType, NEW k, NEW from, NEW to
  PROVE  {r \in Matches(from, to) : r.key = k} =
           IF k \in cmd.keys /\ Reads[k] \in cmd.filter /\ Pos(k, Reads[k]) \in (from + 1)..to
           THEN {[key |-> k, content |-> Reads[k], page |-> page]} ELSE {}
BY DEF Matches

\* Every row of a response is one of a key of the statement, as it was read.
LEMMA MatchesAre ==
  ASSUME SelectType, NEW from, NEW to, NEW r \in Matches(from, to)
  PROVE  r.key \in Keys /\ r.content = Reads[r.key] /\ r.content \in cmd.filter
BY CommandType DEF Matches

\* What nobody touched is what a request sees of it.
LEMMA ReadsOriginal ==
  ASSUME IInv, NEW k \in Untouched
  PROVE  k \in Keys /\ Reads[k] = original[k] /\ k \in Keys \ foreign
BY DEF IInv, Still, Untouched, Reads

\* The rows of a key after a response that covers the positions cursor+1 .. to.
LEMMA ResponseAdds ==
  ASSUME IInv, NEW to, NEW k, rows' = rows \union Matches(cursor, to)
  PROVE  RowsOf(k)' = RowsOf(k) \union {r \in Matches(cursor, to) : r.key = k}
BY DEF RowsOf

\* A response keeps what is said of its rows, with the position it went to in
\* place of the cursor.
LEMMA ResponseKeeps ==
  ASSUME IInv, outcome = "none", NEW to \in cursor..MaxPos,
         rows' = rows \union Matches(cursor, to), Elsewhere
  PROVE  /\ \A k \in Untouched : (IF Due(k, to) THEN OneRow(k)' ELSE RowsOf(k)' = {})
         /\ cmd.index = "none" =>
              \A k \in Keys : /\ RowsOf(k)' = {} \/ OneRow(k)'
                              /\ BasePos[k] > to => RowsOf(k)' = {}
         /\ RowsHeld'
<1> USE DEF IInv
<1>1. MaxPos \in Nat /\ cursor \in 0..MaxPos /\ to \in 0..MaxPos /\ cursor <= to
  BY SelectAssumption DEF SelectType
<1>2. ASSUME NEW k \in Untouched
      PROVE  IF Due(k, to) THEN OneRow(k)' ELSE RowsOf(k)' = {}
  <2>1. k \in Keys /\ Reads[k] = original[k]
    BY ReadsOriginal
  <2>2. IF Due(k, cursor) THEN OneRow(k) ELSE RowsOf(k) = {}
    BY DEF Covered
  <2> DEFINE new == {r \in Matches(cursor, to) : r.key = k}
             hit == k \in cmd.keys /\ original[k] \in cmd.filter
                      /\ Pos(k, original[k]) \in (cursor + 1)..to
  <2>3. /\ hit => new = {[key |-> k, content |-> original[k], page |-> page]}
        /\ ~hit => new = {}
    BY <2>1, MatchesOf
  <2>4. RowsOf(k)' = RowsOf(k) \union new
    BY ResponseAdds
  <2>5. k \in cmd.keys /\ original[k] \in cmd.filter => Pos(k, original[k]) \in 1..MaxPos
    BY <2>1, CommandType, PosType
  <2>6. CASE hit
    <3>1. Due(k, to) /\ ~Due(k, cursor)
      BY <1>1, <2>5, <2>6 DEF Due
    <3> QED
      BY <2>2, <2>3, <2>4, <2>6, <3>1 DEF OneRow
  <2>7. CASE ~hit
    <3>1. Due(k, to) <=> Due(k, cursor)
      BY <1>1, <2>5, <2>7 DEF Due
    <3>2. RowsOf(k)' = RowsOf(k)
      BY <2>3, <2>4, <2>7
    <3> QED
      BY <2>2, <3>1, <3>2 DEF OneRow
  <2> QED
    BY <2>6, <2>7
<1>3. ASSUME cmd.index = "none", NEW k \in Keys
      PROVE  /\ RowsOf(k)' = {} \/ OneRow(k)'
             /\ BasePos[k] > to => RowsOf(k)' = {}
  <2> DEFINE new == {r \in Matches(cursor, to) : r.key = k}
             hit == k \in cmd.keys /\ Reads[k] \in cmd.filter
                      /\ BasePos[k] \in (cursor + 1)..to
  <2>1. /\ hit => new = {[key |-> k, content |-> Reads[k], page |-> page]}
        /\ ~hit => new = {}
    BY <1>3, MatchesOf DEF Pos
  <2>2. RowsOf(k)' = RowsOf(k) \union new
    BY ResponseAdds
  <2>3. BasePos[k] \in Nat
    BY SelectAssumption
  <2>4. /\ RowsOf(k) = {} \/ OneRow(k)
        /\ BasePos[k] > cursor => RowsOf(k) = {}
    BY <1>3 DEF Once
  <2>5. CASE hit
    <3>1. RowsOf(k) = {} /\ ~(BasePos[k] > to)
      BY <1>1, <2>3, <2>4, <2>5
    <3> QED
      BY <2>1, <2>2, <2>5, <3>1 DEF OneRow
  <2>6. CASE ~hit
    <3>1. RowsOf(k)' = RowsOf(k) /\ (BasePos[k] > to => BasePos[k] > cursor)
      BY <1>1, <2>1, <2>2, <2>3, <2>6
    <3> QED
      BY <2>4, <3>1 DEF OneRow
  <2> QED
    BY <2>5, <2>6
<1>4. RowsHeld'
  <2>1. cmd' = cmd /\ held' = held
    BY DEF Elsewhere
  <2>2. SUFFICES ASSUME cmd.consistent, NEW r \in rows'
                 PROVE  r.key \in Keys /\ r.content \in held[r.key] /\ r.content \in cmd.filter
    BY <2>1 DEF RowsHeld
  <2>3. CASE r \in rows
    BY <2>2, <2>3 DEF RowsHeld
  <2>4. CASE r \in Matches(cursor, to)
    BY <2>2, <2>4, MatchesAre DEF Reads, Still
  <2> QED
    BY <2>3, <2>4
<1> QED
  BY <1>2, <1>3, <1>4

-----------------------------------------------------------------------------
(***************************************************************************)
(* Every step keeps the invariant.                                         *)
(***************************************************************************)

\* A step that reads nothing and goes on, or that ends without rows.
LEMMA NoRowsKeeps ==
  ASSUME IInv, outcome = "none", UNCHANGED <<rows, cursor>>, Elsewhere,
         outcome' \in {"none", "explain", "error"}, Control'
  PROVE  IInv'
<1>1. UNCHANGED <<cmd, table, view, foreign, held, original, lagging>>
  BY DEF Elsewhere
<1>2. SelectType' /\ Still'
  BY <1>1 DEF IInv, SelectType, Still
<1>3. \A k : RowsOf(k)' = RowsOf(k) /\ (OneRow(k)' <=> OneRow(k))
  BY DEF RowsOf, OneRow
<1>4. \A k : Due(k, cursor)' <=> Due(k, cursor)
  BY <1>1 DEF Due, Pos
<1>5. Covered'
  BY <1>1, <1>3, <1>4 DEF IInv, Covered, Untouched
<1>6. Once' /\ RowsHeld'
  BY <1>1, <1>3 DEF IInv, Once, RowsHeld
<1> QED
  BY <1>2, <1>5, <1>6 DEF IInv

\* A response: the statement ends with it if it covers the rest.
LEMMA PageKeeps ==
  ASSUME IInv, outcome = "none", NEW to \in cursor..MaxPos,
         rows' = rows \union Matches(cursor, to), Elsewhere, Control',
         \/ outcome' = "none" /\ cursor' = to
         \/ outcome' = "rows" /\ cursor' = cursor /\ to = MaxPos
  PROVE  IInv'
<1>1. UNCHANGED <<cmd, table, view, foreign, held, original, lagging>>
  BY DEF Elsewhere
<1>2. SelectType' /\ Still'
  BY <1>1, SelectAssumption DEF IInv, SelectType, Still
<1>3. /\ \A k \in Untouched : (IF Due(k, to) THEN OneRow(k)' ELSE RowsOf(k)' = {})
      /\ cmd.index = "none" =>
           \A k \in Keys : /\ RowsOf(k)' = {} \/ OneRow(k)'
                           /\ BasePos[k] > to => RowsOf(k)' = {}
      /\ RowsHeld'
  BY ResponseKeeps
<1>4. Untouched' = Untouched
  BY <1>1 DEF Untouched
<1>5. CASE outcome' = "none" /\ cursor' = to
  <2>1. \A k : Due(k, cursor)' <=> Due(k, to)
    BY <1>1, <1>5 DEF Due, Pos
  <2>2. Covered' /\ Once'
    BY <1>1, <1>3, <1>4, <1>5, <2>1 DEF Covered, Once
  <2> QED
    BY <1>2, <1>3, <2>2 DEF IInv
<1>6. CASE outcome' = "rows" /\ to = MaxPos
  <2>1. \A k : Due(k, MaxPos)' <=> Due(k, to)
    BY <1>1, <1>6 DEF Due, Pos
  <2>2. Covered' /\ Once'
    BY <1>1, <1>3, <1>4, <1>6, <2>1 DEF Covered, Once
  <2> QED
    BY <1>2, <1>3, <2>2 DEF IInv
<1> QED
  BY <1>5, <1>6

\* Every step of plan_select and execute_select keeps it.
LEMMA IInvExecutor == IInv /\ Executor => IInv'
<1> SUFFICES ASSUME IInv, Executor PROVE IInv'
  OBVIOUS
<1>1. Elsewhere /\ cmd' = cmd /\ pc # "done" /\ outcome = "none"
  BY DEF Executor, Route, Schema, Explain, GetItem, Page, Wait, SearchVectors, CallFails, Fail,
     Elsewhere, IInv, Control
<1> USE CommandType DEF IInv
<1>2. CASE Route \/ Schema \/ Explain \/ Wait \/ CallFails
  <2>1. UNCHANGED <<rows, cursor>> /\ outcome' \in {"none", "explain", "error"}
    BY <1>1, <1>2 DEF Route, Schema, Explain, Wait, CallFails, Fail
  <2>2. CASE Route
    BY <1>1, <2>1, <2>2, NoRowsKeeps DEF Route, Control
  <2>3. CASE Schema
    BY <1>1, <2>1, <2>3, NoRowsKeeps DEF Schema, Control
  <2>4. CASE Explain \/ CallFails
    BY <1>1, <2>1, <2>4, NoRowsKeeps DEF Explain, CallFails, Fail, Control
  <2>5. CASE Wait
    <3>1. cmd.api # "get"
      BY <2>5 DEF Wait, Control
    <3> QED
      BY <1>1, <2>1, <2>5, <3>1, NoRowsKeeps DEF Wait, Control
  <2> QED
    BY <1>2, <2>2, <2>3, <2>4, <2>5
<1>3. CASE GetItem
  <2>1. rows = {} /\ cursor = 0 /\ MaxPos \in cursor..MaxPos
    BY <1>3, SelectAssumption DEF GetItem, Control
  <2>2. rows' = rows \union Matches(cursor, MaxPos) /\ cursor' = cursor /\ outcome' = "rows" /\ pc' = "done"
    BY <1>3, <2>1 DEF GetItem, Finish
  <2>3. Control'
    BY <1>1, <2>2 DEF Control
  <2> QED
    BY <1>1, <2>1, <2>2, <2>3, PageKeeps
<1>4. CASE Page
  <2>1. PICK last \in 0..MaxPos, lastKey \in BOOLEAN :
          /\ PageEnds(last, lastKey)
          /\ rows' = rows \union Matches(cursor, last)
          /\ IF lastKey THEN pc' = "wait" /\ cursor' = last /\ UNCHANGED outcome
             ELSE pc' = "done" /\ outcome' = "rows" /\ UNCHANGED cursor
    BY <1>4 DEF Page, LoopGoesOn, NextStart, Finish
  <2>2. last \in cursor..MaxPos /\ (~lastKey => last = MaxPos)
    BY <2>1 DEF PageEnds
  <2>3. Control'
    BY <1>1, <1>4, <2>1 DEF Page, Control
  <2> QED
    BY <1>1, <2>1, <2>2, <2>3, PageKeeps
<1>5. CASE SearchVectors
  <2>1. /\ outcome' = "vectors" /\ pc' = "done" /\ cmd.index = "vector" /\ ~cmd.consistent
        /\ UNCHANGED <<cursor, cmd, table, view, foreign, held, original, lagging>>
    BY <1>5 DEF SearchVectors, Elsewhere, Control
  <2>2. SelectType' /\ Still'
    BY <2>1 DEF SelectType, Still
  <2>3. Control' /\ Covered' /\ Once' /\ RowsHeld'
    BY <2>1 DEF Control, Covered, Once, RowsHeld
  <2> QED
    BY <2>2, <2>3
<1> QED
  BY <1>2, <1>3, <1>4, <1>5 DEF Executor

\* So does every write of another client, of which the executor may not know.
LEMMA IInvOtherWrite ==
  ASSUME IInv, NEW x \in Keys, NEW v \in Values, OtherWrite(x, v)
  PROVE  IInv'
<1> USE DEF IInv
<1>1. /\ UNCHANGED <<cmd, pc, outcome, rows, cursor, view, original, lagging>>
      /\ table' = [table EXCEPT ![x] = v] /\ foreign' = foreign \union {x}
      /\ held' = [held EXCEPT ![x] = held[x] \union {v}]
  BY DEF OtherWrite
<1>2. SelectType'
  BY <1>1 DEF SelectType
<1>3. Control'
  BY <1>1 DEF Control
<1>4. Still'
  BY <1>1 DEF Still, SelectType
<1>5. \A k : RowsOf(k)' = RowsOf(k) /\ (OneRow(k)' <=> OneRow(k))
  BY <1>1 DEF RowsOf, OneRow
<1>6. \A k : (Due(k, cursor)' <=> Due(k, cursor)) /\ (Due(k, MaxPos)' <=> Due(k, MaxPos))
  BY <1>1 DEF Due, Pos
<1>7. Untouched' \subseteq Untouched
  BY <1>1 DEF Untouched
<1>8. Covered' /\ Once'
  BY <1>1, <1>5, <1>6, <1>7 DEF Covered, Once
<1>9. \A k \in Keys : held[k] \subseteq held'[k]
  BY <1>1 DEF SelectType
<1>10. RowsHeld'
  BY <1>1, <1>9 DEF RowsHeld
<1> QED
  BY <1>2, <1>3, <1>4, <1>8, <1>10

\* Every step keeps it.
LEMMA IInvNext == IInv /\ [Next]_vars => IInv'
<1> SUFFICES ASSUME IInv, [Next]_vars PROVE IInv'
  OBVIOUS
<1>1. CASE Executor
  BY <1>1, IInvExecutor
<1>2. CASE \E k \in Keys, v \in Values : OtherWrite(k, v)
  BY <1>2, IInvOtherWrite
<1>3. CASE (\E k \in Keys : Replicate(k)) \/ Tick \/ UNCHANGED vars
  <2> USE DEF IInv
  <2>1. UNCHANGED <<cmd, pc, outcome, rows, cursor, table, foreign, held, original, lagging>>
    BY <1>3 DEF Replicate, Tick
  <2>2. view' = view \/ \E x \in Keys : view' = [view EXCEPT ![x] = table[x]]
    BY <1>3 DEF Replicate, Tick
  <2>3. SelectType'
    BY <2>1, <2>2 DEF SelectType
  <2>4. Still'
    BY <2>1, <2>2 DEF Still, SelectType
  <2>5. Control'
    BY <2>1 DEF Control
  <2>6. \A k : RowsOf(k)' = RowsOf(k) /\ (OneRow(k)' <=> OneRow(k))
    BY <2>1 DEF RowsOf, OneRow
  <2>7. \A k : (Due(k, cursor)' <=> Due(k, cursor)) /\ (Due(k, MaxPos)' <=> Due(k, MaxPos))
    BY <2>1 DEF Due, Pos
  <2>8. Covered' /\ Once' /\ RowsHeld'
    BY <2>1, <2>6, <2>7 DEF Covered, Once, RowsHeld, Untouched
  <2> QED
    BY <2>3, <2>4, <2>5, <2>8
<1> QED
  BY <1>1, <1>2, <1>3 DEF Next

\* The invariant holds throughout a statement.
LEMMA IInvAlways == Spec => []IInv
BY IInvInit, IInvNext, PTL DEF Spec

-----------------------------------------------------------------------------
(***************************************************************************)
(* What follows from it.                                                   *)
(***************************************************************************)

\* A key with one row counts as one.
LEMMA RowsCounted ==
  ASSUME NEW k
  PROVE  /\ RowsOf(k) = {} => Cardinality(RowsOf(k)) = 0
         /\ OneRow(k) => Cardinality(RowsOf(k)) = 1
BY FS_EmptySet, FS_Singleton DEF OneRow

\* execute_select returns each item nobody touched exactly once if it matches,
\* over any number of pages.
THEOREM RowsExactCorrect == Spec => []RowsExact
<1>1. IInv => RowsExact
  <2> SUFFICES ASSUME IInv, outcome = "rows", NEW k \in Untouched
               PROVE  Cardinality(RowsOf(k)) =
                        IF k \in cmd.keys /\ original[k] \in cmd.filter THEN 1 ELSE 0
    BY DEF RowsExact, Untouched
  <2>1. IF Due(k, MaxPos) THEN OneRow(k) ELSE RowsOf(k) = {}
    BY DEF IInv, Covered
  <2>2. Due(k, MaxPos) <=> k \in cmd.keys /\ original[k] \in cmd.filter
    BY CommandType, PosType DEF IInv, Due, Untouched
  <2> QED
    BY <2>1, <2>2, RowsCounted
<1> QED
  BY <1>1, IInvAlways, PTL

\* No two pages of the base table show the same item.
THEOREM NoItemTwiceCorrect == Spec => []NoItemTwice
<1>1. IInv => NoItemTwice
  <2> SUFFICES ASSUME IInv, outcome = "rows", cmd.index = "none", NEW k \in Keys
               PROVE  Cardinality(RowsOf(k)) <= 1
    BY DEF NoItemTwice
  <2>1. RowsOf(k) = {} \/ OneRow(k)
    BY DEF IInv, Once
  <2>2. Cardinality(RowsOf(k)) \in {0, 1}
    BY <2>1, RowsCounted
  <2> QED
    BY <2>2
<1> QED
  BY <1>1, IInvAlways, PTL

\* A CONSISTENT read shows no value from before the statement.
THEOREM ConsistentRowsHeldCorrect == Spec => []ConsistentRowsHeld
<1>1. IInv => ConsistentRowsHeld
  BY DEF IInv, RowsHeld, ConsistentRowsHeld
<1> QED
  BY <1>1, IInvAlways, PTL
=============================================================================
