-------------------------- MODULE ConnectionProofs --------------------------
(***************************************************************************)
(* Proofs about Connection for every text, region and number of calls.     *)
(***************************************************************************)
EXTENDS Connection, TLAPS

USE DEF history, vars

\* A Results, whatever its result sets and the place in them.
Cursor(sets, set, row) ==
  [live: {TRUE}, session: Nat, batch: Batch, index: Nat, loaded: BOOLEAN, done: BOOLEAN,
   sets: {sets}, set: {set}, row: {row}, error: BOOLEAN]

\* The types of what is counted and compared.
ConnectionType ==
  /\ conn \in [region: Regions, session: Nat, closed: BOOLEAN]
  /\ conn.closed <=> conn.session = 0
  /\ results = NoResults \/ results \in Cursor(results.sets, results.set, results.row)
  /\ text \in Batch /\ ran \in Seq(Nat)
  /\ freed \in BOOLEAN /\ held \in BOOLEAN /\ failed \in BOOLEAN

\* A Results belongs to the text submitted last and, unless the caller called
\* reconnect() or close() since, to the Session there is.  Its error and its end
\* say how far the batch has come.
Follows ==
  results.live =>
    /\ results.batch = text /\ results.index <= Len(text.statements)
    /\ ~held => results.session = conn.session /\ conn.session # 0
    /\ ~results.done => ~results.error /\ ~failed
    /\ freed => ~results.done
    /\ results.done /\ failed => results.error
    /\ results.done /\ ~failed =>
         results.index = Len(text.statements) /\ (results.error <=> text.broken)

IInv == ConnectionType /\ Follows /\ OnceInOrder /\ RegionIsTrue /\ DisciplineSuffices

\* A Connection starts with the invariant.
LEMMA IInvInit == Init => IInv
<1> SUFFICES ASSUME Init PROVE IInv
  OBVIOUS
<1>1. text \in Batch /\ Len(text.statements) = 0
  <2>1. text = [statements |-> <<>>, broken |-> FALSE] /\ <<>> \in Seq(Statement)
    BY DEF Init
  <2> QED
    BY <2>1 DEF Batch
<1>2. ConnectionType
  <2>1. conn \in [region: Regions, session: Nat, closed: BOOLEAN] /\ (conn.closed <=> conn.session = 0)
    BY ConnectionAssumption DEF Init
  <2>2. ran \in Seq(Nat)
    BY DEF Init
  <2> QED
    BY <1>1, <2>1, <2>2 DEF Init, ConnectionType
<1>3. ~results.live
  BY DEF Init, NoResults
<1>4. OnceInOrder
  BY <1>1, <1>3 DEF Init, OnceInOrder
<1>5. Follows /\ RegionIsTrue /\ DisciplineSuffices
  BY <1>3 DEF Init, Follows, RegionIsTrue, ReportedRegion, DisciplineSuffices
<1> QED
  BY <1>2, <1>4, <1>5 DEF IInv

\* A Results that is there has the fields of a Cursor.
LEMMA CursorType ==
  ASSUME ConnectionType, results.live
  PROVE  /\ results \in Cursor(results.sets, results.set, results.row)
         /\ results.batch \in Batch /\ results.index \in Nat /\ results.session \in Nat
         /\ results.error \in BOOLEAN /\ results.done \in BOOLEAN
<1>1. results \in Cursor(results.sets, results.set, results.row)
  BY DEF ConnectionType, NoResults
<1> QED
  BY <1>1 DEF Cursor

\* The cursor past the last statement.
LEMMA AtEndIs ==
  ASSUME ConnectionType, results.live, NEW r, r = AtEnd
  PROVE  /\ r \in Cursor(r.sets, r.set, r.row) /\ r.live
         /\ r.session = results.session /\ r.batch = results.batch /\ r.index = results.index
         /\ r.done /\ (r.error <=> results.error \/ results.batch.broken)
<1>1. results \in Cursor(results.sets, results.set, results.row)
  BY CursorType
<1> DEFINE e == results.error \/ results.batch.broken
<1>2. e \in BOOLEAN
  BY Zenon
<1> HIDE DEF e
<1>3. r = [results EXCEPT !.done = TRUE, !.loaded = FALSE, !.sets = <<>>, !.error = e]
  BY DEF AtEnd, e
<1>4. /\ r.live = results.live /\ r.session = results.session /\ r.batch = results.batch
      /\ r.index = results.index /\ r.done = TRUE /\ r.error = e
  BY <1>1, <1>2, <1>3 DEF Cursor
<1>5. r \in Cursor(<<>>, results.set, results.row)
  BY <1>1, <1>2, <1>3 DEF Cursor
<1>6. r \in Cursor(r.sets, r.set, r.row)
  BY <1>5 DEF Cursor
<1> QED
  BY <1>4, <1>6 DEF e

\* The cursor after a statement that ran.
LEMMA LoadedIs ==
  ASSUME ConnectionType, results.live, NEW r, r = Loaded
  PROVE  /\ r \in Cursor(r.sets, r.set, r.row) /\ r.live
         /\ r.session = results.session /\ r.batch = results.batch /\ r.index = results.index + 1
         /\ r.done = results.done /\ r.error = results.error
<1>1. results \in Cursor(results.sets, results.set, results.row)
  BY CursorType
<1> DEFINE sets == ResultSets(Upcoming)
           i == results.index + 1
<1>2. r = [results EXCEPT !.index = i, !.sets = sets, !.set = 1, !.loaded = TRUE, !.row = 0]
  BY DEF Loaded
<1>3. i \in Nat
  BY <1>1 DEF Cursor
<1> HIDE DEF sets, i
<1>4. /\ r.live = results.live /\ r.session = results.session /\ r.batch = results.batch
      /\ r.index = i /\ r.done = results.done /\ r.error = results.error
  BY <1>1, <1>2 DEF Cursor
<1>5. r \in Cursor(sets, 1, 0)
  BY <1>1, <1>2, <1>3 DEF Cursor
<1>6. r \in Cursor(r.sets, r.set, r.row)
  BY <1>5 DEF Cursor
<1> QED
  BY <1>4, <1>6 DEF i

\* The cursor after a statement that failed.
LEMMA StoppedIs ==
  ASSUME ConnectionType, results.live, NEW r, r = Stopped
  PROVE  /\ r \in Cursor(r.sets, r.set, r.row) /\ r.live
         /\ r.session = results.session /\ r.batch = results.batch /\ r.index = results.index + 1
         /\ r.done /\ r.error
<1>1. results \in Cursor(results.sets, results.set, results.row)
  BY CursorType
<1> DEFINE i == results.index + 1
<1>2. r = [results EXCEPT !.index = i, !.error = TRUE, !.done = TRUE, !.loaded = FALSE, !.sets = <<>>]
  BY DEF Stopped
<1>3. i \in Nat
  BY <1>1 DEF Cursor
<1> HIDE DEF i
<1>4. /\ r.live = results.live /\ r.session = results.session /\ r.batch = results.batch
      /\ r.index = i /\ r.done = TRUE /\ r.error = TRUE
  BY <1>1, <1>2 DEF Cursor
<1>5. r \in Cursor(<<>>, results.set, results.row)
  BY <1>1, <1>2, <1>3 DEF Cursor
<1>6. r \in Cursor(r.sets, r.set, r.row)
  BY <1>5 DEF Cursor
<1> QED
  BY <1>4, <1>6 DEF i

\* A new cursor is before the first statement.
LEMMA NewIs ==
  ASSUME ConnectionType, NEW batch \in Batches, NEW r, r = NewResults(batch)
  PROVE  /\ r \in Cursor(r.sets, r.set, r.row) /\ r.live
         /\ r.session = conn.session /\ r.batch = batch /\ r.index = 0
         /\ ~r.done /\ ~r.error
<1>1. r \in Cursor(<<>>, 1, 0)
  BY ConnectionAssumption DEF ConnectionType, NewResults, Cursor
<1>2. r \in Cursor(r.sets, r.set, r.row)
  BY <1>1 DEF Cursor
<1> QED
  BY <1>2 DEF NewResults

\* A step that changes neither the cursor nor what it is about keeps it.
LEMMA CursorStill ==
  ASSUME IInv, UNCHANGED <<results, text, ran, failed, freed>>,
         conn' \in [region: Regions, session: Nat, closed: BOOLEAN],
         conn'.closed <=> conn'.session = 0,
         held' \in BOOLEAN, held => held',
         results.live /\ ~held' => conn'.session = conn.session,
         RegionIsTrue'
  PROVE  IInv'
<1>1. ConnectionType'
  BY DEF IInv, ConnectionType, Cursor
<1>2. Follows' /\ OnceInOrder' /\ DisciplineSuffices'
  BY DEF IInv, Follows, OnceInOrder, DisciplineSuffices
<1> QED
  BY <1>1, <1>2 DEF IInv

\* exec() and query().
LEMMA SubmitKeeps ==
  ASSUME IInv, NEW batch \in Batches, NEW how, Submit(batch, how)
  PROVE  IInv'
<1>1. /\ ~freed /\ text' = batch /\ ran' = <<>> /\ failed' = FALSE /\ held' = FALSE
      /\ UNCHANGED <<conn, target, region, freed>>
  BY DEF Submit, Idle
<1>2. batch \in Batch /\ Len(batch.statements) \in Nat
  BY ConnectionAssumption DEF Batch
<1>3. RegionIsTrue' /\ DisciplineSuffices'
  BY <1>1 DEF IInv, RegionIsTrue, ReportedRegion, DisciplineSuffices
<1>4. ran' \in Seq(Nat) /\ Len(ran') = 0
  BY <1>1
<1>5. CASE results' = NoResults
  <2>1. ConnectionType'
    BY <1>1, <1>2, <1>4, <1>5 DEF IInv, ConnectionType
  <2>2. ~results'.live
    BY <1>5 DEF NoResults
  <2>3. Follows' /\ OnceInOrder'
    BY <1>1, <1>2, <1>4, <2>2 DEF Follows, OnceInOrder
  <2> QED
    BY <1>3, <2>1, <2>3 DEF IInv
<1>6. CASE results' = NewResults(batch) /\ ~Refuses(batch)
  <2>1. /\ results' \in Cursor(results'.sets, results'.set, results'.row) /\ results'.live
        /\ results'.session = conn.session /\ results'.batch = batch /\ results'.index = 0
        /\ ~results'.done /\ ~results'.error
    BY <1>6, NewIs DEF IInv
  <2>2. conn.session # 0
    BY <1>6 DEF Refuses, IInv, ConnectionType
  <2>3. ConnectionType'
    BY <1>1, <1>2, <1>4, <2>1 DEF IInv, ConnectionType, Cursor
  <2>4. Follows' /\ OnceInOrder'
    BY <1>1, <1>2, <1>4, <2>1, <2>2 DEF Follows, OnceInOrder
  <2> QED
    BY <1>3, <2>3, <2>4 DEF IInv
<1> QED
  BY <1>5, <1>6 DEF Submit

\* A call that returns leaves the cursor that advance_statement made, or none.
LEMMA ReturnKeeps ==
  ASSUME IInv, results.live, ~freed, UNCHANGED <<conn, text, held, freed>>,
         failed' \in BOOLEAN, ran' \in Seq(Nat), RegionIsTrue',
         NEW r, ReturnWith(r),
         r \in Cursor(r.sets, r.set, r.row) /\ r.live,
         r.session = results.session /\ r.batch = results.batch,
         ran' = [n \in 1..Len(ran') |-> n] /\ r.index = Len(ran'),
         r.index <= Len(text.statements),
         ~r.done => ~r.error /\ ~failed',
         r.done /\ failed' => r.error,
         r.done /\ ~failed' => r.index = Len(text.statements) /\ (r.error <=> text.broken)
  PROVE  IInv'
<1>1. results' = NoResults \/ results' = r
  BY DEF ReturnWith
<1>2. ConnectionType'
  BY <1>1 DEF IInv, ConnectionType, Cursor
<1>3. DisciplineSuffices'
  BY DEF IInv, DisciplineSuffices
<1>4. CASE results' = NoResults
  <2>1. ~results'.live
    BY <1>4 DEF NoResults
  <2> QED
    BY <1>2, <1>3, <2>1 DEF IInv, Follows, OnceInOrder
<1>5. CASE results' = r
  BY <1>2, <1>3, <1>5 DEF IInv, Follows, OnceInOrder
<1> QED
  BY <1>1, <1>4, <1>5

\* Moving within the result sets keeps it.
LEMMA MoveKeeps ==
  ASSUME IInv, results.live, NEW set, NEW row, results' = [results EXCEPT !.set = set, !.row = row],
         UNCHANGED <<conn, target, region, freed, text, held, ran, failed>>
  PROVE  IInv'
<1> DEFINE r == results'
<1>1. results \in Cursor(results.sets, results.set, results.row)
  BY CursorType DEF IInv
<1>2. r = [results EXCEPT !.set = set, !.row = row]
  OBVIOUS
<1> HIDE DEF r
<1>3. /\ r.live = results.live /\ r.session = results.session /\ r.batch = results.batch
      /\ r.index = results.index /\ r.done = results.done /\ r.error = results.error
  BY <1>1, <1>2 DEF Cursor
<1>4. r \in Cursor(results.sets, set, row)
  BY <1>1, <1>2 DEF Cursor
<1>5. r \in Cursor(r.sets, r.set, r.row)
  BY <1>4 DEF Cursor
<1>6. ConnectionType'
  BY <1>5 DEF IInv, ConnectionType, Cursor, r
<1>7. Follows' /\ OnceInOrder' /\ DisciplineSuffices' /\ RegionIsTrue'
  BY <1>3 DEF IInv, Follows, OnceInOrder, DisciplineSuffices, RegionIsTrue, ReportedRegion, r
<1> QED
  BY <1>6, <1>7 DEF IInv

\* The statements that ran are still the first ones when one more has.
LEMMA RunningAppends ==
  ASSUME IInv, Running
  PROVE  /\ results.live /\ ~results.done /\ ~freed
         /\ results.index = Len(ran) /\ results.index < Len(text.statements)
         /\ results.batch = text /\ ~results.error /\ ~failed
         /\ ran' \in Seq(Nat) /\ Len(ran') = results.index + 1
         /\ ran' = [n \in 1..Len(ran') |-> n]
         /\ Len(text.statements) \in Nat
<1>1. results.live /\ ~results.done /\ ~freed /\ ran' = Append(ran, results.index + 1)
  BY DEF Running, Advancing
<1>2. /\ results.index = Len(ran) /\ results.index < Len(text.statements)
      /\ results.batch = text /\ ~results.error /\ ~failed
  BY <1>1 DEF IInv, Follows, OnceInOrder, Running
<1>3. ran \in Seq(Nat) /\ ran = [n \in 1..Len(ran) |-> n] /\ Len(ran) \in Nat
  BY DEF IInv, OnceInOrder, ConnectionType
<1>4. ran' \in Seq(Nat) /\ Len(ran') = Len(ran) + 1
  BY <1>1, <1>2, <1>3
<1>5. \A n \in 1..Len(ran') : ran'[n] = n
  BY <1>1, <1>2, <1>3, <1>4
<1>6. ran' = [n \in 1..Len(ran') |-> n]
  BY <1>4, <1>5
<1>7. Len(text.statements) \in Nat
  BY DEF IInv, ConnectionType, Batch
<1> QED
  BY <1>1, <1>2, <1>4, <1>6, <1>7

\* advance_statement, at the end of the batch and for a statement that runs or
\* fails, and through a Session that is gone.
LEMMA AdvanceKeeps ==
  ASSUME IInv, AdvanceToEnd \/ AdvanceSucceeds \/ AdvanceFails \/ AdvanceFreed
  PROVE  IInv'
<1>1. CASE AdvanceToEnd
  <2>1. /\ results.live /\ ~results.done /\ ~freed /\ results.index = Len(results.batch.statements)
        /\ ReturnWith(AtEnd)
        /\ UNCHANGED <<conn, target, region, freed, text, held, ran, failed>>
    BY <1>1 DEF AdvanceToEnd, Advancing
  <2>2. /\ results.batch = text /\ ~results.error /\ ~failed
        /\ ran = [n \in 1..Len(ran) |-> n] /\ results.index = Len(ran) /\ ran \in Seq(Nat)
        /\ results.index <= Len(text.statements)
    BY <2>1 DEF IInv, Follows, OnceInOrder, ConnectionType
  <2>3. RegionIsTrue'
    BY <2>1 DEF IInv, RegionIsTrue, ReportedRegion
  <2> DEFINE r == AtEnd
  <2>4. /\ r \in Cursor(r.sets, r.set, r.row) /\ r.live
        /\ r.session = results.session /\ r.batch = results.batch /\ r.index = results.index
        /\ r.done /\ (r.error <=> text.broken)
    BY <2>1, <2>2, AtEndIs DEF IInv
  <2>5. failed' \in BOOLEAN
    BY <2>1 DEF IInv, ConnectionType
  <2> HIDE DEF r
  <2> QED
    BY <2>1, <2>2, <2>3, <2>4, <2>5, ReturnKeeps DEF r
<1>2. CASE AdvanceSucceeds
  <2>1. /\ Running /\ ReturnWith(Loaded) /\ Connects(Upcoming.connects)
        /\ UNCHANGED <<conn, freed, text, held, failed>>
    BY <1>2 DEF AdvanceSucceeds
  <2>2. RegionIsTrue' /\ failed' \in BOOLEAN
    <3>1. \/ UNCHANGED <<target, region>>
          \/ target' = Resolved(region')
      BY <2>1 DEF Connects
    <3>2. conn' = conn /\ (conn.closed <=> conn.session = 0)
      BY <2>1 DEF IInv, ConnectionType
    <3> QED
      BY <2>1, <3>1, <3>2 DEF IInv, ConnectionType, RegionIsTrue, ReportedRegion
  <2> DEFINE r == Loaded
  <2>3. /\ r \in Cursor(r.sets, r.set, r.row) /\ r.live
        /\ r.session = results.session /\ r.batch = results.batch /\ r.index = results.index + 1
        /\ ~r.done /\ ~r.error
    BY <2>1, RunningAppends, LoadedIs DEF IInv
  <2> HIDE DEF r
  <2>4. r.index = Len(ran') /\ r.index <= Len(text.statements) /\ ~failed'
    BY <2>1, <2>3, RunningAppends, CursorType DEF IInv
  <2> QED
    BY <2>1, <2>2, <2>3, <2>4, RunningAppends, ReturnKeeps DEF r
<1>3. CASE AdvanceFails
  <2>1. /\ Running /\ ReturnWith(Stopped) /\ failed' = TRUE
        /\ UNCHANGED <<conn, target, region, freed, text, held>>
    BY <1>3 DEF AdvanceFails
  <2>2. RegionIsTrue' /\ failed' \in BOOLEAN
    BY <2>1 DEF IInv, ConnectionType, RegionIsTrue, ReportedRegion
  <2> DEFINE r == Stopped
  <2>3. /\ r \in Cursor(r.sets, r.set, r.row) /\ r.live
        /\ r.session = results.session /\ r.batch = results.batch /\ r.index = results.index + 1
        /\ r.done /\ r.error
    BY <2>1, RunningAppends, StoppedIs DEF IInv
  <2> HIDE DEF r
  <2>4. r.index = Len(ran') /\ r.index <= Len(text.statements)
    BY <2>1, <2>3, RunningAppends, CursorType DEF IInv
  <2> QED
    BY <2>1, <2>2, <2>3, <2>4, RunningAppends, ReturnKeeps DEF r
<1>4. CASE AdvanceFreed
  <2>1. /\ Running /\ SessionGone /\ freed' = TRUE
        /\ UNCHANGED <<conn, target, region, results, text, held, failed>>
    BY <1>4 DEF AdvanceFreed
  <2>2. ConnectionType'
    BY <2>1, RunningAppends DEF IInv, ConnectionType, Cursor
  <2>3. held
    BY <2>1, RunningAppends DEF SessionGone, IInv, Follows
  <2>4. OnceInOrder'
    BY <2>1, RunningAppends, CursorType DEF IInv, OnceInOrder
  <2>5. Follows' /\ RegionIsTrue' /\ DisciplineSuffices'
    BY <2>1, <2>3, RunningAppends DEF IInv, Follows, RegionIsTrue, ReportedRegion, DisciplineSuffices
  <2> QED
    BY <2>2, <2>4, <2>5 DEF IInv
<1> QED
  BY <1>1, <1>2, <1>3, <1>4

\* reconnect() and close() change the Session and tell the history so.
LEMMA ConnectionKeeps ==
  ASSUME IInv, (\E to \in Regions : Reconnect(to)) \/ Close
  PROVE  IInv'
<1>1. /\ UNCHANGED <<results, text, ran, failed, freed>> /\ held' = (held \/ results.live)
      /\ conn \in [region: Regions, session: Nat, closed: BOOLEAN]
      /\ (conn.closed <=> conn.session = 0) /\ held \in BOOLEAN
  BY DEF Reconnect, Close, IInv, ConnectionType
<1>2. held' \in BOOLEAN /\ (held => held') /\ (results.live => held')
  BY <1>1, Zenon
<1>3. ASSUME NEW to \in Regions, ~conn.closed, target' = Resolved(to), Renewed(to)
      PROVE  IInv'
  <2>1. conn' \in [region: Regions, session: Nat, closed: BOOLEAN]
        /\ conn'.closed = FALSE /\ conn'.session # 0 /\ region' = to
    <3> DEFINE session == conn.session + 1
    <3>1. conn' = [conn EXCEPT !.region = to, !.session = session] /\ region' = to
      BY <1>3 DEF Renewed
    <3>2. session \in Nat /\ session # 0
      BY <1>1
    <3> HIDE DEF session
    <3> QED
      BY <1>1, <1>3, <3>1, <3>2
  <2>2. RegionIsTrue'
    BY <1>3, <2>1 DEF RegionIsTrue, ReportedRegion
  <2> QED
    BY <1>1, <1>2, <1>3, <2>1, <2>2, CursorStill
<1>4. CASE UNCHANGED <<conn, target, region>>
  <2>1. RegionIsTrue'
    BY <1>4 DEF IInv, RegionIsTrue, ReportedRegion
  <2> QED
    BY <1>1, <1>2, <1>4, <2>1, CursorStill
<1>5. CASE conn' = [conn EXCEPT !.session = 0, !.closed = TRUE] 
  <2>1. conn' \in [region: Regions, session: Nat, closed: BOOLEAN]
        /\ conn'.closed = TRUE /\ conn'.session = 0
    BY <1>1, <1>5
  <2>2. RegionIsTrue'
    BY <2>1 DEF RegionIsTrue
  <2> QED
    BY <1>1, <1>2, <1>5, <2>1, <2>2, CursorStill
<1> QED
  BY <1>3, <1>4, <1>5 DEF Reconnect, Close

\* Every call keeps the invariant.
LEMMA IInvNext == IInv /\ [Next]_vars => IInv'
<1> SUFFICES ASSUME IInv, [Next]_vars PROVE IInv'
  OBVIOUS
<1>1. CASE \E batch \in Batches : Exec(batch) \/ Query(batch)
  BY <1>1, SubmitKeeps DEF Exec, Query
<1>2. CASE (\E to \in Regions : Reconnect(to)) \/ Close
  BY <1>2, ConnectionKeeps
<1>3. CASE AdvanceToEnd \/ AdvanceSucceeds \/ AdvanceFails \/ AdvanceFreed
  BY <1>3, AdvanceKeeps
<1>4. CASE Discard
  <2>1. /\ results' = NoResults /\ ~results'.live
        /\ UNCHANGED <<conn, target, region, freed, text, held, ran, failed>>
    BY <1>4 DEF Discard, NoResults
  <2>2. ConnectionType'
    BY <2>1 DEF IInv, ConnectionType
  <2>3. Follows' /\ OnceInOrder' /\ RegionIsTrue' /\ DisciplineSuffices'
    BY <2>1 DEF IInv, Follows, OnceInOrder, RegionIsTrue, ReportedRegion, DisciplineSuffices
  <2> QED
    BY <2>2, <2>3 DEF IInv
<1>5. CASE UNCHANGED <<conn, target, region, results, freed, text, held, ran, failed>>
  BY <1>5 DEF IInv, ConnectionType, Cursor, Follows, OnceInOrder, RegionIsTrue, ReportedRegion,
     DisciplineSuffices
<1>6. CASE NextResult \/ NextRow
  <2>1. results.live /\ UNCHANGED <<conn, target, region, freed, text, held, ran, failed>>
    BY <1>6 DEF NextResult, NextRow
  <2>2. CASE UNCHANGED results
    BY <1>5, <2>1, <2>2
  <2>3. CASE results' = [results EXCEPT !.set = results.set + 1, !.row = 0]
    BY <2>1, <2>3, MoveKeeps
  <2>4. CASE results' = [results EXCEPT !.row = results.row + 1]
    <3>1. results' = [results EXCEPT !.set = results.set, !.row = results.row + 1]
      BY <2>1, <2>4, CursorType DEF IInv, Cursor
    <3> QED
      BY <2>1, <3>1, MoveKeeps
  <2> QED
    BY <1>6, <2>2, <2>3, <2>4 DEF NextResult, NextRow
<1> QED
  BY <1>1, <1>2, <1>3, <1>4, <1>5, <1>6 DEF Next, NextResultAtEnd

\* The invariant holds throughout the life of a Connection.
LEMMA IInvAlways == Spec => []IInv
BY IInvInit, IInvNext, PTL DEF Spec

\* next_result() runs the statements of a batch once, in order, and none after a
\* failure.
THEOREM OnceInOrderCorrect == Spec => []OnceInOrder
<1>1. IInv => OnceInOrder
  BY DEF IInv
<1> QED
  BY <1>1, IInvAlways, PTL

\* What a Results says at its end, finished or failed, is true of the batch.
THEOREM EndIsTrueCorrect == Spec => []EndIsTrue
<1>1. IInv => EndIsTrue
  BY CursorType DEF IInv, Follows, OnceInOrder, EndIsTrue
<1> QED
  BY <1>1, IInvAlways, PTL

\* region() is where the requests go.
THEOREM RegionIsTrueCorrect == Spec => []RegionIsTrue
<1>1. IInv => RegionIsTrue
  BY DEF IInv
<1> QED
  BY <1>1, IInvAlways, PTL

\* Only reconnect() or close() while a Results is held lets it reach a Session
\* that was destroyed.
THEOREM DisciplineSufficesCorrect == Spec => []DisciplineSuffices
<1>1. IInv => DisciplineSuffices
  BY DEF IInv
<1> QED
  BY <1>1, IInvAlways, PTL
=============================================================================
