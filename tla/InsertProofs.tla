---------------------------- MODULE InsertProofs ----------------------------
(***************************************************************************)
(* Proofs about Insert for every statement, number of rows, table, rate and *)
(* number of writes by other clients.                                       *)
(***************************************************************************)
EXTENDS Insert, TLAPS

USE DEF executor, clock, others, vars

\* The types of what the executor counts and of the table.
InsertType ==
  /\ cmd \in Commands
  /\ pc \in {"describe", "row", "throttle", "done"}
  /\ outcome \in {"none", "ok", "explain", "error"}
  /\ row \in Nat \ {0} /\ tokens \in Nat
  /\ applied \in Seq(Nat)
  /\ table \in [Keys -> Values] /\ original \in [Keys -> Values]

\* While the executor runs, the rows it has been through are the ones a token
\* was emitted for, and each of them took effect; EXPLAIN puts none.
Progress ==
  /\ pc = "done" <=> outcome # "none"
  /\ pc = "describe" => row = 1 /\ tokens = 0
  /\ cmd.explain => tokens = 0 /\ Len(applied) = 0 /\ pc # "throttle" /\ outcome # "ok"
  /\ pc = "row" /\ ~cmd.explain => row = tokens + 1
  /\ pc = "throttle" => row = tokens
  /\ pc # "done" => Len(applied) = tokens
  /\ tokens <= Len(cmd.rows) /\ Len(applied) <= Len(cmd.rows)

IInv == InsertType /\ Progress /\ TokensAreRows /\ TableIsRows

\* What the assumption says of the running statement.
LEMMA CommandType ==
  ASSUME InsertType
  PROVE  /\ cmd.insert \in BOOLEAN /\ cmd.explain \in BOOLEAN
         /\ cmd.rows \in Seq([key: Keys, content: Contents]) /\ Len(cmd.rows) \in Nat
         /\ \A i \in 1..Len(cmd.rows) : cmd.rows[i].key \in Keys /\ cmd.rows[i].content \in Contents
<1>1. cmd.rows \in Seq([key: Keys, content: Contents]) /\ cmd.insert \in BOOLEAN /\ cmd.explain \in BOOLEAN
  BY InsertAssumption DEF InsertType, Command
<1>2. \A i \in 1..Len(cmd.rows) : cmd.rows[i] \in [key: Keys, content: Contents]
  <2> DEFINE Rows == [key: Keys, content: Contents]
  <2> HIDE DEF Rows
  <2>1. cmd.rows \in Seq(Rows)
    BY <1>1 DEF Rows
  <2>2. \A i \in 1..Len(cmd.rows) : cmd.rows[i] \in Rows
    BY <2>1
  <2> QED
    BY <2>2 DEF Rows
<1>3. Len(cmd.rows) \in Nat
  BY <1>1
<1> QED
  BY <1>1, <1>2, <1>3

\* A statement starts with the invariant.
LEMMA IInvInit == Init => IInv
<1> SUFFICES ASSUME Init PROVE IInv
  OBVIOUS
<1>1. InsertType
  BY DEF Init, InsertType
<1>2. Progress /\ TokensAreRows
  BY <1>1, CommandType DEF Init, Progress, TokensAreRows
<1>3. TableIsRows
  BY DEF Init, TableIsRows, RowsOf
<1> QED
  BY <1>1, <1>2, <1>3 DEF IInv

\* The rows that took effect are the first ones of the statement, so that those
\* for a key can be read off it.
LEMMA RowsOfIs ==
  ASSUME IInv, NEW k
  PROVE  RowsOf(k) = {i \in 1..Len(applied) : cmd.rows[i].key = k}
<1>1. \A i \in 1..Len(applied) : applied[i] = i
  BY DEF IInv, TokensAreRows
<1> QED
  BY <1>1 DEF RowsOf

\* The same, of the state after a step.
LEMMA RowsOfThen ==
  ASSUME TokensAreRows', NEW k, cmd' = cmd
  PROVE  RowsOf(k)' = {i \in 1..Len(applied') : cmd.rows[i].key = k}
<1>1. \A i \in 1..Len(applied') : applied'[i] = i
  BY DEF TokensAreRows
<1> QED
  BY <1>1 DEF RowsOf

\* A PutItem that takes effect adds the next row, and writes its item: INSERT
\* only where none is.
LEMMA EffectKeeps ==
  ASSUME IInv, pc = "row", ~cmd.explain, row <= Len(cmd.rows), TakeEffect, Elsewhere,
         TokensAreRows'
  PROVE  /\ applied' \in Seq(Nat) /\ Len(applied') = Len(applied) + 1
         /\ table' \in [Keys -> Values]
         /\ TableIsRows'
<1> USE CommandType DEF IInv, InsertType
<1>1. row = Len(applied) + 1 /\ Len(applied) \in Nat /\ row \in 1..Len(cmd.rows)
  BY DEF Progress
<1>2. applied' \in Seq(Nat) /\ Len(applied') = Len(applied) + 1
  BY DEF TakeEffect
<1>3. Upcoming.key \in Keys /\ Upcoming.content \in Contents /\ Upcoming = cmd.rows[row]
  BY <1>1 DEF Upcoming
<1>4. table' = [table EXCEPT ![Upcoming.key] = Upcoming.content]
  BY DEF TakeEffect
<1>5. table' \in [Keys -> Values]
  BY <1>3, <1>4 DEF Values
<1>6. foreign' = foreign /\ original' = original /\ cmd' = cmd
  BY DEF Elsewhere
<1>7. ASSUME NEW k \in Keys \ foreign
      PROVE  (IF RowsOf(k) = {} THEN table[k] = original[k]
              ELSE \E i \in RowsOf(k) :
                     /\ table[k] = cmd.rows[applied[i]].content
                     /\ IF cmd.insert THEN original[k] = Absent /\ RowsOf(k) = {i}
                        ELSE \A j \in RowsOf(k) : j <= i)'
  <2> DEFINE before == RowsOf(k)
             after == RowsOf(k)'
  <2>1. /\ before = {i \in 1..Len(applied) : cmd.rows[i].key = k}
        /\ after = {i \in 1..(Len(applied) + 1) : cmd.rows[i].key = k}
    BY <1>2, <1>6, RowsOfIs, RowsOfThen
  <2>2. \A i \in before : applied[i] = i
    BY <2>1 DEF TokensAreRows
  <2>3. \A i \in after : applied'[i] = i
    BY <1>2, <2>1 DEF TokensAreRows
  <2>4. CASE Upcoming.key = k
    <3>1. row \in after /\ after = before \union {row} /\ \A j \in after : j <= row
      BY <1>1, <1>3, <2>1, <2>4
    <3>2. table'[k] = cmd.rows[applied'[row]].content
      BY <1>3, <1>4, <2>3, <2>4, <3>1
    <3>3. CASE cmd.insert
      <4>1. table[k] = Absent
        BY <2>4, <3>3 DEF TakeEffect, ConditionHolds
      <4>2. \A i \in before : cmd.rows[applied[i]].content # Absent
        BY <1>1, <2>1, <2>2, InsertAssumption
      <4>3. before = {} /\ original[k] = Absent
        BY <4>1, <4>2 DEF TableIsRows
      <4> HIDE DEF before, after
      <4> QED
        BY <1>6, <3>1, <3>2, <3>3, <4>3 DEF before, after
    <3>4. CASE ~cmd.insert
      BY <1>6, <3>1, <3>2, <3>4
    <3> QED
      BY <3>3, <3>4
  <2>5. CASE Upcoming.key # k
    <3>1. after = before /\ table'[k] = table[k]
      BY <1>1, <1>3, <1>4, <2>1, <2>5
    <3>2. \A i \in before : applied'[i] = applied[i]
      BY <2>2, <2>3, <3>1
    <3> QED
      BY <1>6, <3>1, <3>2 DEF TableIsRows
  <2> QED
    BY <2>4, <2>5
<1>8. TableIsRows'
  BY <1>6, <1>7 DEF TableIsRows
<1> QED
  BY <1>2, <1>5, <1>8

\* A step that puts nothing leaves the table and what is said of it alone.
LEMMA StillKeeps ==
  ASSUME IInv, UNCHANGED <<cmd, table, foreign, original, applied>>
  PROVE  TableIsRows'
BY DEF IInv, TableIsRows, RowsOf

\* Every step of the executor keeps the invariant.
LEMMA IInvExecutor == IInv /\ Executor => IInv'
<1> SUFFICES ASSUME IInv, Executor PROVE IInv'
  OBVIOUS
<1> USE CommandType DEF IInv
<1>1. CASE Describe \/ DescribeFails \/ Throttle \/ ExplainRow \/ Finish
  <2> USE DEF Describe, DescribeFails, Throttle, ExplainRow, Finish, Return, NoRequest, Elsewhere
  <2>1. InsertType'
    BY <1>1 DEF InsertType
  <2>2. Progress'
    BY <1>1 DEF InsertType, Progress
  <2>3. Len(applied) = tokens /\ pc # "done" /\ UNCHANGED <<cmd, tokens, applied>>
    BY <1>1 DEF Progress
  <2>4. outcome' = "ok" => tokens = Len(cmd.rows)
    BY <1>1 DEF InsertType, Progress
  <2>5. TokensAreRows'
    BY <2>3, <2>4 DEF TokensAreRows
  <2>6. TableIsRows'
    BY <1>1, StillKeeps
  <2> QED
    BY <2>1, <2>2, <2>5, <2>6
<1>2. CASE (PutSucceeds \/ PutFails) /\ TakeEffect
  <2> USE DEF PutSucceeds, PutFails, AfterFailure, Return
  <2>1. applied' = Append(applied, row) /\ row = Len(applied) + 1 /\ Len(applied) = tokens
    BY <1>2 DEF TakeEffect, Progress, InsertType
  <2>2. Len(applied') = Len(applied) + 1
    BY <2>1 DEF InsertType
  <2>3. applied' = [i \in 1..Len(applied') |-> i]
    <3>1. applied = [i \in 1..Len(applied) |-> i]
      BY DEF TokensAreRows
    <3>2. \A i \in 1..Len(applied') : applied'[i] = i
      BY <2>1, <2>2, <3>1 DEF InsertType
    <3>3. applied' \in Seq(Nat)
      BY <2>1 DEF InsertType
    <3> QED
      BY <3>2, <3>3
  <2>4. TokensAreRows'
    BY <1>2, <2>1, <2>2, <2>3 DEF TokensAreRows, InsertType
  <2>5. table' \in [Keys -> Values] /\ applied' \in Seq(Nat) /\ TableIsRows'
    BY <1>2, <2>4, EffectKeeps
  <2>6. InsertType'
    BY <1>2, <2>5 DEF InsertType, Elsewhere
  <2>7. Progress'
    BY <1>2, <2>1, <2>2 DEF InsertType, Progress, Elsewhere
  <2> QED
    BY <2>4, <2>5, <2>6, <2>7
<1>3. CASE PutFails /\ UNCHANGED <<table, applied>>
  <2> USE DEF PutFails, AfterFailure, Return, Elsewhere
  <2>1. InsertType' /\ Progress' /\ TokensAreRows'
    BY <1>3 DEF InsertType, Progress, TokensAreRows
  <2>2. TableIsRows'
    BY <1>3, StillKeeps
  <2> QED
    BY <2>1, <2>2
<1> QED
  BY <1>1, <1>2, <1>3 DEF Executor, PutSucceeds, PutFails

\* So does every step of the other clients and of the clock.
LEMMA IInvNext == IInv /\ [Next]_vars => IInv'
<1> SUFFICES ASSUME IInv, [Next]_vars PROVE IInv'
  OBVIOUS
<1>1. CASE Executor
  BY <1>1, IInvExecutor
<1>2. ASSUME NEW k \in Keys, NEW v \in Values, OtherWrite(k, v) PROVE IInv'
  <2>1. InsertType' /\ Progress' /\ TokensAreRows'
    BY <1>2 DEF OtherWrite, IInv, InsertType, Progress, TokensAreRows
  <2>2. \A x : RowsOf(x)' = RowsOf(x)
    BY <1>2 DEF OtherWrite, RowsOf
  <2>3. \A x \in Keys \ foreign' : x \in Keys \ foreign /\ table'[x] = table[x]
    BY <1>2 DEF OtherWrite, IInv, InsertType
  <2>4. TableIsRows'
    BY <1>2, <2>2, <2>3 DEF OtherWrite, IInv, TableIsRows
  <2> QED
    BY <2>1, <2>4 DEF IInv
<1>3. CASE Tick \/ UNCHANGED vars
  <2>1. InsertType' /\ Progress' /\ TokensAreRows'
    BY <1>3 DEF Tick, IInv, InsertType, Progress, TokensAreRows
  <2>2. TableIsRows'
    BY <1>3, StillKeeps DEF Tick
  <2> QED
    BY <2>1, <2>2 DEF IInv
<1> QED
  BY <1>1, <1>2, <1>3 DEF Next

\* The invariant holds throughout a statement.
LEMMA IInvAlways == Spec => []IInv
BY IInvInit, IInvNext, PTL DEF Spec

\* The status tokens of insert_executor count the rows in the table.
THEOREM TokensAreRowsCorrect == Spec => []TokensAreRows
<1>1. IInv => TokensAreRows
  BY DEF IInv
<1> QED
  BY <1>1, IInvAlways, PTL

\* INSERT keeps the first item under a key and REPLACE the last one, however the
\* writes of other clients under other keys interleave.
THEOREM TableIsRowsCorrect == Spec => []TableIsRows
<1>1. IInv => TableIsRows
  BY DEF IInv
<1> QED
  BY <1>1, IInvAlways, PTL

-----------------------------------------------------------------------------
(***************************************************************************)
(* Insert implements RowwisePut.                                           *)
(***************************************************************************)

\* What the statement asks for, part by part.
LEMMA AskedParts ==
  Asked.insert = cmd.insert /\ Asked.dry = cmd.explain /\ Asked.rows = cmd.rows
BY DEF Asked

\* A PutItem that takes effect puts the row after those told.
LEMMA EffectIsPut ==
  ASSUME IInv, pc = "row", ~cmd.explain, row <= Len(cmd.rows), TakeEffect, cmd' = cmd
  PROVE  Promise!Put
<1>1. row = tokens + 1 /\ outcome = "none" /\ tokens < Len(cmd.rows)
  BY CommandType DEF IInv, InsertType, Progress
<1>2. Upcoming = cmd.rows[tokens + 1]
  BY <1>1 DEF Upcoming
<1>3. /\ cmd.insert => table[Upcoming.key] = Absent
      /\ table' = [table EXCEPT ![Upcoming.key] = Upcoming.content]
  BY DEF TakeEffect, ConditionHolds
<1>4. Asked' = Asked
  BY DEF Asked
<1> QED
  BY <1>1, <1>2, <1>3, <1>4, AskedParts DEF Promise!Put

\* Every step is one of RowwisePut, or none.
LEMMA StepIsRowwise == IInv /\ [Next]_vars => [Promise!Next]_(Promise!vars)
<1> SUFFICES ASSUME IInv, [Next]_vars PROVE [Promise!Next]_(Promise!vars)
  OBVIOUS
<1>0. cmd' = cmd => Asked' = Asked
  BY DEF Asked
<1>1. CASE PutSucceeds
  <2>1. Promise!Put
    BY <1>1, EffectIsPut DEF PutSucceeds, Elsewhere
  <2>2. tokens' = tokens + 1 /\ outcome' = outcome
    BY <1>1 DEF PutSucceeds
  <2> QED
    BY <2>1, <2>2 DEF Promise!PutTold, Promise!Next
<1>2. CASE PutFails
  <2>1. /\ outcome = "none" /\ outcome' = "error" /\ UNCHANGED <<cmd, tokens>>
    BY <1>2 DEF PutFails, AfterFailure, Return, Elsewhere, IInv, Progress
  <2>2. CASE TakeEffect
    <3>1. Promise!Put
      BY <1>2, <2>2, EffectIsPut DEF PutFails, Elsewhere
    <3> QED
      BY <2>1, <3>1 DEF Promise!PutUntold, Promise!Next
  <2>3. CASE UNCHANGED table
    BY <1>0, <2>1, <2>3 DEF Promise!GiveUp, Promise!Next
  <2> QED
    BY <1>2, <2>2, <2>3 DEF PutFails
<1>3. CASE DescribeFails \/ (ExplainRow /\ outcome' # outcome)
  <2>1. outcome = "none" /\ outcome' = "error" /\ UNCHANGED <<cmd, table, tokens>>
    BY <1>3 DEF DescribeFails, ExplainRow, Return, NoRequest, Elsewhere, IInv, Progress
  <2> QED
    BY <1>0, <2>1 DEF Promise!GiveUp, Promise!Next
<1>4. CASE Finish
  <2>1. /\ outcome = "none" /\ UNCHANGED <<cmd, table, tokens>>
        /\ outcome' = IF cmd.explain THEN "explain" ELSE "ok"
    BY <1>4 DEF Finish, Return, NoRequest, Elsewhere, IInv, Progress
  <2>2. IF cmd.explain THEN tokens = 0 ELSE tokens = Len(cmd.rows)
    BY <1>4, CommandType DEF Finish, IInv, InsertType, Progress
  <2> QED
    BY <1>0, <2>1, <2>2, AskedParts DEF Promise!Finish, Promise!Next
<1>5. CASE Describe \/ Throttle \/ (ExplainRow /\ outcome' = outcome) \/ Tick \/ UNCHANGED vars
  <2>1. UNCHANGED <<cmd, table, tokens, outcome>>
    BY <1>5 DEF Describe, Throttle, ExplainRow, Tick, NoRequest, Elsewhere
  <2> QED
    BY <1>0, <2>1 DEF Promise!vars
<1>6. ASSUME NEW k \in Keys, NEW v \in Values, OtherWrite(k, v) PROVE Promise!Next
  <2>1. /\ outcome = "none" /\ table' = [table EXCEPT ![k] = v]
        /\ UNCHANGED <<cmd, tokens, outcome>>
    BY <1>6 DEF OtherWrite, IInv, Progress
  <2>2. Promise!OtherWrite(k, v)
    BY <1>0, <2>1 DEF Promise!OtherWrite
  <2> QED
    BY <2>2 DEF Promise!Next, Values
<1> QED
  BY <1>1, <1>2, <1>3, <1>4, <1>5, <1>6 DEF Next, Executor

\* INSERT and REPLACE implement RowwisePut, for every statement, table, rate and
\* number of writes by other clients.
THEOREM RowwisePutImplemented == Spec => ImplementsRowwisePut
<1>1. Init => Promise!Init
  <2> SUFFICES ASSUME Init PROVE Promise!Init
    OBVIOUS
  <2>1. cmd.insert \in BOOLEAN /\ cmd.explain \in BOOLEAN
        /\ cmd.rows \in Seq([key: Keys, content: Contents])
    BY IInvInit, CommandType DEF IInv
  <2>2. Asked \in Promise!Statement
    BY <2>1 DEF Asked, Promise!Statement
  <2> QED
    BY <2>2 DEF Init, Values, Promise!Init
<1> QED
  BY <1>1, StepIsRowwise, IInvAlways, PTL DEF Spec, ImplementsRowwisePut, Promise!Spec
=============================================================================
