------------------------- MODULE ControlPlaneProofs -------------------------
(***************************************************************************)
(* Proofs about ControlPlane, and so about the CREATE TABLE and DROP TABLE  *)
(* of TableLifecycle, for every session, budget, region and number of       *)
(* requests of other clients.                                               *)
(***************************************************************************)
EXTENDS ControlPlane, FiniteSetTheorems, SequenceTheorems, TLAPS

USE DEF executor, service, vars, locals, history, allvars

-----------------------------------------------------------------------------
(***************************************************************************)
(* The inductive invariant.                                                *)
(***************************************************************************)

Statuses == {"ABSENT", "CREATING", "ACTIVE", "UPDATING", "DELETING", "INACCESSIBLE"}

Outcomes == {"none", "invalid", "explain", "empty", "in_use", "not_found", "service_error",
             "timed_out", "wrong_state", "CREATE", "DROP"}

\* The types of what TableLifecycle counts and compares.
LifecycleType ==
  /\ cmd \in Commands
  /\ pc \in {"start", "probe", "request", "wait", "done"} /\ outcome \in Outcomes
  /\ mine \in Nat /\ number \in Nat /\ waited \in Nat /\ interval \in 1..Cap
  /\ table \in Statuses /\ seen \in Statuses
  /\ activated \subseteq 1..number
  /\ others \in Nat

\* What the executor has done is decided by where it is.
Placed ==
  /\ outcome # "none" <=> pc = "done"
  /\ pc \in {"start", "probe", "request"} => mine = 0
  /\ pc = "wait" => mine # 0
  /\ pc = "probe" => cmd.probe
  /\ cmd.verb = "create" => outcome # "DROP"
  /\ cmd.verb = "drop" => outcome # "CREATE"
  /\ outcome \in {"empty", "explain", "invalid", "not_found", "in_use"} => mine = 0
  /\ outcome = "DROP" \/ (outcome = "CREATE" /\ ~cmd.probe) => mine # 0

\* The tables of the name follow each other: the earlier ones are gone, the
\* current one is gone exactly when there is none, and was ACTIVE before it
\* could be updated or deleted.  DescribeTable is behind only for a new table.
Numbered ==
  /\ removed = 1..(IF table = "ABSENT" THEN number ELSE number - 1)
  /\ table # "ABSENT" => number # 0
  /\ table \in {"ACTIVE", "UPDATING", "DELETING"} => number \in activated
  /\ table = "CREATING" => number \notin activated
  /\ seen = table \/ (seen = "ABSENT" /\ table = "CREATING")

\* The table the statement made or deleted is one of them.
Owned ==
  /\ mine <= number
  /\ cmd.verb = "drop" /\ mine # 0 => mine \in activated

IInv == LifecycleType /\ Placed /\ Numbered /\ Owned /\ ReportIsTrue /\ BudgetKept

\* A session starts with the invariant.
LEMMA IInvInit == SessionInit => IInv
<1> SUFFICES ASSUME SessionInit PROVE IInv
  OBVIOUS
<1>1. Init
  BY DEF SessionInit
<1>2. LifecycleType
  BY <1>1, LifecycleAssumption DEF Init, LifecycleType, Statuses, Outcomes
<1>3. Placed /\ Owned
  BY <1>1, LifecycleAssumption DEF Init, Placed, Owned, Command
<1>4. Numbered
  BY <1>1 DEF Init, Numbered
<1>5. ReportIsTrue /\ BudgetKept
  BY <1>1, LifecycleAssumption DEF Init, ReportIsTrue, BudgetKept
<1> QED
  BY <1>2, <1>3, <1>4, <1>5 DEF IInv

\* Steps that touch neither the executor nor the service keep it.
LEMMA IInvStill ==
  ASSUME IInv, UNCHANGED <<cmd, executor, service>>, others' \in Nat
  PROVE  IInv'
BY DEF IInv, LifecycleType, Placed, Numbered, Owned, ReportIsTrue, BudgetKept

\* What the assumption says of the running statement.
LEMMA CommandType ==
  ASSUME IInv
  PROVE  /\ cmd \in Command
         /\ cmd.verb \in {"create", "drop"} /\ cmd.probe \in BOOLEAN /\ cmd.nowait \in BOOLEAN
         /\ cmd.explain \in BOOLEAN /\ cmd.budget \in BOOLEAN /\ cmd.valid \in BOOLEAN
BY LifecycleAssumption DEF IInv, LifecycleType, Command

\* The end of an iteration of a waiter.
LEMMA PollAgainKeeps ==
  ASSUME IInv, pc = "wait", PollAgain, UNCHANGED <<cmd, service>>, others' \in Nat
  PROVE  IInv'
<1> USE LifecycleAssumption, CommandType DEF PollAgain, Expired, Doubled, Return, IInv
<1>1. LifecycleType'
  BY DEF LifecycleType, Outcomes
<1>2. Placed' /\ Numbered' /\ Owned' /\ ReportIsTrue'
  BY DEF LifecycleType, Placed, Numbered, Owned, ReportIsTrue, Outcomes
<1>3. BudgetKept'
  BY DEF BudgetKept, LifecycleType, Placed
<1> QED
  BY <1>1, <1>2, <1>3

\* A step that returns an outcome of which the invariant claims nothing but
\* that no table is the statement's.
LEMMA ReturnKeeps ==
  ASSUME IInv, pc # "done", UNCHANGED <<cmd, service>>, others' \in Nat,
         NEW what \in Outcomes \ {"none", "timed_out", "CREATE", "DROP"}, Return(what),
         mine = 0 \/ what \in {"service_error", "wrong_state"}
  PROVE  IInv'
<1> USE CommandType DEF IInv, Return
<1>1. LifecycleType' /\ Placed'
  BY DEF LifecycleType, Outcomes, Placed
<1>2. Numbered' /\ Owned' /\ BudgetKept'
  BY DEF LifecycleType, Numbered, Owned, BudgetKept, Outcomes
<1>3. ReportIsTrue'
  BY DEF LifecycleType, ReportIsTrue, Outcomes
<1> QED
  BY <1>1, <1>2, <1>3

\* Every step of execute_create_table and execute_drop_table keeps it.
LEMMA IInvExecutor == IInv /\ Executor => IInv'
<1> SUFFICES ASSUME IInv, Executor PROVE IInv'
  OBVIOUS
<1> USE LifecycleAssumption, CommandType DEF Untouched
<1>0. others' \in Nat
  BY DEF IInv, LifecycleType, Executor, Start, Probe, ProbeFails, ExplainRequest, CreateTable,
     DeleteTable, RequestFails, AnswerLost, PollActive, PollGone, PollFails
<1>goto. ASSUME NEW where \in {"probe", "request"}, Goto(where), pc \in {"start", "probe"},
                where = "probe" => cmd.probe, UNCHANGED <<cmd, service>>
         PROVE  IInv'
  BY <1>goto, <1>0
     DEF Goto, IInv, LifecycleType, Placed, Numbered, Owned, ReportIsTrue, BudgetKept
<1>1. CASE Start
  BY <1>1, <1>0, <1>goto, ReturnKeeps DEF Start, Outcomes, IInv, Placed
<1>probed. ASSUME NEW exists \in BOOLEAN, pc = "probe", Probed(exists),
                  UNCHANGED <<cmd, service>>, cmd.probe
           PROVE  IInv'
  <2>1. CASE cmd.verb = "create" /\ exists /\ ~cmd.explain
    BY <2>1, <1>probed, <1>0
       DEF Probed, Return, IInv, LifecycleType, Placed, Numbered, Owned, ReportIsTrue, BudgetKept,
           Outcomes
  <2>2. CASE cmd.verb = "create" /\ exists /\ cmd.explain
    BY <2>2, <1>probed, <1>0, ReturnKeeps DEF Probed, IInv, Placed, Outcomes
  <2>3. CASE cmd.verb = "drop" /\ ~exists
    BY <2>3, <1>probed, <1>0, ReturnKeeps DEF Probed, IInv, Placed, Outcomes
  <2>4. CASE (cmd.verb = "create" /\ ~exists) \/ (cmd.verb = "drop" /\ exists)
    BY <2>4, <1>probed, <1>goto DEF Probed
  <2>5. cmd.verb = "create" \/ cmd.verb = "drop"
    OBVIOUS
  <2> QED
    BY <2>1, <2>2, <2>3, <2>4, <2>5
<1>2. CASE Probe
  <2>1. cmd.probe
    BY <1>2 DEF Probe, IInv, Placed
  <2> QED
    BY <1>2, <2>1, <1>probed DEF Probe
<1>3. CASE ProbeFails
  <2>1. cmd.probe
    BY <1>3 DEF ProbeFails, IInv, Placed
  <2> QED
    BY <1>3, <2>1, <1>probed DEF ProbeFails
<1>4. CASE ExplainRequest
  BY <1>4, <1>0, ReturnKeeps DEF ExplainRequest, IInv, Placed, Outcomes
<1>5. CASE CreateTable
  <2>1. CASE table = "ABSENT"
    <3>1. /\ pc = "request" /\ ~cmd.explain /\ cmd.verb = "create" /\ mine = 0
          /\ table' = "CREATING" /\ number' = number + 1 /\ mine' = number + 1
          /\ ThenWait /\ UNCHANGED <<cmd, seen, activated, removed, interval, waited>>
      BY <1>5, <2>1 DEF CreateTable, IInv, Placed
    <3>2. LifecycleType'
      BY <3>1, <1>0 DEF IInv, LifecycleType, Statuses, Outcomes, ThenWait
    <3>3. Placed' /\ Owned'
      BY <3>1 DEF IInv, LifecycleType, Placed, Owned, ThenWait, Outcomes
    <3>4. Numbered'
      BY <2>1, <3>1 DEF IInv, LifecycleType, Numbered, Statuses
    <3>5. ReportIsTrue' /\ BudgetKept'
      BY <3>1 DEF IInv, LifecycleType, Placed, ReportIsTrue, BudgetKept, ThenWait, Outcomes
    <3> QED
      BY <3>2, <3>3, <3>4, <3>5 DEF IInv
  <2>2. CASE table # "ABSENT"
    BY <1>5, <2>2, <1>0, ReturnKeeps DEF CreateTable, IInv, Placed, Outcomes
  <2> QED
    BY <2>1, <2>2
<1>6. CASE DeleteTable
  <2>1. CASE table = "ACTIVE"
    <3>1. /\ pc = "request" /\ ~cmd.explain /\ cmd.verb = "drop" /\ mine = 0
          /\ table' = "DELETING" /\ seen' = "DELETING" /\ mine' = number
          /\ ThenWait /\ UNCHANGED <<cmd, number, activated, removed, interval, waited>>
      BY <1>6, <2>1 DEF DeleteTable, IInv, Placed
    <3>2. LifecycleType'
      BY <3>1, <1>0 DEF IInv, LifecycleType, Statuses, Outcomes, ThenWait
    <3>3. Placed' /\ Owned'
      BY <2>1, <3>1 DEF IInv, LifecycleType, Placed, Owned, Numbered, ThenWait, Outcomes
    <3>4. Numbered'
      BY <2>1, <3>1 DEF IInv, LifecycleType, Numbered, Statuses
    <3>5. ReportIsTrue' /\ BudgetKept'
      BY <2>1, <3>1
         DEF IInv, LifecycleType, Placed, Numbered, ReportIsTrue, BudgetKept, ThenWait, Outcomes
    <3> QED
      BY <3>2, <3>3, <3>4, <3>5 DEF IInv
  <2>2. CASE table # "ACTIVE"
    BY <1>6, <2>2, <1>0, ReturnKeeps DEF DeleteTable, IInv, Placed, Outcomes
  <2> QED
    BY <2>1, <2>2
<1>7. CASE RequestFails
  BY <1>7, <1>0, ReturnKeeps DEF RequestFails, IInv, Placed, Outcomes
<1>8. CASE AnswerLost
  <2>1. /\ pc = "request" /\ ~cmd.explain /\ mine = 0
        /\ pc' = "done" /\ outcome' = "service_error"
        /\ UNCHANGED <<cmd, activated, removed, interval, waited>>
    BY <1>8 DEF AnswerLost, IInv, Placed
  <2>2. CASE cmd.verb = "create" /\ table = "ABSENT"
    <3>1. table' = "CREATING" /\ number' = number + 1 /\ mine' = number + 1 /\ seen' = seen
      BY <1>8, <2>2 DEF AnswerLost
    <3>2. LifecycleType' /\ Placed' /\ Owned'
      BY <2>1, <2>2, <3>1, <1>0 DEF IInv, LifecycleType, Placed, Owned, Statuses, Outcomes
    <3>3. Numbered'
      BY <2>1, <2>2, <3>1 DEF IInv, LifecycleType, Numbered, Statuses
    <3> QED
      BY <2>1, <3>2, <3>3 DEF IInv, ReportIsTrue, BudgetKept
  <2>3. CASE cmd.verb = "drop" /\ table = "ACTIVE"
    <3>1. table' = "DELETING" /\ seen' = "DELETING" /\ mine' = number /\ number' = number
      BY <1>8, <2>3 DEF AnswerLost
    <3>2. LifecycleType' /\ Placed' /\ Owned'
      BY <2>1, <2>3, <3>1, <1>0
         DEF IInv, LifecycleType, Placed, Owned, Numbered, Statuses, Outcomes
    <3>3. Numbered'
      BY <2>1, <2>3, <3>1 DEF IInv, LifecycleType, Numbered, Statuses
    <3> QED
      BY <2>1, <3>2, <3>3 DEF IInv, ReportIsTrue, BudgetKept
  <2> QED
    BY <1>8, <2>2, <2>3 DEF AnswerLost
<1>9. CASE PollActive
  <2>1. CASE seen = "ACTIVE"
    <3>1. Return("CREATE") /\ pc = "wait" /\ cmd.verb = "create" /\ UNCHANGED <<cmd, service>>
      BY <1>9, <2>1 DEF PollActive
    <3>2. mine \in activated \/ (mine \in removed /\ \E n \in activated : n > mine)
      BY <2>1, <3>1 DEF IInv, LifecycleType, Placed, Numbered, Owned
    <3> QED
      BY <3>1, <3>2, <1>0 DEF Return, IInv, LifecycleType, Placed, Numbered, Owned, Outcomes,
         ReportIsTrue, BudgetKept
  <2>2. CASE seen \in {"DELETING", "INACCESSIBLE"}
    BY <1>9, <2>2, <1>0, ReturnKeeps DEF PollActive, Outcomes
  <2>3. CASE seen \notin {"ACTIVE", "DELETING", "INACCESSIBLE"}
    BY <1>9, <2>3, <1>0, PollAgainKeeps DEF PollActive
  <2> QED
    BY <2>1, <2>2, <2>3
<1>10. CASE PollGone
  <2>1. CASE seen = "ABSENT"
    <3>1. Return("DROP") /\ pc = "wait" /\ cmd.verb = "drop" /\ UNCHANGED <<cmd, service>>
      BY <1>10, <2>1 DEF PollGone
    <3>2. mine \in removed
      BY <2>1, <3>1 DEF IInv, LifecycleType, Placed, Numbered, Owned
    <3> QED
      BY <3>1, <3>2, <1>0 DEF Return, IInv, LifecycleType, Placed, Numbered, Owned, Outcomes,
         ReportIsTrue, BudgetKept
  <2>2. CASE seen # "ABSENT"
    BY <1>10, <2>2, <1>0, PollAgainKeeps DEF PollGone
  <2> QED
    BY <2>1, <2>2
<1>11. CASE PollFails
  BY <1>11, <1>0, PollAgainKeeps, ReturnKeeps DEF PollFails, Outcomes
<1> QED
  BY <1>1, <1>2, <1>3, <1>4, <1>5, <1>6, <1>7, <1>8, <1>9, <1>10, <1>11 DEF Executor

\* The moves of a table, whoever asks for them: DescribeTable shows it, it becomes
\* usable or not, it is gone, a new one takes its number, it changes.
Appears == seen' = table /\ UNCHANGED <<table, number, activated, removed>>

Settles ==
  /\ table = "CREATING" /\ table' \in {"ACTIVE", "INACCESSIBLE"} /\ seen' = table'
  /\ activated' = IF table' = "ACTIVE" THEN activated \union {number} ELSE activated
  /\ UNCHANGED <<number, removed>>

Goes ==
  /\ table = "DELETING" /\ table' = "ABSENT" /\ seen' = "ABSENT"
  /\ removed' = removed \union {number} /\ UNCHANGED <<number, activated>>

Comes ==
  /\ table = "ABSENT" /\ table' = "CREATING" /\ number' = number + 1
  /\ UNCHANGED <<seen, activated, removed>>

Alters ==
  /\ table \in {"ACTIVE", "UPDATING"} /\ table' \in {"ACTIVE", "UPDATING", "DELETING"}
  /\ seen' = table' /\ UNCHANGED <<number, activated, removed>>

\* The number of the current table and the history stay in step with them.
LEMMA ServiceKeeps ==
  ASSUME IInv, UNCHANGED <<cmd, executor>>, others' \in Nat,
         Appears \/ Settles \/ Goes \/ Comes \/ Alters
  PROVE  IInv'
<1> USE DEF IInv, LifecycleType, Numbered
<1>1. LifecycleType' /\ Numbered'
  <2>1. CASE Appears
    BY <2>1 DEF Appears
  <2>2. CASE Settles
    BY <2>2 DEF Settles, Statuses
  <2>3. CASE Goes
    <3>1. LifecycleType'
      BY <2>3 DEF Goes, Statuses
    <3>2. removed' = 1..number
      BY <2>3 DEF Goes
    <3> QED
      BY <2>3, <3>1, <3>2 DEF Goes
  <2>4. CASE Comes
    <3>1. LifecycleType'
      BY <2>4 DEF Comes, Statuses
    <3>2. removed' = 1..(number' - 1) /\ number' \notin activated
      BY <2>4 DEF Comes
    <3> QED
      BY <2>4, <3>1, <3>2 DEF Comes
  <2>5. CASE Alters
    BY <2>5 DEF Alters, Statuses
  <2> QED
    BY <2>1, <2>2, <2>3, <2>4, <2>5
<1>2. Placed' /\ BudgetKept'
  BY DEF Placed, BudgetKept
<1>3. number' >= number /\ activated \subseteq activated' /\ removed \subseteq removed'
  BY DEF Appears, Settles, Goes, Comes, Alters
<1>4. Owned'
  BY <1>1, <1>3 DEF Owned
<1>5. ReportIsTrue'
  BY <1>3 DEF ReportIsTrue
<1> QED
  BY <1>1, <1>2, <1>4, <1>5

\* Every step of the first statement, of the service and of other clients of
\* TableLifecycle keeps the invariant.
LEMMA IInvLifecycle == IInv /\ Next => IInv'
<1> SUFFICES ASSUME IInv, Next PROVE IInv'
  OBVIOUS
<1> USE DEF World
<1>0. others \in Nat
  BY DEF IInv, LifecycleType
<1>1. CASE Executor
  BY <1>1, IInvExecutor
<1>2. CASE Appear
  BY <1>0, <1>2, ServiceKeeps DEF Appear, Appears
<1>3. CASE Activate
  BY <1>0, <1>3, ServiceKeeps DEF Activate, Settles
<1>4. CASE Vanish
  BY <1>0, <1>4, ServiceKeeps DEF Vanish, Goes
<1>5. CASE OtherCreates
  BY <1>0, <1>5, ServiceKeeps DEF OtherCreates, Comes
<1>6. CASE OtherDeletes
  BY <1>0, <1>6, ServiceKeeps DEF OtherDeletes, Alters
<1> QED
  BY <1>1, <1>2, <1>3, <1>4, <1>5, <1>6 DEF Next, Service

\* Of the second statement only a request of one call reaches the tables.
LEMMA LaterStepQuiet ==
  ASSUME LaterStep, ~Call
  PROVE  UNCHANGED <<cmd, executor, service, others>>
<1> USE DEF At, Quiet
<1>1. ASSUME StartLater \/ DescribeLimits \/ ListPage \/ ListFails PROVE UNCHANGED <<cmd, executor, service, others>>
  BY <1>1 DEF StartLater, DescribeLimits, ListPage, ListFails
<1>2. ASSUME EndList \/ ShowName \/ ShowStatus \/ ShowTtl \/ AddUnits
      PROVE UNCHANGED <<cmd, executor, service, others>>
  BY <1>2 DEF EndList, ShowName, ShowStatus, ShowTtl, AddUnits
<1>3. ASSUME Describe \/ DescribeTtl \/ DescribePitr \/ DescribeReplicas
      PROVE UNCHANGED <<cmd, executor, service, others>>
  BY <1>3 DEF Describe, DescribeTtl, DescribePitr, DescribeReplicas
<1>4. ASSUME ProbeTtl \/ ExplainTtl \/ UpdateTtl \/ ExplainCall \/ InvalidCall
      PROVE UNCHANGED <<cmd, executor, service, others>>
  BY <1>4 DEF ProbeTtl, ExplainTtl, UpdateTtl, ExplainCall, InvalidCall
<1> QED
  BY <1>1, <1>2, <1>3, <1>4 DEF LaterStep

\* What a request of the second statement does to the tables.
LEMMA CallKeeps == IInv /\ Call => IInv'
<1> SUFFICES ASSUME IInv, Call PROVE IInv'
  OBVIOUS
<1>0. UNCHANGED <<cmd, executor, others>> /\ others' \in Nat
  BY DEF Call, At, IInv, LifecycleType
<1>1. CASE UNCHANGED service
  BY <1>0, <1>1, IInvStill
<1>2. CASE RefusedFor(later.api) = "none" /\ Effect(later.api)
  <2>1. CASE later.api = "UpdateTable"
    <3>1. table = "ACTIVE"
      BY <1>2, <2>1 DEF RefusedFor, Refusal
    <3> QED
      BY <1>0, <1>2, <2>1, <3>1, ServiceKeeps DEF Effect, Alters
  <2>2. CASE later.api \in {"RestoreTableFromBackup", "RestoreTableToPointInTime"}
    <3>1. table = "ABSENT"
      BY <1>2, <2>2 DEF RefusedFor
    <3> QED
      BY <1>0, <1>2, <2>2, <3>1, ServiceKeeps DEF Effect, Comes
  <2>3. CASE later.api \in {"CreateBackup", "DeleteBackup", "UpdateContinuousBackups", "DescribeBackup"}
    BY <1>0, <1>2, <2>3, IInvStill DEF Effect
  <2> QED
    BY <1>2, <2>1, <2>2, <2>3 DEF Effect
<1> QED
  BY <1>1, <1>2 DEF Call

\* Every step of a session keeps the invariant.
LEMMA IInvNext == IInv /\ [SessionNext]_allvars => IInv'
<1> SUFFICES ASSUME IInv, [SessionNext]_allvars PROVE IInv'
  OBVIOUS
<1>0. others \in Nat
  BY DEF IInv, LifecycleType
<1>1. CASE First
  BY <1>1, IInvLifecycle DEF First
<1>2. CASE LaterStep
  BY <1>0, <1>2, CallKeeps, LaterStepQuiet, IInvStill
<1>3. CASE Updated
  BY <1>0, <1>3, ServiceKeeps DEF Updated, World, Alters
<1>4. CASE OtherAlters
  BY <1>0, <1>4, ServiceKeeps DEF OtherAlters, World, Alters
<1>5. CASE TtlSettles
  BY <1>0, <1>5, IInvStill DEF TtlSettles
<1>6. CASE OtherTtl \/ OtherBackup
  BY <1>0, <1>6, IInvStill DEF OtherTtl, OtherBackup
<1>7. CASE UNCHANGED allvars
  BY <1>0, <1>7, IInvStill
<1> QED
  BY <1>1, <1>2, <1>3, <1>4, <1>5, <1>6, <1>7 DEF SessionNext

\* The invariant holds in every session.
LEMMA IInvAlways == SessionSpec => []IInv
<1> QED
  BY IInvInit, IInvNext, PTL DEF SessionSpec

\* What CREATE TABLE and DROP TABLE report after waiting is true of the table
\* they made or deleted, whatever other clients and the second statement do.
THEOREM ReportIsTrueCorrect == SessionSpec => []ReportIsTrue
<1>1. IInv => ReportIsTrue
  BY DEF IInv
<1> QED
  BY <1>1, IInvAlways, PTL

\* The waiter overstays its budget by less than its longest sleep.
THEOREM BudgetKeptCorrect == SessionSpec => []BudgetKept
<1>1. IInv => BudgetKept
  BY DEF IInv
<1> QED
  BY <1>1, IInvAlways, PTL

-----------------------------------------------------------------------------
(***************************************************************************)
(* The second statement.                                                   *)
(***************************************************************************)

\* The second statement starts when the first is done, and nothing of it has
\* taken effect before it answers.  The steps of ALTER TABLE SET TTL and of the
\* statements of one call are theirs alone.
LaterPlaced ==
  /\ step # "idle" => pc = "done"
  /\ answer = "none" <=> step # "done"
  /\ answer = "none" => effects = 0
  /\ effects \in {0, 1}
  /\ step \in {"probe", "update"} => later.kind = "ttl"
  /\ step = "request" => later.kind = "call"
  /\ step \in {"limits", "list", "each", "row", "describe", "rest", "pitr", "replicas"}
       => later.kind \notin {"ttl", "call"}

\* Until the second statement answers nobody but another client undoes what the
\* waiter of the first one saw.
Settled ==
  answer = "none" /\ others = 0 =>
    /\ cmd.verb = "drop" => table # "CREATING"
    /\ ~cmd.nowait /\ mine # 0 /\ outcome = "CREATE" => table = "ACTIVE" /\ seen = "ACTIVE"
    /\ ~cmd.nowait /\ mine # 0 /\ outcome = "DROP" => table = "ABSENT"

\* The TimeToLive is one of its states.
TtlType ==
  /\ ttl \in [status: {"DISABLED", "ENABLED", "ENABLING", "DISABLING"},
              attr: Attributes \union {"none"}]
  /\ ttl.status = "DISABLED" => ttl = Off

\* ALTER TABLE SET TTL between its two calls: the history has the present state
\* of the TimeToLive, which without other clients is the one that was probed,
\* unless the table is gone.
Followed ==
  /\ step # "idle" /\ later.kind = "ttl" => ttl \in ttls
  /\ step = "update" /\ others = 0 =>
       /\ probe.status = "DISABLED" => ttl = Off
       /\ probe.status = "ENABLED" => ttl = probe \/ table = "ABSENT"

LaterInv ==
  /\ later \in Later
  /\ LaterPlaced /\ Settled /\ TtlType /\ Followed
  /\ WaitPays /\ ReportsItsEffect

\* A session starts with the invariant.
LEMMA LaterInit == SessionInit => LaterInv
<1> SUFFICES ASSUME SessionInit PROVE LaterInv
  OBVIOUS
<1>1. later \in Later
  BY ControlPlaneAssumption DEF SessionInit
<1>2. /\ pc = "start" /\ mine = 0 /\ outcome = "none" /\ table \in {"ABSENT", "ACTIVE"}
      /\ step = "idle" /\ answer = "none" /\ effects = 0
  BY DEF SessionInit, Init
<1>3. LaterPlaced /\ Settled
  BY <1>2 DEF LaterPlaced, Settled
<1>4. TtlType
  BY DEF SessionInit, TtlType, Off
<1>5. Followed /\ WaitPays /\ ReportsItsEffect
  BY <1>2 DEF Followed, WaitPays, ReportsItsEffect
<1> QED
  BY <1>1, <1>3, <1>4, <1>5 DEF LaterInv

\* While the second statement has not answered, its part of the invariant is
\* about the service only.
LEMMA LaterUnanswered ==
  ASSUME LaterInv, answer' = "none", effects' = 0
  PROVE  WaitPays' /\ ReportsItsEffect'
BY DEF WaitPays, ReportsItsEffect

\* The executor of the first statement has finished when the second one starts,
\* a CREATE TABLE that waited has seen its table ACTIVE and a DROP TABLE has seen
\* none.
LEMMA ExecutorSettles ==
  ASSUME IInv, LaterInv, Executor, Beside
  PROVE  /\ pc # "done"
         /\ Settled'
<1> USE CommandType
<1>1. pc # "done" /\ answer' = answer /\ others' = others /\ UNCHANGED cmd
  BY DEF Executor, Start, Probe, ProbeFails, ExplainRequest, CreateTable, DeleteTable,
     RequestFails, AnswerLost, PollActive, PollGone, PollFails, Untouched, Beside
<1>2. outcome = "none"
  BY <1>1 DEF IInv, Placed
<1>3. CASE UNCHANGED <<service, mine>> /\ outcome' \notin {"CREATE", "DROP"}
  BY <1>1, <1>3 DEF LaterInv, Settled
<1>4. CASE Start \/ ExplainRequest \/ RequestFails \/ PollFails
  BY <1>2, <1>3, <1>4 DEF Start, ExplainRequest, RequestFails, PollFails, PollAgain, Return, Goto,
     Untouched
<1>5. CASE Probe \/ ProbeFails
  <2>1. mine' = 0 /\ UNCHANGED service
    BY <1>5 DEF Probe, ProbeFails, Probed, Return, Goto, Untouched, IInv, Placed
  <2> QED
    BY <1>1, <2>1 DEF LaterInv, Settled
<1>6. CASE CreateTable
  BY <1>1, <1>2, <1>3, <1>6 DEF CreateTable, ThenWait, Return, Settled
<1>7. CASE DeleteTable
  BY <1>1, <1>2, <1>3, <1>7 DEF DeleteTable, ThenWait, Return, Settled
<1>8. CASE AnswerLost
  BY <1>1, <1>8 DEF AnswerLost, Settled
<1>9. CASE PollActive
  <2>1. CASE seen = "ACTIVE"
    BY <1>1, <1>9, <2>1 DEF PollActive, Return, Untouched, Settled, IInv, Numbered
  <2>2. CASE seen # "ACTIVE"
    BY <1>2, <1>3, <1>9, <2>2 DEF PollActive, Return, PollAgain, Untouched
  <2> QED
    BY <2>1, <2>2
<1>10. CASE PollGone
  <2>1. CASE seen = "ABSENT"
    BY <1>1, <1>10, <2>1 DEF PollGone, Return, Untouched, LaterInv, Settled, IInv, Numbered
  <2>2. CASE seen # "ABSENT"
    BY <1>2, <1>3, <1>10, <2>2 DEF PollGone, Return, PollAgain, Untouched
  <2> QED
    BY <2>1, <2>2
<1> QED
  BY <1>1, <1>4, <1>5, <1>6, <1>7, <1>8, <1>9, <1>10 DEF Executor

\* The first statement, the service and the other clients keep it.
LEMMA LaterFirst == IInv /\ LaterInv /\ First => LaterInv'
<1> SUFFICES ASSUME IInv, LaterInv, First PROVE LaterInv'
  OBVIOUS
<1>1. step # "done" /\ Next /\ Beside /\ UNCHANGED <<later, step, answer, probe, effects>>
  BY DEF First, Beside
<1>2. answer = "none" /\ effects = 0
  BY <1>1 DEF LaterInv, LaterPlaced
<1>3. pc = "done" => ~Executor
  BY <1>1, ExecutorSettles
<1>4. CASE Executor
  <2>1. step = "idle"
    BY <1>3, <1>4 DEF LaterInv, LaterPlaced
  <2>2. LaterPlaced' /\ Followed'
    BY <1>1, <1>2, <2>1 DEF LaterInv, LaterPlaced, Followed
  <2>3. TtlType'
    BY <1>1 DEF LaterInv, TtlType, Beside, Off
  <2> QED
    BY <1>1, <1>2, <1>4, <2>2, <2>3, ExecutorSettles, LaterUnanswered DEF LaterInv
<1>5. CASE ~Executor
  <2>1. /\ UNCHANGED <<cmd, executor>>
        /\ Service \/ OtherCreates \/ OtherDeletes
    BY <1>1, <1>5 DEF Next, Service, Appear, Activate, Vanish, OtherCreates, OtherDeletes, World
  <2>2. LaterPlaced'
    BY <1>1, <2>1 DEF LaterInv, LaterPlaced
  <2>3. TtlType'
    BY <1>1 DEF LaterInv, TtlType, Beside, Off
  <2>4. CASE OtherCreates \/ OtherDeletes
    <3>1. others' # 0
      BY <2>4 DEF OtherCreates, OtherDeletes, IInv, LifecycleType
    <3>2. Settled'
      BY <3>1 DEF Settled
    <3>3. Followed'
      BY <1>1, <3>1 DEF LaterInv, Followed, Beside
    <3> QED
      BY <1>1, <1>2, <2>2, <2>3, <3>2, <3>3, LaterUnanswered DEF LaterInv
  <2>5. CASE Service
    <3>1. /\ others' = others /\ number' = number
          /\ table = "CREATING" \/ table = "DELETING" \/ (seen # table /\ table' = table)
          /\ table' # "CREATING" \/ table' = table
          /\ table = "DELETING" \/ table' # "ABSENT" \/ table' = table
      BY <2>5 DEF Service, Appear, Activate, Vanish
    <3>2. Settled'
      BY <1>1, <1>2, <2>1, <3>1 DEF LaterInv, Settled, IInv, Numbered
    <3>3. Followed'
      BY <1>1, <3>1 DEF LaterInv, Followed, Beside
    <3> QED
      BY <1>1, <1>2, <2>2, <2>3, <3>2, <3>3, LaterUnanswered DEF LaterInv
  <2> QED
    BY <2>1, <2>4, <2>5
<1> QED
  BY <1>4, <1>5

\* So do the updates, the TimeToLive and the backups of the service and of the
\* other clients.
LEMMA LaterWorld ==
  IInv /\ LaterInv /\ (Updated \/ TtlSettles \/ OtherAlters \/ OtherTtl \/ OtherBackup) => LaterInv'
<1> SUFFICES ASSUME IInv, LaterInv, Updated \/ TtlSettles \/ OtherAlters \/ OtherTtl \/ OtherBackup
             PROVE  LaterInv'
  OBVIOUS
<1>1. step # "done" /\ UNCHANGED <<cmd, executor, later, step, answer, probe, effects, number>>
  BY DEF Updated, TtlSettles, OtherAlters, OtherTtl, OtherBackup, World, Beside
<1>2. answer = "none" /\ effects = 0
  BY <1>1 DEF LaterInv, LaterPlaced
<1>3. LaterPlaced'
  BY <1>1 DEF LaterInv, LaterPlaced
<1>4. WaitPays' /\ ReportsItsEffect'
  BY <1>1, <1>2, LaterUnanswered
<1>5. TtlType'
  <2>1. CASE Updated \/ OtherAlters
    BY <2>1 DEF Updated, OtherAlters, Beside, LaterInv, TtlType, Off
  <2>2. CASE TtlSettles
    BY <2>2 DEF TtlSettles, LaterInv, TtlType, Off
  <2>3. CASE OtherTtl
    BY <2>3 DEF OtherTtl, TtlUpdated, LaterInv, TtlType, Off
  <2>4. CASE OtherBackup
    BY <2>4 DEF OtherBackup, LaterInv, TtlType
  <2> QED
    BY <2>1, <2>2, <2>3, <2>4
<1>6. step # "idle" /\ later.kind = "ttl" => ttl' \in ttls'
  BY DEF Updated, TtlSettles, OtherAlters, OtherTtl, OtherBackup, TtlUpdated, Beside, LaterInv, Followed
<1>7. CASE OtherAlters \/ OtherTtl \/ OtherBackup
  <2>1. others' # 0
    BY <1>7 DEF OtherAlters, OtherTtl, OtherBackup, IInv, LifecycleType
  <2>2. Settled' /\ Followed'
    BY <1>1, <1>6, <2>1 DEF Settled, Followed
  <2> QED
    BY <1>1, <1>3, <1>4, <1>5, <2>2 DEF LaterInv
<1>8. CASE Updated
  <2>1. others' = others /\ table = "UPDATING" /\ table' = "ACTIVE" /\ ttl' = ttl
    BY <1>1, <1>8 DEF Updated, Beside
  <2>2. Settled' /\ Followed'
    BY <1>1, <1>6, <2>1 DEF LaterInv, Settled, Followed
  <2> QED
    BY <1>1, <1>3, <1>4, <1>5, <2>2 DEF LaterInv
<1>9. CASE TtlSettles
  <2>1. UNCHANGED <<service, others>> /\ ttl.status \in {"ENABLING", "DISABLING"}
    BY <1>9 DEF TtlSettles
  <2>2. Settled'
    BY <1>1, <2>1 DEF LaterInv, Settled
  <2>3. Followed'
    BY <1>1, <1>6, <2>1 DEF LaterInv, Followed, Off
  <2> QED
    BY <1>1, <1>3, <1>4, <1>5, <2>2, <2>3 DEF LaterInv
<1> QED
  BY <1>7, <1>8, <1>9

-----------------------------------------------------------------------------
(***************************************************************************)
(* The steps of the second statement.                                      *)
(***************************************************************************)

\* Where a statement of each kind may be while it runs.
Way(where) ==
  \/ where \in {"probe", "update"} /\ later.kind = "ttl"
  \/ where = "request" /\ later.kind = "call"
  \/ /\ where \in {"limits", "list", "each", "row", "describe", "rest", "pitr", "replicas"}
     /\ later.kind \notin {"ttl", "call"}

\* A step that goes on and leaves the service alone.
LEMMA GoesOn ==
  ASSUME LaterInv, pc = "done", answer = "none", effects = 0,
         UNCHANGED <<cmd, executor, service, others, later, ttl, effects, answer>>,
         Way(step'), Followed'
  PROVE  LaterInv'
<1>1. LaterPlaced'
  BY DEF LaterInv, LaterPlaced, Way
<1>2. Settled' /\ TtlType'
  BY DEF LaterInv, Settled, TtlType
<1> QED
  BY <1>1, <1>2, LaterUnanswered DEF LaterInv

\* A step that ends the statement: what is left is what its answer says.
LEMMA Answers ==
  ASSUME LaterInv, pc = "done", UNCHANGED <<cmd, executor, later>>,
         NEW what, what # "none", End(what), effects' \in {0, 1}, TtlType',
         later.kind = "ttl" => ttl' \in ttls', WaitPays', ReportsItsEffect'
  PROVE  LaterInv'
<1>1. step' = "done" /\ answer' = what
  BY DEF End
<1>2. LaterPlaced'
  BY <1>1 DEF LaterPlaced
<1>3. Settled' /\ Followed'
  BY <1>1 DEF Settled, Followed
<1> QED
  BY <1>2, <1>3 DEF LaterInv

\* Answers that change nothing and of which no more is claimed.
LEMMA QuietAnswers ==
  ASSUME LaterInv, pc = "done", step \notin {"idle", "done"}, UNCHANGED <<cmd, executor, later>>, Quiet,
         NEW what \in {"service_error", "explain", "invalid", "report", "bad_pattern"},
         what = "report" => later.kind # "call", End(what)
  PROVE  LaterInv'
<1>1. effects' = 0 /\ ttl' = ttl /\ ttls' = ttls /\ answer' = what /\ others' = others
  BY DEF LaterInv, LaterPlaced, Quiet, End
<1>2. WaitPays'
  BY <1>1 DEF WaitPays
<1>3. ReportsItsEffect'
  BY <1>1 DEF ReportsItsEffect
<1>4. TtlType' /\ (later.kind = "ttl" => ttl' \in ttls')
  BY <1>1 DEF LaterInv, TtlType, Followed
<1> QED
  BY <1>1, <1>2, <1>3, <1>4, Answers

\* What every step of the second statement finds and leaves alone.
LEMMA LaterRuns ==
  ASSUME LaterInv, LaterStep
  PROVE  /\ pc = "done" /\ answer = "none" /\ effects = 0 /\ step # "done"
         /\ UNCHANGED <<cmd, executor, later, others>>
<1>1. pc = "done" /\ step # "done" /\ UNCHANGED <<cmd, executor, later, others>>
  BY DEF LaterStep, StartLater, DescribeLimits, ListPage, ListFails, EndList, ShowName, ShowStatus,
     ShowTtl, AddUnits, Describe, DescribeTtl, DescribePitr, DescribeReplicas, ProbeTtl, ExplainTtl,
     UpdateTtl, ExplainCall, InvalidCall, Call, At, Quiet, LaterInv, LaterPlaced
<1> QED
  BY <1>1 DEF LaterInv, LaterPlaced

\* SHOW TABLES, SHOW BACKUPS and SHOW LIMITS.
LEMMA LaterLists ==
  ASSUME IInv, LaterInv, LaterStep,
         \/ DescribeLimits \/ ListPage \/ ListFails \/ EndList
         \/ ShowName \/ ShowStatus \/ ShowTtl \/ AddUnits
  PROVE  LaterInv'
<1> USE LaterRuns
<1>1. Quiet /\ step \notin {"idle", "done"} /\ later.kind \notin {"ttl", "call"}
  BY DEF DescribeLimits, ListPage, ListFails, EndList, ShowName, ShowStatus, ShowTtl, AddUnits, At,
     LaterInv, LaterPlaced
<1>2. \/ End("report") \/ End("service_error")
      \/ step' \in {"list", "each", "row"} /\ UNCHANGED answer
  BY DEF DescribeLimits, ListPage, AfterPage, ListFails, EndList, ShowName, ShowStatus, ShowTtl,
     AddUnits, At, Error
<1>3. CASE End("report") \/ End("service_error")
  BY <1>1, <1>3, QuietAnswers
<1>4. CASE step' \in {"list", "each", "row"} /\ UNCHANGED answer
  <2>1. Way(step') /\ Followed'
    BY <1>1, <1>4 DEF Way, Followed
  <2> QED
    BY <1>1, <1>4, <2>1, GoesOn DEF Quiet
<1> QED
  BY <1>2, <1>3, <1>4

\* DESCRIBE and SHOW CREATE TABLE: what they are refused for, the waiter of the
\* first statement has seen settled.
LEMMA LaterDescribes ==
  ASSUME IInv, LaterInv, LaterStep,
         Describe \/ DescribeTtl \/ DescribePitr \/ DescribeReplicas
  PROVE  LaterInv'
<1> USE LaterRuns
<1>1. Quiet /\ step \notin {"idle", "done"} /\ later.kind \notin {"ttl", "call"}
  BY DEF Describe, DescribeTtl, DescribePitr, DescribeReplicas, At, LaterInv, LaterPlaced
<1>2. \/ End("report") \/ End("service_error")
      \/ step' \in {"rest", "pitr", "replicas"} /\ UNCHANGED answer
      \/ seen = "ABSENT" /\ End("not_found")
      \/ seen # "ACTIVE" /\ End("in_use")
      \/ Fails(Mine) /\ End("not_found")
  BY DEF Describe, DescribeTtl, DescribePitr, DescribeReplicas, At, Error
<1>3. CASE End("report") \/ End("service_error")
  BY <1>1, <1>3, QuietAnswers
<1>4. CASE step' \in {"rest", "pitr", "replicas"} /\ UNCHANGED answer
  <2>1. Way(step') /\ Followed'
    BY <1>1, <1>4 DEF Way, Followed
  <2> QED
    BY <1>1, <1>4, <2>1, GoesOn DEF Quiet
<1>5. CASE \/ seen = "ABSENT" /\ End("not_found")
           \/ seen # "ACTIVE" /\ End("in_use")
           \/ Fails(Mine) /\ End("not_found")
  <2>1. /\ answer' \in {"not_found", "in_use"} /\ effects' = 0
        /\ UNCHANGED <<cmd, executor, service, others, later, ttl, ttls>>
        /\ seen # "ACTIVE" \/ stumbled' # {}
    BY <1>1, <1>5 DEF Quiet, End, Fails
  <2>2. WaitPays'
    BY <1>1, <2>1 DEF LaterInv, Settled, WaitPays, Restores
  <2>3. ReportsItsEffect' /\ TtlType'
    BY <2>1 DEF LaterInv, TtlType, ReportsItsEffect
  <2> QED
    BY <1>1, <1>5, <2>1, <2>2, <2>3, Answers
<1> QED
  BY <1>2, <1>3, <1>4, <1>5

\* A statement starts with the call of its kind.
LEMMA LaterStarts == ASSUME IInv, LaterInv, LaterStep, StartLater PROVE LaterInv'
<1> USE LaterRuns
<1>1. /\ effects' = 0 /\ ttl' = ttl /\ ttl' \in ttls' /\ later.kind # "none"
      /\ UNCHANGED <<cmd, executor, service, others, later>>
  BY DEF StartLater, At
<1>2. TtlType'
  BY <1>1 DEF LaterInv, TtlType
<1>3. CASE Error("bad_pattern")
  <2>1. answer' = "bad_pattern" /\ End("bad_pattern")
    BY <1>3 DEF Error, End
  <2>2. WaitPays' /\ ReportsItsEffect'
    BY <1>1, <2>1 DEF WaitPays, ReportsItsEffect
  <2> QED
    BY <1>1, <1>2, <2>1, <2>2, Answers
<1>4. CASE step' = FirstStep(later.kind) /\ UNCHANGED answer
  <2>1. later.kind \in {"show_limits", "show_create", "describe", "show_tables", "show_backups",
                        "ttl", "call"}
    BY <1>1 DEF LaterInv, Later
  <2>2. \/ later.kind = "call" /\ step' = "request"
        \/ later.kind = "ttl" /\ step' = "probe"
        \/ later.kind \notin {"call", "ttl"} /\ step' \in {"describe", "limits", "list"}
    BY <1>4, <2>1 DEF FirstStep
  <2>3. Way(step') /\ Followed'
    BY <1>1, <2>2 DEF Way, Followed
  <2> QED
    BY <1>1, <1>4, <2>3, GoesOn
<1> QED
  BY <1>3, <1>4 DEF StartLater

\* ALTER TABLE SET TTL, its first call.
LEMMA LaterProbes == ASSUME IInv, LaterInv, LaterStep, ProbeTtl PROVE LaterInv'
<1> USE LaterRuns
<1>1. /\ effects' = 0 /\ later.kind = "ttl" /\ step \notin {"idle", "done"} /\ Quiet
      /\ UNCHANGED <<cmd, executor, service, others, later, ttl, ttls>> /\ ttl \in ttls
  BY DEF ProbeTtl, At, Quiet, LaterInv, LaterPlaced, Followed
<1>2. TtlType'
  BY <1>1 DEF LaterInv, TtlType
<1>3. CASE End("service_error")
  BY <1>1, <1>3, QuietAnswers
<1>4. CASE seen = "ABSENT" /\ End("not_found")
  <2>1. answer' = "not_found"
    BY <1>4 DEF End
  <2>2. WaitPays' /\ ReportsItsEffect'
    BY <1>1, <1>4, <2>1 DEF LaterInv, Settled, WaitPays, ReportsItsEffect, Restores
  <2> QED
    BY <1>1, <1>2, <1>4, <2>2, Answers
<1>5. CASE ttl.status = "DISABLED" /\ ~later.enabled /\ End("ALTER")
  <2>1. answer' = "ALTER" /\ Off \in ttls'
    BY <1>1, <1>5 DEF End, LaterInv, TtlType
  <2>2. WaitPays' /\ ReportsItsEffect'
    BY <1>1, <1>5, <2>1 DEF WaitPays, ReportsItsEffect
  <2> QED
    BY <1>1, <1>2, <1>5, <2>2, Answers
<1>6. CASE step' = "update" /\ UNCHANGED answer /\ probe' = ttl
  <2>1. Way(step') /\ Followed'
    BY <1>1, <1>6 DEF Way, Followed, LaterInv, TtlType
  <2> QED
    BY <1>1, <1>6, <2>1, GoesOn
<1> QED
  BY <1>3, <1>4, <1>5, <1>6 DEF ProbeTtl, Error

\* Its second call: the TimeToLive it names is the one it has seen, and is there
\* still unless another client acted.
LEMMA LaterUpdates == ASSUME IInv, LaterInv, LaterStep, UpdateTtl PROVE LaterInv'
<1> USE LaterRuns
<1>1. /\ later.kind = "ttl" /\ step = "update" /\ ttl \in ttls
      /\ UNCHANGED <<cmd, executor, service, others, later, probe>>
      /\ later.enabled \in BOOLEAN /\ later.attr \in Attributes
  BY DEF UpdateTtl, At, LaterInv, LaterPlaced, Followed, Later
<1>2. CASE /\ TtlAccepts(later.enabled, attribute_name)
           /\ TtlUpdated(later.enabled, attribute_name)
           /\ effects' = effects + 1
           /\ End("ALTER") \/ End("service_error")
  <2>1. effects' = 1 /\ answer' \in {"ALTER", "service_error"}
    BY <1>2 DEF End
  <2>2. ~later.enabled => ttl = [status |-> "ENABLED", attr |-> probe.attr]
    BY <1>2 DEF TtlAccepts, attribute_name, LaterInv, TtlType
  <2>3. /\ later.enabled => ttl' = [status |-> "ENABLING", attr |-> later.attr]
        /\ ~later.enabled => ttl' = [status |-> "DISABLING", attr |-> probe.attr]
        /\ ttls' = ttls \union {ttl'}
    BY <1>1, <1>2 DEF TtlUpdated, attribute_name
  <2>4. TtlType'
    BY <1>1, <2>2, <2>3 DEF LaterInv, TtlType
  <2>5. WaitPays'
    BY <2>1 DEF WaitPays
  <2>6. ReportsItsEffect'
    BY <1>1, <2>1, <2>2, <2>3 DEF ReportsItsEffect
  <2> QED
    BY <1>1, <1>2, <2>1, <2>3, <2>4, <2>5, <2>6, Answers
<1>3. CASE /\ \/ table # "ACTIVE" /\ End(Refusal)
              \/ table = "ACTIVE" /\ ~TtlAccepts(later.enabled, attribute_name) /\ End("refused")
              \/ End("service_error")
           /\ UNCHANGED <<ttl, ttls, effects>>
  <2>1. TtlType'
    BY <1>3 DEF LaterInv, TtlType
  <2>2. CASE table # "ACTIVE" /\ End(Refusal)
    <3>1. answer' = Refusal /\ Refusal \in {"not_found", "in_use"}
      BY <2>2 DEF End, Refusal
    <3>2. WaitPays' /\ ReportsItsEffect'
      BY <1>1, <1>3, <2>2, <3>1 DEF LaterInv, Settled, WaitPays, ReportsItsEffect, Restores
    <3> QED
      BY <1>1, <1>3, <2>1, <2>2, <3>1, <3>2, Answers
  <2>3. CASE table = "ACTIVE" /\ ~TtlAccepts(later.enabled, attribute_name) /\ End("refused")
    <3>1. answer' = "refused"
      BY <2>3 DEF End
    <3>2. others # 0 \/ probe.status # IF later.enabled THEN "DISABLED" ELSE "ENABLED"
      BY <1>1, <2>3 DEF LaterInv, Followed, TtlAccepts, attribute_name, Off
    <3>3. WaitPays' /\ ReportsItsEffect'
      BY <1>1, <1>3, <3>1, <3>2 DEF WaitPays, ReportsItsEffect
    <3> QED
      BY <1>1, <1>3, <2>1, <2>3, <3>3, Answers
  <2>4. CASE End("service_error")
    <3>1. WaitPays' /\ ReportsItsEffect'
      BY <1>3, <2>4 DEF WaitPays, ReportsItsEffect, End
    <3> QED
      BY <1>1, <1>3, <2>1, <2>4, <3>1, Answers
  <2> QED
    BY <1>3, <2>2, <2>3, <2>4
<1> QED
  BY <1>2, <1>3 DEF UpdateTtl

\* Statements that end without a request.
LEMMA LaterExplains ==
  ASSUME IInv, LaterInv, LaterStep, ExplainTtl \/ ExplainCall \/ InvalidCall
  PROVE  LaterInv'
<1> USE LaterRuns
<1>1. /\ Quiet /\ step \notin {"idle", "done"}
      /\ End("explain") \/ End("invalid")
  BY DEF ExplainTtl, ExplainCall, InvalidCall, At
<1> QED
  BY <1>1, QuietAnswers

\* ALTER TABLE, BACKUP and RESTORE of one call: a table that has settled is not
\* what they are refused for.
LEMMA LaterCalls == ASSUME IInv, LaterInv, LaterStep, Call PROVE LaterInv'
<1> USE LaterRuns
<1>1. /\ later.kind = "call" /\ later.api \in Apis
      /\ UNCHANGED <<cmd, executor, others, later, ttls>>
  BY DEF Call, At, LaterInv, LaterPlaced, Later
<1>2. CASE RefusedFor(later.api) = "none" /\ Effect(later.api) /\ effects' = effects + 1
           /\ (End(token) \/ (Fails(Mine) /\ End("service_error")))
  <2>1. token \in {"ALTER", "BACKUP", "DROP_BACKUP", "report", "RESTORE"}
    BY <1>1 DEF Apis, token
  <2>2. effects' = 1 /\ answer' \in {"ALTER", "BACKUP", "DROP_BACKUP", "report", "RESTORE", "service_error"}
    BY <1>2, <2>1 DEF End
  <2>3. WaitPays' /\ ReportsItsEffect'
    BY <1>1, <2>2 DEF WaitPays, ReportsItsEffect
  <2>4. ttl' = ttl \/ ttl' = Off
    BY <1>2 DEF Effect
  <2>5. TtlType'
    BY <2>4 DEF LaterInv, TtlType, Off
  <2> QED
    BY <1>1, <1>2, <2>1, <2>2, <2>3, <2>5, Answers
<1>3. CASE /\ \/ RefusedFor(later.api) # "none" /\ End(RefusedFor(later.api))
              \/ Fails(Mine) /\ End("service_error")
           /\ UNCHANGED <<service, ttl, effects>>
  <2>1. TtlType'
    BY <1>3 DEF LaterInv, TtlType
  <2>2. CASE RefusedFor(later.api) # "none" /\ End(RefusedFor(later.api))
    <3>1. /\ RefusedFor(later.api) \in {"not_found", "in_use", "no_backup"}
          /\ table = "ACTIVE" /\ ~Restores => RefusedFor(later.api) = "no_backup"
          /\ table = "ABSENT" /\ Restores => RefusedFor(later.api) = "no_backup"
      BY <1>1, <2>2 DEF Apis, RefusedFor, Refusal, Restores
    <3>2. answer' = RefusedFor(later.api)
      BY <2>2 DEF End
    <3>3. WaitPays'
      BY <1>1, <1>3, <3>1, <3>2 DEF LaterInv, Settled, WaitPays, Restores
    <3>4. ReportsItsEffect'
      BY <1>1, <1>3, <3>1, <3>2 DEF ReportsItsEffect
    <3> QED
      BY <1>1, <1>3, <2>1, <2>2, <3>3, <3>4, Answers
  <2>3. CASE Fails(Mine) /\ End("service_error")
    <3>1. WaitPays' /\ ReportsItsEffect'
      BY <1>3, <2>3 DEF WaitPays, ReportsItsEffect, End
    <3> QED
      BY <1>1, <1>3, <2>1, <2>3, <3>1, Answers
  <2> QED
    BY <1>3, <2>2, <2>3
<1> QED
  BY <1>2, <1>3 DEF Call

\* Every step of the session keeps it.
LEMMA LaterNext == IInv /\ LaterInv /\ [SessionNext]_allvars => LaterInv'
<1> SUFFICES ASSUME IInv, LaterInv, [SessionNext]_allvars PROVE LaterInv'
  OBVIOUS
<1>1. CASE First
  BY <1>1, LaterFirst
<1>2. CASE Updated \/ TtlSettles \/ OtherAlters \/ OtherTtl \/ OtherBackup
  BY <1>2, LaterWorld
<1>3. CASE LaterStep
  BY <1>3, LaterStarts, LaterLists, LaterDescribes, LaterProbes, LaterUpdates, LaterExplains,
     LaterCalls DEF LaterStep
<1>4. CASE UNCHANGED allvars
  BY <1>4 DEF LaterInv, LaterPlaced, Settled, TtlType, Followed, WaitPays, Restores, ReportsItsEffect,
     Later
<1> QED
  BY <1>1, <1>2, <1>3, <1>4 DEF SessionNext

\* Both invariants hold throughout a session.
LEMMA LaterInvAlways == SessionSpec => [](IInv /\ LaterInv)
<1>1. SessionInit => IInv /\ LaterInv
  BY IInvInit, LaterInit
<1>2. IInv /\ LaterInv /\ [SessionNext]_allvars => (IInv /\ LaterInv)'
  BY IInvNext, LaterNext
<1> QED
  BY <1>1, <1>2, PTL DEF SessionSpec

\* What the waiters of execute_create_table and execute_drop_table are for: the
\* statement that follows one that waited is never refused because the table
\* is not there or not ready, or, for RESTORE, not gone, unless another client
\* acted or a call failed by itself.
THEOREM WaitPaysCorrect == SessionSpec => []WaitPays
<1>1. LaterInv => WaitPays
  BY DEF LaterInv
<1> QED
  BY <1>1, LaterInvAlways, PTL

\* ALTER TABLE, BACKUP, RESTORE, SHOW and DESCRIBE change at most one thing, and
\* what they return tells whether they did.
THEOREM ReportsItsEffectCorrect == SessionSpec => []ReportsItsEffect
<1>1. LaterInv => ReportsItsEffect
  BY DEF LaterInv
<1> QED
  BY <1>1, LaterInvAlways, PTL

-----------------------------------------------------------------------------
(***************************************************************************)
(* The listings.                                                           *)
(***************************************************************************)

\* Taking the first of a sequence without duplicates.
LEMMA TailOf ==
  ASSUME NEW S, NEW s \in Seq(S), s # <<>>, IsInjective(s)
  PROVE  /\ Tail(s) \in Seq(S) /\ IsInjective(Tail(s))
         /\ ToSet(Tail(s)) = ToSet(s) \ {Head(s)} /\ Head(s) \in ToSet(s) /\ Head(s) \in S
<1>1. /\ Len(s) \in Nat \ {0} /\ DOMAIN s = 1..Len(s) /\ Head(s) = s[1]
      /\ Tail(s) \in Seq(S) /\ Len(Tail(s)) = Len(s) - 1
      /\ \A i \in 1..Len(s) - 1 : Tail(s)[i] = s[i + 1]
  BY HeadTailProperties, EmptySeq
<1>2. DOMAIN Tail(s) = 1..Len(s) - 1
  BY <1>1
<1>3. IsInjective(Tail(s))
  BY <1>1, <1>2 DEF IsInjective
<1>4. ASSUME NEW x \in ToSet(s), x # Head(s) PROVE x \in ToSet(Tail(s))
  <2>1. PICK i \in 1..Len(s) : x = s[i]
    BY <1>1 DEF ToSet
  <2>2. i - 1 \in 1..Len(s) - 1 /\ Tail(s)[i - 1] = x
    BY <1>1, <1>4, <2>1
  <2> QED
    BY <1>2, <2>2 DEF ToSet
<1>5. ASSUME NEW x \in ToSet(Tail(s)) PROVE x \in ToSet(s) /\ x # Head(s)
  <2>1. PICK i \in 1..Len(s) - 1 : x = s[i + 1]
    BY <1>1, <1>2 DEF ToSet
  <2>2. i + 1 \in 1..Len(s) /\ i + 1 # 1
    BY <1>1
  <2> QED
    BY <1>1, <2>1, <2>2 DEF ToSet, IsInjective
<1>6. Head(s) \in ToSet(s) /\ Head(s) \in S
  BY <1>1 DEF ToSet
<1>7. ToSet(Tail(s)) = ToSet(s) \ {Head(s)}
  BY <1>4, <1>5
<1> QED
  BY <1>1, <1>3, <1>6, <1>7

\* Joining two sequences without duplicates that have nothing in common.
LEMMA ConcatOf ==
  ASSUME NEW S, NEW s \in Seq(S), NEW t \in Seq(S), IsInjective(s), IsInjective(t),
         ToSet(s) \intersect ToSet(t) = {}
  PROVE  /\ s \o t \in Seq(S) /\ IsInjective(s \o t)
         /\ ToSet(s \o t) = ToSet(s) \union ToSet(t)
<1>1. /\ Len(s) \in Nat /\ Len(t) \in Nat /\ DOMAIN s = 1..Len(s) /\ DOMAIN t = 1..Len(t)
      /\ s \o t \in Seq(S) /\ DOMAIN (s \o t) = 1..Len(s) + Len(t)
      /\ \A i \in 1..Len(s) + Len(t) :
           (s \o t)[i] = IF i <= Len(s) THEN s[i] ELSE t[i - Len(s)]
  BY ConcatProperties
<1>2. \A i \in 1..Len(s) + Len(t) :
        \/ i \in 1..Len(s) /\ (s \o t)[i] = s[i] /\ s[i] \in ToSet(s)
        \/ /\ i > Len(s) /\ i - Len(s) \in 1..Len(t) /\ (s \o t)[i] = t[i - Len(s)]
           /\ t[i - Len(s)] \in ToSet(t)
  BY <1>1 DEF ToSet
<1>3. IsInjective(s \o t)
  <2> SUFFICES ASSUME NEW i \in 1..Len(s) + Len(t), NEW j \in 1..Len(s) + Len(t),
                      (s \o t)[i] = (s \o t)[j]
               PROVE  i = j
    BY <1>1 DEF IsInjective
  <2>1. CASE i \in 1..Len(s) /\ j \in 1..Len(s)
    BY <1>1, <2>1 DEF IsInjective
  <2>2. CASE i > Len(s) /\ j > Len(s)
    <3>1. t[i - Len(s)] = t[j - Len(s)] /\ i - Len(s) \in 1..Len(t) /\ j - Len(s) \in 1..Len(t)
      BY <1>1, <1>2, <2>2
    <3>2. i - Len(s) = j - Len(s)
      BY <1>1, <3>1 DEF IsInjective
    <3> QED
      BY <1>1, <3>2
  <2> QED
    BY <1>1, <1>2, <2>1, <2>2
<1>4. ASSUME NEW x \in ToSet(s) PROVE x \in ToSet(s \o t)
  <2>1. PICK i \in 1..Len(s) : x = s[i]
    BY <1>1 DEF ToSet
  <2>2. i \in 1..Len(s) + Len(t) /\ (s \o t)[i] = x
    BY <1>1, <2>1
  <2> QED
    BY <1>1, <2>2 DEF ToSet
<1>5. ASSUME NEW x \in ToSet(t) PROVE x \in ToSet(s \o t)
  <2>1. PICK i \in 1..Len(t) : x = t[i]
    BY <1>1 DEF ToSet
  <2>2. i + Len(s) \in 1..Len(s) + Len(t) /\ (s \o t)[i + Len(s)] = x
    BY <1>1, <2>1
  <2> QED
    BY <1>1, <2>2 DEF ToSet
<1>6. ASSUME NEW x \in ToSet(s \o t) PROVE x \in ToSet(s) \union ToSet(t)
  BY <1>1, <1>2, <1>6 DEF ToSet
<1> QED
  BY <1>1, <1>3, <1>4, <1>5, <1>6

\* A page holds each name that is shown between its two places once.
PageExact(page, all, shown, from, upto) ==
  /\ page \in Seq(ToSet(all)) /\ IsInjective(page)
  /\ \A n : n \in ToSet(page) <=> n \in shown /\ \E p \in from + 1 .. upto : n = all[p]

\* That is what a page of ListTables or ListBackups is.
LEMMA PageHolds ==
  ASSUME NEW all, all \in Seq(ToSet(all)), IsInjective(all), NEW shown,
         NEW from \in Nat, NEW upto \in from..Len(all),
         NEW page \in Pages(all, shown, from, upto)
  PROVE  PageExact(page, all, shown, from, upto)
<1> DEFINE at == {p \in from + 1 .. upto : all[p] \in shown}
<1>1. PICK f \in [1..Cardinality(at) -> at] :
        /\ ToSet(f) = at /\ \A i, j \in DOMAIN f : i < j => f[i] < f[j]
        /\ page = [i \in DOMAIN f |-> all[f[i]]]
  BY DEF Pages
<1>2. Cardinality(at) \in Nat
  <2>1. IsFiniteSet(from + 1 .. upto)
    BY FS_Interval
  <2>2. IsFiniteSet(at)
    BY <2>1, FS_Subset
  <2> QED
    BY <2>2, FS_CardinalityType
<1>3. DOMAIN f = 1..Cardinality(at) /\ DOMAIN page = 1..Cardinality(at)
  BY <1>1
<1>4. Len(all) \in Nat /\ DOMAIN all = 1..Len(all) /\ at \subseteq 1..Len(all) /\ at \subseteq Nat
  OBVIOUS
<1> HIDE DEF at
<1>5. page \in Seq(ToSet(all))
  <2>1. \A i \in 1..Cardinality(at) : page[i] \in ToSet(all)
    BY <1>1, <1>3, <1>4 DEF ToSet
  <2>2. page \in [1..Cardinality(at) -> ToSet(all)]
    BY <1>1, <1>3, <2>1
  <2> QED
    BY <1>2, <2>2
<1>6. IsInjective(page)
  <2> SUFFICES ASSUME NEW i \in 1..Cardinality(at), NEW j \in 1..Cardinality(at), page[i] = page[j]
               PROVE  i = j
    BY <1>3 DEF IsInjective
  <2>1. f[i] \in at /\ f[j] \in at /\ all[f[i]] = all[f[j]]
    BY <1>1, <1>3
  <2>2. f[i] = f[j] /\ f[i] \in Nat
    BY <1>4, <2>1 DEF IsInjective
  <2>3. ~(i < j) /\ ~(j < i)
    BY <1>1, <1>3, <2>2
  <2> QED
    BY <1>2, <2>3
<1>7. ToSet(page) = {all[p] : p \in at}
  BY <1>1, <1>3 DEF ToSet
<1> QED
  BY <1>5, <1>6, <1>7 DEF at, PageExact

\* Adding one that is not there yet.
LEMMA AppendOf ==
  ASSUME NEW S, NEW s \in Seq(S), NEW n \in S, IsInjective(s), n \notin ToSet(s)
  PROVE  IsInjective(Append(s, n)) /\ ToSet(Append(s, n)) = ToSet(s) \union {n}
<1>1. /\ Len(s) \in Nat /\ DOMAIN s = 1..Len(s) /\ DOMAIN Append(s, n) = 1..Len(s) + 1
      /\ \A i \in 1..Len(s) : Append(s, n)[i] = s[i] /\ s[i] \in ToSet(s)
      /\ Append(s, n)[Len(s) + 1] = n
  BY AppendProperties DEF ToSet
<1>2. \A i \in 1..Len(s) + 1 : i \in 1..Len(s) \/ i = Len(s) + 1
  BY <1>1
<1>3. IsInjective(Append(s, n))
  BY <1>1, <1>2 DEF IsInjective
<1>4. ASSUME NEW x \in ToSet(s) PROVE x \in ToSet(Append(s, n))
  <2>1. PICK i \in 1..Len(s) : x = s[i]
    BY <1>1 DEF ToSet
  <2>2. i \in 1..Len(s) + 1 /\ Append(s, n)[i] = x
    BY <1>1, <2>1
  <2> QED
    BY <1>1, <2>2 DEF ToSet
<1>5. n \in ToSet(Append(s, n))
  <2>1. Len(s) + 1 \in 1..Len(s) + 1
    BY <1>1
  <2> QED
    BY <1>1, <2>1 DEF ToSet
<1>6. ASSUME NEW x \in ToSet(Append(s, n)) PROVE x \in ToSet(s) \union {n}
  BY <1>1, <1>2, <1>6 DEF ToSet
<1> QED
  BY <1>3, <1>4, <1>5, <1>6

\* Between the calls of the second statement the history holds what the region
\* shows: what has stayed is there, and what is there has been seen.
RegionKept ==
  /\ backups \subseteq ToSet(Backups)
  /\ step # "idle" =>
       steady \subseteq Listed(seen, backups) /\ Listed(seen, backups) \subseteq ever

Listings == {"show_tables", "show_limits", "show_backups"}

Row == [name: ToSet(Tables) \union ToSet(Backups), full: BOOLEAN]

ListType ==
  /\ cursor \in Nat /\ todo \in Seq(ToSet(Tables)) /\ total \in [ToSet(Tables) -> Nat]
  /\ later.kind \in Listings => report \in Seq(Row)

\* Where a listing has done what.
ListPlaced ==
  /\ step = "limits" => later.kind = "show_limits"
  /\ step = "list" => later.kind \in Listings
  /\ step \in {"describe", "rest", "pitr", "replicas"} => later.kind \notin Listings
  /\ step = "each" => later.kind \in {"show_tables", "show_limits"}
  /\ step = "row" =>
       later.kind = "show_tables" /\ ~later.brief /\ todo # <<>> /\ Head(todo) \in later.like
  /\ step \in {"idle", "limits"} => cursor = 0 /\ todo = <<>> /\ report = <<>>
  /\ step \in {"idle", "limits", "list"} => \A n \in ToSet(Tables) : total[n] = 0
  /\ later.kind \in Listings /\ answer = "report" => todo = <<>>
  /\ step = "list" =>
       IF later.kind = "show_backups" THEN cursor <= Len(Backups) /\ todo = <<>>
       ELSE cursor <= Len(Tables) /\ report = <<>>

\* What has been read so far is what is there up to the cursor, of the backups
\* what is asked for.
Fetched ==
  step = "list" =>
    IF later.kind = "show_backups"
    THEN /\ \A n \in ToSet(Printed) : \E p \in 1..cursor : n = Backups[p]
         /\ \A p \in 1..cursor :
              Backups[p] \in steady \intersect later.like => Backups[p] \in ToSet(Printed)
    ELSE /\ \A n \in ToSet(todo) : \E p \in 1..cursor : n = Tables[p]
         /\ \A p \in 1..cursor : Tables[p] \in steady => Tables[p] \in ToSet(todo)

\* A table is listed once, and has been there.
Pending == step \in {"list", "each", "row"} => IsInjective(todo) /\ ToSet(todo) \subseteq ever

Going == step \in {"list", "each", "row"} \/ answer = "report"

\* What has been asked for is printed once or will be, with its details if it
\* has them.
PrintedOnce ==
  Going /\ later.kind \in {"show_tables", "show_backups"} =>
    /\ IsInjective(Printed) /\ ToSet(Printed) \subseteq ever \intersect later.like
    /\ ToSet(Printed) \intersect ToSet(todo) = {}
    /\ step # "list" => steady \intersect later.like \subseteq ToSet(Printed) \union ToSet(todo)
    /\ later.kind = "show_tables" /\ ~later.brief =>
         \A i \in DOMAIN report : report[i].name \in steady \ stumbled => report[i].full

\* Each table is in the sum once or will be.
CountedOnce ==
  Going /\ later.kind = "show_limits" =>
    \A n \in ToSet(Tables) :
      /\ total[n] <= 1
      /\ total[n] = 1 => n \in ever /\ n \notin ToSet(todo)
      /\ step # "list" /\ n \in steady \ stumbled => total[n] = 1 \/ n \in ToSet(todo)

ListInv ==
  RegionKept /\ ListType /\ ListPlaced /\ Fetched /\ Pending /\ PrintedOnce /\ CountedOnce

Named == ToSet(Tables) \union ToSet(Backups)

NamesOf(rows) == [i \in DOMAIN rows |-> rows[i].name]

\* A function on the first k numbers is a sequence.
LEMMA AsSequence ==
  ASSUME NEW S, NEW k \in Nat, NEW f \in [1..k -> S]
  PROVE  f \in Seq(S) /\ Len(f) = k
OBVIOUS

\* The names of some lines.
LEMMA NamesType ==
  ASSUME NEW rows \in Seq(Row)
  PROVE  /\ NamesOf(rows) \in Seq(Named) /\ Len(NamesOf(rows)) = Len(rows)
         /\ Len(rows) \in Nat /\ DOMAIN NamesOf(rows) = 1..Len(rows) /\ DOMAIN rows = 1..Len(rows)
         /\ \A i \in 1..Len(rows) : NamesOf(rows)[i] = rows[i].name
<1>1. Len(rows) \in Nat /\ DOMAIN rows = 1..Len(rows)
  OBVIOUS
<1>2. \A i \in 1..Len(rows) : rows[i] \in Row
  OBVIOUS
<1>3. \A i \in 1..Len(rows) : rows[i].name \in Named
  BY <1>2 DEF Row, Named
<1>4. NamesOf(rows) \in [1..Len(rows) -> Named]
  BY <1>1, <1>3 DEF NamesOf
<1>5. \A i \in 1..Len(rows) : NamesOf(rows)[i] = rows[i].name
  BY <1>1 DEF NamesOf
<1> QED
  BY <1>1, <1>4, <1>5

\* The names of two sequences of lines, one after the other.
LEMMA NamesConcat ==
  ASSUME NEW r \in Seq(Row), NEW rows \in Seq(Row)
  PROVE  NamesOf(r \o rows) = NamesOf(r) \o NamesOf(rows)
<1>1. /\ r \o rows \in Seq(Row) /\ Len(r \o rows) = Len(r) + Len(rows)
      /\ \A i \in 1..Len(r) + Len(rows) :
           (r \o rows)[i] = IF i <= Len(r) THEN r[i] ELSE rows[i - Len(r)]
  BY ConcatProperties
<1>2. /\ NamesOf(r) \in Seq(Named) /\ Len(NamesOf(r)) = Len(r) /\ Len(r) \in Nat
      /\ NamesOf(rows) \in Seq(Named) /\ Len(NamesOf(rows)) = Len(rows) /\ Len(rows) \in Nat
      /\ \A i \in 1..Len(r) : NamesOf(r)[i] = r[i].name
      /\ \A i \in 1..Len(rows) : NamesOf(rows)[i] = rows[i].name
  BY NamesType
<1>3. /\ NamesOf(r \o rows) \in Seq(Named) /\ Len(NamesOf(r \o rows)) = Len(r) + Len(rows)
      /\ \A i \in 1..Len(r) + Len(rows) : NamesOf(r \o rows)[i] = (r \o rows)[i].name
  BY <1>1, NamesType
<1>4. /\ NamesOf(r) \o NamesOf(rows) \in Seq(Named)
      /\ Len(NamesOf(r) \o NamesOf(rows)) = Len(r) + Len(rows)
      /\ \A i \in 1..Len(r) + Len(rows) :
           (NamesOf(r) \o NamesOf(rows))[i] =
             IF i <= Len(r) THEN NamesOf(r)[i] ELSE NamesOf(rows)[i - Len(r)]
  <2> DEFINE a == NamesOf(r)
             b == NamesOf(rows)
  <2>1. a \in Seq(Named) /\ b \in Seq(Named) /\ Len(a) = Len(r) /\ Len(b) = Len(rows)
    BY <1>2
  <2> HIDE DEF a, b
  <2>2. /\ a \o b \in Seq(Named) /\ Len(a \o b) = Len(a) + Len(b)
        /\ \A i \in 1..Len(a) + Len(b) : (a \o b)[i] = IF i <= Len(a) THEN a[i] ELSE b[i - Len(a)]
    BY <2>1, ConcatProperties
  <2>3. /\ a \o b \in Seq(Named) /\ Len(a \o b) = Len(r) + Len(rows)
        /\ \A i \in 1..Len(r) + Len(rows) : (a \o b)[i] = IF i <= Len(r) THEN a[i] ELSE b[i - Len(r)]
    BY <2>1, <2>2, Zenon
  <2> QED
    BY <2>3 DEF a, b
<1>5. ASSUME NEW i \in 1..Len(r) + Len(rows)
      PROVE  NamesOf(r \o rows)[i] = (NamesOf(r) \o NamesOf(rows))[i]
  <2>1. CASE i <= Len(r)
    <3>1. i \in 1..Len(r)
      BY <1>2, <2>1
    <3> QED
      BY <1>1, <1>2, <1>3, <1>4, <2>1, <3>1
  <2>2. CASE ~(i <= Len(r))
    <3>1. i - Len(r) \in 1..Len(rows)
      BY <1>2, <2>2
    <3> QED
      BY <1>1, <1>2, <1>3, <1>4, <2>2, <3>1
  <2> QED
    BY <2>1, <2>2
<1> QED
  BY <1>3, <1>4, <1>5, SeqEqual

\* The names printed after one more line.
LEMMA PrintedLine ==
  ASSUME report \in Seq(Row), NEW n \in Named, NEW b \in BOOLEAN,
         report' = Append(report, [name |-> n, full |-> b])
  PROVE  Printed' = Append(Printed, n) /\ report' \in Seq(Row) /\ Printed \in Seq(Named)
<1> DEFINE row == [name |-> n, full |-> b]
<1>1. row \in Row /\ row.name = n
  BY DEF Row, Named
<1> HIDE DEF row
<1>2. report' = report \o <<row>> /\ <<row>> \in Seq(Row) /\ report' \in Seq(Row)
  BY <1>1, AppendIsConcat, AppendProperties DEF row
<1>3. NamesOf(<<row>>) = <<n>>
  BY <1>1 DEF NamesOf
<1>4. NamesOf(report) \in Seq(Named) /\ NamesOf(report') = NamesOf(report) \o <<n>>
  BY <1>2, <1>3, NamesType, NamesConcat
<1>5. NamesOf(report') = Append(NamesOf(report), n)
  BY <1>4, AppendIsConcat
<1> QED
  BY <1>2, <1>4, <1>5 DEF Printed, NamesOf

\* The names printed after the lines of a page.
LEMMA PrintedPage ==
  ASSUME report \in Seq(Row), NEW page \in Seq(Named),
         report' = report \o [i \in DOMAIN page |-> [name |-> page[i], full |-> TRUE]]
  PROVE  Printed' = Printed \o page /\ report' \in Seq(Row) /\ Printed \in Seq(Named)
<1> DEFINE rows == [i \in DOMAIN page |-> [name |-> page[i], full |-> TRUE]]
<1>1. Len(page) \in Nat /\ DOMAIN page = 1..Len(page) /\ \A i \in 1..Len(page) : page[i] \in Named
  OBVIOUS
<1>2. \A i \in 1..Len(page) : [name |-> page[i], full |-> TRUE] \in Row
  BY <1>1 DEF Row, Named
<1>3. rows \in [1..Len(page) -> Row]
  BY <1>1, <1>2
<1>4. \A i \in 1..Len(page) : rows[i].name = page[i]
  BY <1>1
<1> HIDE DEF rows
<1>5. report' = report \o rows
  BY DEF rows
<1>6. rows \in Seq(Row) /\ Len(rows) = Len(page)
  BY <1>1, <1>3, AsSequence
<1>7. NamesOf(rows) = page
  BY <1>1, <1>4, <1>6, NamesType, SeqEqual
<1>8. report' \in Seq(Row)
  BY <1>5, <1>6, ConcatProperties
<1>9. NamesOf(report') = NamesOf(report) \o page /\ NamesOf(report) \in Seq(Named)
  BY <1>5, <1>6, <1>7, NamesConcat, NamesType
<1> QED
  BY <1>8, <1>9 DEF Printed, NamesOf

\* What the region of every session is.
LEMMA Region ==
  /\ Mine \in ToSet(Tables) /\ ToSet(Tables) \intersect ToSet(Backups) = {}
  /\ Tables \in Seq(ToSet(Tables)) /\ IsInjective(Tables)
  /\ Backups \in Seq(ToSet(Backups)) /\ IsInjective(Backups)
  /\ Len(Tables) \in Nat /\ DOMAIN Tables = 1..Len(Tables)
  /\ Len(Backups) \in Nat /\ DOMAIN Backups = 1..Len(Backups)
BY ControlPlaneAssumption

\* An empty sequence has nothing in it, once.
LEMMA NothingYet ==
  /\ IsInjective(<<>>) /\ ToSet(<<>>) = {}
  /\ \A S : <<>> \in Seq(S)
BY EmptySeq DEF IsInjective, ToSet

\* A session starts with the invariant.
LEMMA ListInit == SessionInit => ListInv
<1> SUFFICES ASSUME SessionInit PROVE ListInv
  OBVIOUS
<1>1. /\ step = "idle" /\ answer = "none" /\ todo = <<>> /\ cursor = 0 /\ report = <<>>
      /\ total = [n \in ToSet(Tables) |-> 0]
      /\ backups \subseteq ToSet(Backups)
  BY DEF SessionInit
<1>2. todo \in Seq(ToSet(Tables)) /\ report \in Seq(Row)
  BY <1>1, NothingYet
<1>3. ListType
  BY <1>1, <1>2 DEF ListType
<1>4. RegionKept /\ ListPlaced
  BY <1>1 DEF RegionKept, ListPlaced
<1>5. Fetched /\ Pending /\ PrintedOnce /\ CountedOnce
  BY <1>1 DEF Fetched, Pending, Going, PrintedOnce, CountedOnce
<1> QED
  BY <1>3, <1>4, <1>5 DEF ListInv

\* The history follows the region in every step, and only grows older.
LEMMA RegionNext ==
  ASSUME IInv, LaterInv, RegionKept, SessionNext
  PROVE  /\ RegionKept'
         /\ StartLater \/ (steady' \subseteq steady /\ ever \subseteq ever' /\ stumbled \subseteq stumbled')
<1> USE DEF RegionKept
<1>1. CASE Beside
  BY <1>1 DEF Beside
<1>2. CASE TtlSettles \/ OtherTtl
  BY <1>2 DEF TtlSettles, OtherTtl
<1>3. CASE OtherBackup
  BY <1>3 DEF OtherBackup
<1>4. CASE StartLater
  BY <1>4 DEF StartLater, Works
<1>5. ASSUME step # "idle", UNCHANGED <<seen, backups, steady, ever>>, Works \/ \E n : Fails(n)
      PROVE  /\ RegionKept'
             /\ steady' \subseteq steady /\ ever \subseteq ever' /\ stumbled \subseteq stumbled'
  BY <1>5 DEF Works, Fails
<1>6. CASE DescribeLimits \/ ListPage \/ ListFails \/ EndList \/ ShowName \/ ShowStatus \/ ShowTtl \/ AddUnits
  BY <1>5, <1>6 DEF DescribeLimits, ListPage, ListFails, EndList, ShowName, ShowStatus, ShowTtl,
     AddUnits, Added, At, Quiet
<1>7. CASE Describe \/ DescribeTtl \/ DescribePitr \/ DescribeReplicas \/ ProbeTtl \/ ExplainTtl
  BY <1>5, <1>7 DEF Describe, DescribeTtl, DescribePitr, DescribeReplicas, Section, ProbeTtl,
     ExplainTtl, At, Quiet
<1>8. CASE UpdateTtl \/ ExplainCall \/ InvalidCall
  BY <1>5, <1>8 DEF UpdateTtl, ExplainCall, InvalidCall, At, Quiet
<1>9. CASE Call
  <2>1. step # "idle" /\ (Works \/ \E n : Fails(n))
    BY <1>9 DEF Call, At
  <2>2. CASE UNCHANGED <<service, backups, steady, ever>>
    BY <1>5, <2>1, <2>2
  <2>3. CASE Effect(later.api)
    <3>1. later.backup \in ToSet(Backups)
      BY <1>9 DEF Call, At, LaterInv, LaterPlaced, Later
    <3>2. backups' \subseteq ToSet(Backups)
      BY <2>3, <3>1 DEF Effect
    <3> QED
      BY <2>1, <2>3, <3>2 DEF Effect, Works, Fails
  <2> QED
    BY <1>9, <2>2, <2>3 DEF Call
<1> QED
  BY <1>1, <1>2, <1>3, <1>4, <1>6, <1>7, <1>8, <1>9
     DEF SessionNext, First, LaterStep, Updated, OtherAlters

\* What stays, and what is listed, is there when it is looked at.
LEMMA SteadyIsPresent ==
  ASSUME RegionKept, step # "idle", NEW n \in ToSet(Tables)
  PROVE  /\ n \in steady => Present(n) /\ n \in Listed(seen, {})
         /\ n \in Listed(seen, {}) => n \in ever
BY Region DEF RegionKept, Listed, Present

\* So are the backups.
LEMMA BackupsSteady ==
  ASSUME RegionKept, step # "idle", NEW b \in ToSet(Backups)
  PROVE  (b \in steady => b \in backups) /\ (b \in backups => b \in ever)
BY Region DEF RegionKept, Listed

\* Steps beside the statement keep it.
LEMMA ListStill ==
  ASSUME ListInv, RegionKept', UNCHANGED <<later, locals>>,
         steady' \subseteq steady, ever \subseteq ever', stumbled \subseteq stumbled'
  PROVE  ListInv'
<1>1. Printed' = Printed /\ Going' = Going
  BY DEF Printed, Going
<1>2. ListType' /\ ListPlaced'
  BY DEF ListInv, ListType, ListPlaced
<1>3. Fetched' /\ Pending'
  BY <1>1 DEF ListInv, Fetched, Pending
<1>4. PrintedOnce'
  BY <1>1 DEF ListInv, PrintedOnce
<1>5. CountedOnce'
  BY <1>1 DEF ListInv, CountedOnce
<1> QED
  BY <1>2, <1>3, <1>4, <1>5 DEF ListInv

\* A statement that ends without a report promises nothing of it.
LEMMA ListEnds ==
  ASSUME ListInv, RegionKept', UNCHANGED <<later, todo, cursor, total>>,
         step' = "done", answer' # "report", report' = report \/ report' = <<>>
  PROVE  ListInv'
<1>1. later.kind \in Listings => report' \in Seq(Row)
  BY NothingYet DEF ListInv, ListType
<1>2. ListType' /\ ListPlaced'
  BY <1>1 DEF ListInv, ListType, ListPlaced
<1>3. Fetched' /\ Pending' /\ PrintedOnce' /\ CountedOnce'
  BY DEF Fetched, Pending, Going, PrintedOnce, CountedOnce
<1> QED
  BY <1>2, <1>3 DEF ListInv

\* Nor does one that lists nothing.
LEMMA ListOther ==
  ASSUME ListInv, RegionKept', UNCHANGED <<later, todo, cursor, total>>,
         later.kind \notin Listings, step' \notin {"idle", "limits", "list", "each", "row"}
  PROVE  ListInv'
<1>1. ListType' /\ ListPlaced'
  BY DEF ListInv, ListType, ListPlaced
<1>2. Fetched' /\ Pending'
  BY DEF Fetched, Pending
<1>3. PrintedOnce' /\ CountedOnce'
  BY DEF Listings, PrintedOnce, CountedOnce
<1> QED
  BY <1>1, <1>2, <1>3 DEF ListInv

\* A listing that has read nothing yet.
LEMMA ListBegins ==
  ASSUME ListInv, RegionKept', UNCHANGED <<later, todo, cursor, total, report, answer>>,
         step \in {"idle", "limits"}, answer = "none", step' # "idle",
         step' = "limits" => later.kind = "show_limits",
         step' = "list" => later.kind \in Listings,
         step' \notin {"each", "row"},
         step' \in {"describe", "rest", "pitr", "replicas"} => later.kind \notin Listings
  PROVE  ListInv'
<1>1. cursor = 0 /\ todo = <<>> /\ report = <<>> /\ \A n \in ToSet(Tables) : total[n] = 0
  BY DEF ListInv, ListPlaced
<1>2. Printed' = <<>> /\ ToSet(todo) = {} /\ ToSet(Printed') = {} /\ IsInjective(todo)
      /\ IsInjective(Printed')
  BY <1>1, NothingYet DEF Printed
<1>3. ListType'
  BY DEF ListInv, ListType
<1>4. ListPlaced'
  BY <1>1, Region DEF ListPlaced
<1>5. Fetched' /\ Pending'
  BY <1>1, <1>2 DEF Fetched, Pending
<1>6. PrintedOnce'
  BY <1>1, <1>2 DEF Going, PrintedOnce
<1>7. CountedOnce'
  BY <1>1, <1>2 DEF Going, CountedOnce
<1> QED
  BY <1>3, <1>4, <1>5, <1>6, <1>7 DEF ListInv

\* SHOW TABLES is done with the first of the tables listed: it leaves it out
\* because of LIKE, or prints it, with its details if it stays and no call fails.
LEMMA ListShows ==
  ASSUME ListInv, RegionKept', step \in {"each", "row"}, later.kind = "show_tables", todo # <<>>,
         UNCHANGED <<later, answer, cursor, total, steady, ever>>, stumbled \subseteq stumbled',
         step' = "each", todo' = Tail(todo),
         \/ Head(todo) \notin later.like /\ report' = report
         \/ /\ Head(todo) \in later.like
            /\ \E b \in BOOLEAN :
                 /\ report' = Append(report, [name |-> Head(todo), full |-> b])
                 /\ ~later.brief /\ Head(todo) \in steady \ stumbled' => b
  PROVE  ListInv'
<1> DEFINE n == Head(todo)
<1>1. todo \in Seq(ToSet(Tables)) /\ IsInjective(todo) /\ ToSet(todo) \subseteq ever
      /\ report \in Seq(Row) /\ answer' = answer
  BY DEF ListInv, ListType, Pending, Listings
<1>2. /\ todo' \in Seq(ToSet(Tables)) /\ IsInjective(todo')
      /\ ToSet(todo') = ToSet(todo) \ {n} /\ n \in ToSet(todo) /\ n \in ToSet(Tables)
  BY <1>1, TailOf
<1>3. /\ IsInjective(Printed) /\ ToSet(Printed) \subseteq ever \intersect later.like
      /\ ToSet(Printed) \intersect ToSet(todo) = {}
      /\ steady \intersect later.like \subseteq ToSet(Printed) \union ToSet(todo)
      /\ ~later.brief => \A i \in DOMAIN report : report[i].name \in steady \ stumbled => report[i].full
  BY DEF ListInv, PrintedOnce, Going
<1>4. answer # "report"
  BY DEF ListInv, ListPlaced, Listings
<1> HIDE DEF n
<1>5. ListPlaced'
  BY <1>4 DEF ListPlaced, ListInv, Listings
<1>6. Fetched' /\ Pending' /\ CountedOnce'
  BY <1>1, <1>2 DEF Fetched, Pending, CountedOnce
<1>7. CASE n \notin later.like /\ report' = report
  <2>1. Printed' = Printed
    BY <1>7 DEF Printed
  <2>2. ListType'
    BY <1>2, <1>7 DEF ListInv, ListType
  <2>3. ~later.brief => \A i \in DOMAIN report' : report'[i].name \in steady' \ stumbled' => report'[i].full
    BY <1>3, <1>7
  <2>4. PrintedOnce'
    BY <1>2, <1>3, <1>7, <2>1, <2>3 DEF PrintedOnce
  <2> QED
    BY <1>5, <1>6, <2>2, <2>4 DEF ListInv
<1>8. ASSUME n \in later.like, NEW b \in BOOLEAN, report' = Append(report, [name |-> n, full |-> b]),
             ~later.brief /\ n \in steady \ stumbled' => b
      PROVE  ListInv'
  <2>1. n \in Named
    BY <1>2 DEF Named
  <2>2. Printed' = Append(Printed, n) /\ report' \in Seq(Row) /\ Printed \in Seq(Named)
    BY <1>1, <1>8, <2>1, PrintedLine
  <2>3. IsInjective(Printed') /\ ToSet(Printed') = ToSet(Printed) \union {n}
    BY <1>2, <1>3, <2>1, <2>2, AppendOf
  <2>4. ListType'
    BY <1>2, <2>2 DEF ListInv, ListType
  <2>5. ~later.brief => \A i \in DOMAIN report' : report'[i].name \in steady' \ stumbled' => report'[i].full
    <3> DEFINE row == [name |-> n, full |-> b]
    <3>1. row \in Row /\ row.name = n /\ row.full = b
      BY <2>1 DEF Row, Named
    <3> HIDE DEF row
    <3>2. report' = Append(report, row)
      BY <1>8 DEF row
    <3>3. /\ Len(report) \in Nat /\ DOMAIN report = 1..Len(report) /\ DOMAIN report' = 1..Len(report) + 1
          /\ \A i \in 1..Len(report) : report'[i] = report[i]
          /\ report'[Len(report) + 1] = row
      BY <1>1, <3>1, <3>2, AppendProperties
    <3>4. \A i \in 1..Len(report) + 1 : i \in 1..Len(report) \/ i = Len(report) + 1
      BY <3>3
    <3>5. ASSUME ~later.brief, NEW i \in 1..Len(report) + 1, report'[i].name \in steady' \ stumbled'
          PROVE  report'[i].full
      <4>1. CASE i \in 1..Len(report)
        <5>1. report'[i] = report[i] /\ i \in DOMAIN report
          BY <3>3, <4>1
        <5>2. report[i].name \in steady \ stumbled
          BY <3>5, <5>1
        <5> QED
          BY <1>3, <3>5, <5>1, <5>2, Zenon
      <4>2. CASE i = Len(report) + 1
        <5>1. report'[i] = row
          BY <3>3, <4>2
        <5>2. n \in steady \ stumbled'
          BY <3>1, <3>5, <5>1
        <5> QED
          BY <1>8, <3>1, <3>5, <5>1, <5>2, Zenon
      <4> QED
        BY <3>4, <4>1, <4>2
    <3> QED
      BY <3>3, <3>5, Zenon
  <2>6. PrintedOnce'
    BY <1>1, <1>2, <1>3, <1>8, <2>3, <2>5 DEF PrintedOnce
  <2> QED
    BY <1>5, <1>6, <2>4, <2>6 DEF ListInv
<1> QED
  BY <1>7, <1>8 DEF n

\* SHOW LIMITS adds the first of the tables listed, if it is there and described.
LEMMA ListAdds == ASSUME ListInv, RegionKept', AddUnits PROVE ListInv'
<1> DEFINE n == Head(todo)
<1>1. /\ step = "each" /\ todo # <<>> /\ later.kind = "show_limits" /\ Added(n)
      /\ UNCHANGED <<later, step, answer, cursor, report, steady, ever>>
  BY DEF AddUnits, At, Quiet
<1>2. todo \in Seq(ToSet(Tables)) /\ IsInjective(todo) /\ ToSet(todo) \subseteq ever
      /\ total \in [ToSet(Tables) -> Nat] /\ report \in Seq(Row)
  BY <1>1 DEF ListInv, ListType, Pending, Listings
<1>3. /\ todo' \in Seq(ToSet(Tables)) /\ IsInjective(todo')
      /\ ToSet(todo') = ToSet(todo) \ {n} /\ n \in ToSet(todo) /\ n \in ToSet(Tables)
  BY <1>1, <1>2, TailOf DEF Added
<1>4. \A m \in ToSet(Tables) :
        /\ total[m] <= 1
        /\ total[m] = 1 => m \in ever /\ m \notin ToSet(todo)
        /\ m \in steady \ stumbled => total[m] = 1 \/ m \in ToSet(todo)
  BY <1>1 DEF ListInv, CountedOnce, Going
<1>5. n \in steady => Present(n)
  BY <1>1, <1>3, SteadyIsPresent DEF ListInv
<1>6. answer # "report"
  BY <1>1 DEF ListInv, ListPlaced, Listings
<1> HIDE DEF n
<1>7. /\ stumbled \subseteq stumbled'
      /\ \/ total' = [total EXCEPT ![n] = @ + 1]
         \/ total' = total /\ (n \notin steady \/ n \in stumbled')
  BY <1>1, <1>5 DEF Added, Works, Fails
<1>8. total' \in [ToSet(Tables) -> Nat]
  BY <1>2, <1>3, <1>7
<1>9. ListType' /\ ListPlaced'
  BY <1>1, <1>2, <1>3, <1>6, <1>8 DEF ListInv, ListType, ListPlaced, Listings
<1>10. Fetched' /\ Pending' /\ PrintedOnce'
  BY <1>1, <1>2, <1>3 DEF Fetched, Pending, PrintedOnce
<1>11. total[n] = 0
  BY <1>2, <1>3, <1>4
<1>12. CountedOnce'
  <2> SUFFICES ASSUME NEW m \in ToSet(Tables)
               PROVE  /\ total'[m] <= 1
                      /\ total'[m] = 1 => m \in ever /\ m \notin ToSet(todo')
                      /\ m \in steady \ stumbled' => total'[m] = 1 \/ m \in ToSet(todo')
    BY <1>1 DEF CountedOnce
  <2>1. CASE m = n
    BY <1>2, <1>3, <1>7, <1>11, <2>1
  <2>2. CASE m # n
    <3>1. total'[m] = total[m]
      BY <1>2, <1>7, <2>2
    <3> QED
      BY <1>3, <1>4, <1>7, <2>2, <3>1
  <2> QED
    BY <2>1, <2>2
<1> QED
  BY <1>9, <1>10, <1>12 DEF ListInv

\* The last table has been handled: everything is printed, or in the sum.
LEMMA ListDone == ASSUME ListInv, RegionKept', EndList PROVE ListInv'
<1>1. /\ step = "each" /\ todo = <<>> /\ step' = "done" /\ answer' = "report"
      /\ UNCHANGED <<later, todo, cursor, report, total, steady, ever, stumbled>>
  BY DEF EndList, At, Quiet, End, Works
<1>2. Printed' = Printed
  BY <1>1 DEF Printed
<1>3. ListType' /\ ListPlaced'
  BY <1>1 DEF ListInv, ListType, ListPlaced
<1>4. Fetched' /\ Pending'
  BY <1>1 DEF Fetched, Pending
<1>5. PrintedOnce' /\ CountedOnce'
  BY <1>1, <1>2 DEF ListInv, Going, PrintedOnce, CountedOnce
<1> QED
  BY <1>3, <1>4, <1>5 DEF ListInv

\* A page of ListTables: what it holds was not listed before, and is there.
LEMMA ListTablesPage ==
  ASSUME ListInv, RegionKept', ListPage, later.kind # "show_backups", answer = "none", later \in Later
  PROVE  ListInv'
<1>1. PICK upto \in cursor..Len(Tables), more \in BOOLEAN :
        /\ IF more THEN upto > cursor ELSE upto = Len(Tables)
        /\ \E page \in Pages(Tables, Listed(seen, {}), cursor, upto) :
             AfterPage(page, more, upto) /\ todo' = todo \o page /\ UNCHANGED report
  BY DEF ListPage
<1>2. PICK page \in Pages(Tables, Listed(seen, {}), cursor, upto) :
        AfterPage(page, more, upto) /\ todo' = todo \o page /\ UNCHANGED report
  BY <1>1
<1>3. /\ step = "list" /\ UNCHANGED <<later, total, steady, ever, stumbled>>
      /\ later.kind \in {"show_tables", "show_limits"}
  BY DEF ListPage, At, Works, Quiet, ListInv, ListPlaced, Listings
<1>4. cursor \in Nat /\ todo \in Seq(ToSet(Tables)) /\ total \in [ToSet(Tables) -> Nat]
  BY DEF ListInv, ListType
<1>5. /\ report = <<>> /\ cursor <= Len(Tables)
      /\ \A n \in ToSet(Tables) : total[n] = 0
  BY <1>3 DEF ListInv, ListPlaced
<1>6. IsInjective(todo) /\ ToSet(todo) \subseteq ever
  BY <1>3 DEF ListInv, Pending
<1>7. /\ \A n \in ToSet(todo) : \E p \in 1..cursor : n = Tables[p]
      /\ \A p \in 1..cursor : Tables[p] \in steady => Tables[p] \in ToSet(todo)
  BY <1>3 DEF ListInv, Fetched
<1>8. upto \in Nat /\ cursor <= upto /\ upto <= Len(Tables) /\ Len(Tables) \in Nat
  <2>1. Len(Tables) \in Nat /\ upto \in cursor..Len(Tables)
    BY Region
  <2> QED
    BY <1>4, <2>1
<1>9. /\ page \in Seq(ToSet(Tables)) /\ IsInjective(page)
      /\ \A n : n \in ToSet(page) <=> n \in Listed(seen, {}) /\ \E p \in cursor + 1 .. upto : n = Tables[p]
  <2>1. Tables \in Seq(ToSet(Tables)) /\ IsInjective(Tables)
    BY Region
  <2>2. PageExact(page, Tables, Listed(seen, {}), cursor, upto)
    BY <1>4, <2>1, PageHolds
  <2> QED
    BY <2>2 DEF PageExact
<1>10. ToSet(todo) \intersect ToSet(page) = {}
  <2> SUFFICES ASSUME NEW n \in ToSet(todo), n \in ToSet(page) PROVE FALSE
    OBVIOUS
  <2>1. PICK p \in 1..cursor : n = Tables[p]
    BY <1>7
  <2>2. PICK q \in cursor + 1 .. upto : n = Tables[q]
    BY <1>9
  <2>3. p \in DOMAIN Tables /\ q \in DOMAIN Tables /\ p # q
    BY <1>4, <1>8, Region
  <2> QED
    BY <2>1, <2>2, <2>3, Region DEF IsInjective
<1>11. /\ todo' \in Seq(ToSet(Tables)) /\ IsInjective(todo')
       /\ ToSet(todo') = ToSet(todo) \union ToSet(page)
  BY <1>2, <1>4, <1>6, <1>9, <1>10, ConcatOf
<1>12. ToSet(page) \subseteq ever
  <2> SUFFICES ASSUME NEW n \in ToSet(page) PROVE n \in ever
    OBVIOUS
  <2>1. n \in Listed(seen, {}) /\ n \in ToSet(Tables)
    <3>1. PICK q \in cursor + 1 .. upto : n = Tables[q]
      BY <1>9
    <3>2. q \in DOMAIN Tables
      BY <1>4, <1>8, Region
    <3> QED
      BY <1>9, <3>1, <3>2 DEF ToSet
  <2> QED
    BY <1>3, <2>1, SteadyIsPresent DEF ListInv
<1>13. \A p \in 1..upto : Tables[p] \in steady => Tables[p] \in ToSet(todo')
  <2> SUFFICES ASSUME NEW p \in 1..upto, Tables[p] \in steady PROVE Tables[p] \in ToSet(todo')
    OBVIOUS
  <2>1. CASE p <= cursor
    BY <1>4, <1>7, <1>11, <2>1
  <2>2. CASE p > cursor
    <3>1. p \in cursor + 1 .. upto /\ p \in DOMAIN Tables
      BY <1>4, <1>8, <2>2, Region
    <3>2. Tables[p] \in ToSet(Tables)
      BY <3>1 DEF ToSet
    <3>3. Tables[p] \in Listed(seen, {})
      BY <1>3, <3>2, SteadyIsPresent DEF ListInv
    <3> QED
      BY <1>9, <1>11, <3>1, <3>3
  <2> QED
    BY <1>4, <1>8, <2>1, <2>2
<1>14. \A n \in ToSet(todo') : \E p \in 1..upto : n = Tables[p]
  <2> SUFFICES ASSUME NEW n \in ToSet(todo') PROVE \E p \in 1..upto : n = Tables[p]
    OBVIOUS
  <2>1. (\E p \in 1..cursor : n = Tables[p]) \/ (\E p \in cursor + 1 .. upto : n = Tables[p])
    BY <1>7, <1>9, <1>11
  <2>2. \A p : p \in 1..cursor \/ p \in cursor + 1 .. upto => p \in 1..upto
    BY <1>4, <1>8
  <2> QED
    BY <2>1, <2>2
<1>15. /\ step' \in {"list", "each"} /\ answer' = "none"
       /\ step' = "list" => cursor' = upto
       /\ step' = "each" => cursor' = cursor /\ upto = Len(Tables)
  BY <1>1, <1>2, <1>3 DEF AfterPage
<1>16. report' = <<>> /\ ToSet(Printed') = {} /\ IsInjective(Printed')
  BY <1>2, <1>5, NothingYet DEF Printed
<1>17. ListType'
  BY <1>3, <1>4, <1>8, <1>11, <1>15, <1>16, NothingYet DEF ListType
<1>18. ListPlaced'
  BY <1>3, <1>5, <1>8, <1>15, <1>16 DEF ListPlaced, Listings
<1>19. Fetched' /\ Pending'
  BY <1>3, <1>6, <1>11, <1>12, <1>13, <1>14, <1>15 DEF Fetched, Pending
<1>20. \A n \in ToSet(Tables) : step' # "list" /\ n \in steady => n \in ToSet(todo')
  <2> SUFFICES ASSUME NEW n \in ToSet(Tables), step' # "list", n \in steady PROVE n \in ToSet(todo')
    OBVIOUS
  <2>1. PICK p \in DOMAIN Tables : n = Tables[p]
    BY DEF ToSet
  <2>2. p \in 1..upto
    <3>1. DOMAIN Tables = 1..Len(Tables)
      BY Region
    <3> QED
      BY <1>15, <3>1
  <2> QED
    BY <1>13, <2>1, <2>2
<1>21. PrintedOnce'
  <2>1. later.kind = "show_tables" => later.like \subseteq ToSet(Tables)
    BY DEF Later
  <2> QED
    BY <1>3, <1>16, <1>20, <2>1 DEF PrintedOnce
<1>22. CountedOnce'
  BY <1>3, <1>5, <1>20 DEF CountedOnce
<1> QED
  BY <1>17, <1>18, <1>19, <1>21, <1>22 DEF ListInv

\* A page of ListBackups is printed as it comes.
LEMMA ListBackupsPage ==
  ASSUME ListInv, RegionKept', ListPage, later.kind = "show_backups", answer = "none", later \in Later
  PROVE  ListInv'
<1> DEFINE shown == backups \intersect later.like
<1>1. PICK upto \in cursor..Len(Backups), more \in BOOLEAN :
        /\ IF more THEN upto > cursor ELSE upto = Len(Backups)
        /\ \E page \in Pages(Backups, shown, cursor, upto) :
             /\ AfterPage(page, more, upto) /\ UNCHANGED todo
             /\ report' = report \o [i \in DOMAIN page |-> [name |-> page[i], full |-> TRUE]]
  BY DEF ListPage
<1>2. PICK page \in Pages(Backups, shown, cursor, upto) :
        /\ AfterPage(page, more, upto) /\ UNCHANGED todo
        /\ report' = report \o [i \in DOMAIN page |-> [name |-> page[i], full |-> TRUE]]
  BY <1>1
<1>3. step = "list" /\ UNCHANGED <<later, total, steady, ever, stumbled>>
  BY DEF ListPage, At, Works, Quiet
<1>4. /\ cursor \in Nat /\ todo \in Seq(ToSet(Tables)) /\ total \in [ToSet(Tables) -> Nat]
      /\ report \in Seq(Row)
  BY DEF ListInv, ListType, Listings
<1>5. /\ todo = <<>> /\ cursor <= Len(Backups)
      /\ \A n \in ToSet(Tables) : total[n] = 0
  BY <1>3 DEF ListInv, ListPlaced
<1>6. IsInjective(Printed) /\ ToSet(Printed) \subseteq ever \intersect later.like
  BY <1>3 DEF ListInv, PrintedOnce, Going
<1>7. /\ \A n \in ToSet(Printed) : \E p \in 1..cursor : n = Backups[p]
      /\ \A p \in 1..cursor :
           Backups[p] \in steady \intersect later.like => Backups[p] \in ToSet(Printed)
  BY <1>3 DEF ListInv, Fetched
<1>8. upto \in Nat /\ cursor <= upto /\ upto <= Len(Backups) /\ Len(Backups) \in Nat
  <2>1. Len(Backups) \in Nat /\ upto \in cursor..Len(Backups)
    BY Region
  <2> QED
    BY <1>4, <2>1
<1>9. /\ page \in Seq(ToSet(Backups)) /\ IsInjective(page)
      /\ \A n : n \in ToSet(page) <=> n \in shown /\ \E p \in cursor + 1 .. upto : n = Backups[p]
  <2>1. Backups \in Seq(ToSet(Backups)) /\ IsInjective(Backups)
    BY Region
  <2>2. PageExact(page, Backups, shown, cursor, upto)
    BY <1>4, <2>1, PageHolds
  <2> QED
    BY <2>2 DEF PageExact
<1>10. page \in Seq(Named)
  <2>1. ToSet(Backups) \subseteq Named
    BY DEF Named
  <2> QED
    BY <1>9, <2>1
<1>11. Printed' = Printed \o page /\ report' \in Seq(Row) /\ Printed \in Seq(Named)
  BY <1>2, <1>4, <1>10, PrintedPage
<1>12. ToSet(Printed) \intersect ToSet(page) = {}
  <2> SUFFICES ASSUME NEW n \in ToSet(Printed), n \in ToSet(page) PROVE FALSE
    OBVIOUS
  <2>1. PICK p \in 1..cursor : n = Backups[p]
    BY <1>7
  <2>2. PICK q \in cursor + 1 .. upto : n = Backups[q]
    BY <1>9
  <2>3. p \in DOMAIN Backups /\ q \in DOMAIN Backups /\ p # q
    BY <1>4, <1>8, Region
  <2> QED
    BY <2>1, <2>2, <2>3, Region DEF IsInjective
<1>13. IsInjective(Printed') /\ ToSet(Printed') = ToSet(Printed) \union ToSet(page)
  BY <1>6, <1>9, <1>10, <1>11, <1>12, ConcatOf
<1>14. ToSet(page) \subseteq ever \intersect later.like
  <2>1. backups \subseteq ever
    BY <1>3 DEF ListInv, RegionKept, Listed
  <2> QED
    BY <1>9, <2>1
<1>15. \A p \in 1..upto :
         Backups[p] \in steady \intersect later.like => Backups[p] \in ToSet(Printed')
  <2> SUFFICES ASSUME NEW p \in 1..upto, Backups[p] \in steady \intersect later.like
               PROVE  Backups[p] \in ToSet(Printed')
    OBVIOUS
  <2>1. CASE p <= cursor
    BY <1>4, <1>7, <1>13, <2>1
  <2>2. CASE p > cursor
    <3>1. p \in cursor + 1 .. upto /\ p \in DOMAIN Backups
      BY <1>4, <1>8, <2>2, Region
    <3>2. Backups[p] \in ToSet(Backups)
      BY <3>1 DEF ToSet
    <3>3. Backups[p] \in shown
      BY <1>3, <3>2, BackupsSteady DEF ListInv
    <3> QED
      BY <1>9, <1>13, <3>1, <3>3
  <2> QED
    BY <1>4, <1>8, <2>1, <2>2
<1>16. \A n \in ToSet(Printed') : \E p \in 1..upto : n = Backups[p]
  <2> SUFFICES ASSUME NEW n \in ToSet(Printed') PROVE \E p \in 1..upto : n = Backups[p]
    OBVIOUS
  <2>1. (\E p \in 1..cursor : n = Backups[p]) \/ (\E p \in cursor + 1 .. upto : n = Backups[p])
    BY <1>7, <1>9, <1>13
  <2>2. \A p : p \in 1..cursor \/ p \in cursor + 1 .. upto => p \in 1..upto
    BY <1>4, <1>8
  <2> QED
    BY <2>1, <2>2
<1>17. \/ step' = "list" /\ answer' = "none" /\ cursor' = upto
       \/ step' = "done" /\ answer' = "report" /\ cursor' = cursor /\ upto = Len(Backups)
  BY <1>1, <1>2, <1>3 DEF AfterPage, End
<1>18. todo' = <<>> /\ ToSet(todo') = {} /\ IsInjective(todo')
  BY <1>2, <1>5, NothingYet
<1>19. ListType'
  BY <1>2, <1>3, <1>4, <1>8, <1>11, <1>17 DEF ListType
<1>20. ListPlaced'
  BY <1>3, <1>5, <1>8, <1>17, <1>18 DEF ListPlaced, Listings
<1>21. Fetched' /\ Pending' /\ CountedOnce'
  BY <1>3, <1>15, <1>16, <1>17, <1>18 DEF Fetched, Pending, CountedOnce
<1>22. PrintedOnce'
  <2>1. later.like \subseteq ToSet(Backups)
    BY DEF Later
  <2>2. step' # "list" => steady \intersect later.like \subseteq ToSet(Printed')
    <3> SUFFICES ASSUME step' # "list", NEW n \in steady \intersect later.like
                 PROVE  n \in ToSet(Printed')
      OBVIOUS
    <3>1. PICK p \in DOMAIN Backups : n = Backups[p]
      BY <2>1 DEF ToSet
    <3>2. p \in 1..upto
      BY <1>17, Region
    <3> QED
      BY <1>15, <3>1, <3>2
  <2> QED
    BY <1>3, <1>6, <1>13, <1>14, <1>18, <2>2 DEF PrintedOnce
<1> QED
  BY <1>19, <1>20, <1>21, <1>22 DEF ListInv

\* The steps of the second statement keep it.
LEMMA ListLater ==
  ASSUME ListInv, RegionKept', LaterInv, LaterStep, ~StartLater =>
           steady' \subseteq steady /\ ever \subseteq ever' /\ stumbled \subseteq stumbled'
  PROVE  ListInv'
<1>0. /\ answer = "none" /\ step # "done" /\ later \in Later /\ UNCHANGED later
      /\ step \in {"probe", "update"} => later.kind = "ttl"
      /\ step = "request" => later.kind = "call"
      /\ ListPlaced
  BY LaterRuns DEF LaterInv, LaterPlaced, ListInv
<1> USE DEF At, Quiet
<1>1. CASE StartLater
  <2>1. step = "idle" /\ UNCHANGED <<todo, cursor, total>> /\ later.kind # "none"
    BY <1>1 DEF StartLater
  <2>2. CASE Error("bad_pattern")
    BY <1>0, <2>1, <2>2, ListEnds DEF Error, End
  <2>3. CASE step' = FirstStep(later.kind) /\ UNCHANGED <<answer, report>>
    <3>1. later.kind \in {"show_limits", "show_create", "describe", "show_tables", "show_backups",
                          "ttl", "call"}
      BY <1>0, <2>1 DEF Later
    <3>2. \/ later.kind \in {"show_tables", "show_backups"} /\ step' = "list"
          \/ later.kind = "show_limits" /\ step' = "limits"
          \/ later.kind \in {"show_create", "describe"} /\ step' = "describe"
          \/ later.kind \in {"ttl", "call"} /\ step' \in {"probe", "request"}
      BY <2>3, <3>1 DEF FirstStep
    <3> QED
      BY <1>0, <2>1, <2>3, <3>2, ListBegins DEF Listings
  <2> QED
    BY <1>1, <2>2, <2>3 DEF StartLater
<1>2. CASE DescribeLimits
  <2>1. CASE Error("service_error")
    BY <1>0, <2>1, ListEnds DEF Error, End
  <2>2. CASE ~Error("service_error")
    <3>1. step = "limits" /\ step' = "list" /\ UNCHANGED <<answer, report, todo, cursor, total>>
      BY <1>2, <2>2 DEF DescribeLimits
    <3>2. later.kind = "show_limits"
      BY <1>0, <3>1 DEF ListPlaced
    <3> QED
      BY <1>0, <3>1, <3>2, ListBegins DEF Listings
  <2> QED
    BY <2>1, <2>2
<1>3. CASE ListPage
  BY <1>0, <1>3, ListTablesPage, ListBackupsPage
<1>4. CASE ListFails
  BY <1>0, <1>4, ListEnds DEF ListFails, Error, End
<1>5. CASE EndList
  BY <1>5, ListDone
<1>6. CASE ShowName
  BY <1>0, <1>6, ListShows DEF ShowName, Line, Works
<1>7. CASE ShowStatus
  <2>1. /\ step = "each" /\ todo # <<>> /\ later.kind = "show_tables"
        /\ Head(todo) \in later.like /\ ~later.brief
        /\ UNCHANGED <<later, answer, cursor, total, steady, ever>>
    BY <1>7 DEF ShowStatus
  <2>2. stumbled \subseteq stumbled'
    BY <1>7 DEF ShowStatus, Works, Fails
  <2>3. CASE Line(Head(todo), FALSE) /\ step' = "each"
    <3>1. Head(todo) \notin steady \/ Head(todo) \in stumbled'
      <4>1. todo \in Seq(ToSet(Tables)) /\ IsInjective(todo)
        BY <2>1 DEF ListInv, ListType, Pending
      <4>2. Head(todo) \in ToSet(Tables)
        BY <2>1, <4>1, TailOf
      <4>3. Head(todo) \in steady => Present(Head(todo))
        BY <2>1, <4>2, SteadyIsPresent DEF ListInv
      <4>4. \/ Present(Head(todo)) /\ step' = "row"
            \/ ~Present(Head(todo)) \/ Fails(Head(todo))
        BY <1>7 DEF ShowStatus
      <4> QED
        BY <2>3, <4>3, <4>4 DEF Fails
    <3> QED
      BY <2>1, <2>2, <2>3, <3>1, ListShows DEF Line
  <2>4. CASE step' = "row" /\ UNCHANGED <<report, todo>>
    <3>1. Printed' = Printed
      BY <2>4 DEF Printed
    <3>2. ListType' /\ ListPlaced'
      BY <1>0, <2>1, <2>4 DEF ListInv, ListType, ListPlaced
    <3>3. Fetched' /\ Pending' /\ CountedOnce'
      BY <2>1, <2>4 DEF ListInv, Fetched, Pending, CountedOnce
    <3>4. PrintedOnce'
      BY <2>1, <2>2, <2>4, <3>1 DEF ListInv, Going, PrintedOnce
    <3> QED
      BY <3>2, <3>3, <3>4 DEF ListInv
  <2> QED
    BY <1>7, <2>1, <2>3, <2>4 DEF ShowStatus
<1>8. CASE ShowTtl
  <2>1. /\ step = "row" /\ step' = "each" /\ todo # <<>> /\ later.kind = "show_tables"
        /\ Head(todo) \in later.like /\ ~later.brief
        /\ UNCHANGED <<later, answer, cursor, total, steady, ever>>
    BY <1>0, <1>8 DEF ShowTtl, ListPlaced
  <2>2. todo \in Seq(ToSet(Tables)) /\ IsInjective(todo)
    BY <2>1 DEF ListInv, ListType, Pending
  <2>3. Head(todo) \in ToSet(Tables)
    BY <2>1, <2>2, TailOf
  <2>4. Head(todo) \in steady => Present(Head(todo))
    BY <2>1, <2>3, SteadyIsPresent DEF ListInv
  <2>5. PICK b \in BOOLEAN : Line(Head(todo), b) /\ (Head(todo) \in steady \ stumbled' => b)
    <3>1. CASE Works /\ Line(Head(todo), Present(Head(todo)))
      <4>1. Present(Head(todo)) \in BOOLEAN
        BY DEF Present
      <4> QED
        BY <2>4, <3>1, <4>1
    <3>2. CASE Fails(Head(todo)) /\ Line(Head(todo), FALSE)
      BY <3>2 DEF Fails
    <3> QED
      BY <1>8, <3>1, <3>2 DEF ShowTtl
  <2>6. stumbled \subseteq stumbled'
    BY <1>8 DEF ShowTtl, Works, Fails
  <2> QED
    BY <2>1, <2>5, <2>6, ListShows DEF Line
<1>9. CASE AddUnits
  BY <1>9, ListAdds
<1>10. CASE Describe \/ DescribeTtl \/ DescribePitr \/ DescribeReplicas
  <2>1. /\ step \in {"describe", "rest", "pitr", "replicas"} /\ UNCHANGED <<todo, cursor, total>>
        /\ step' \in {"rest", "pitr", "replicas", "done"}
    BY <1>10 DEF Describe, DescribeTtl, DescribePitr, DescribeReplicas, Error, End
  <2>2. later.kind \notin Listings
    BY <1>0, <2>1 DEF ListPlaced
  <2> QED
    BY <1>0, <2>1, <2>2, ListOther
<1>11. CASE ProbeTtl \/ ExplainTtl \/ UpdateTtl \/ ExplainCall \/ InvalidCall \/ Call
  <2>1. /\ step \in {"probe", "update", "request"} /\ UNCHANGED <<todo, cursor, total>>
        /\ step' \in {"update", "done"}
    BY <1>11 DEF ProbeTtl, ExplainTtl, UpdateTtl, ExplainCall, InvalidCall, Call, Error, End
  <2> QED
    BY <1>0, <2>1, ListOther DEF Listings
<1> QED
  BY <1>1, <1>2, <1>3, <1>4, <1>5, <1>6, <1>7, <1>8, <1>9, <1>10, <1>11 DEF LaterStep

\* Every step of the session keeps it.
LEMMA ListNext == IInv /\ LaterInv /\ ListInv /\ [SessionNext]_allvars => ListInv'
<1> SUFFICES ASSUME IInv, LaterInv, ListInv, [SessionNext]_allvars PROVE ListInv'
  OBVIOUS
<1>1. CASE UNCHANGED allvars
  <2>1. RegionKept'
    BY <1>1 DEF ListInv, RegionKept, Listed
  <2> QED
    BY <1>1, <2>1, ListStill
<1>2. CASE SessionNext
  <2>1. /\ RegionKept'
        /\ ~StartLater => steady' \subseteq steady /\ ever \subseteq ever' /\ stumbled \subseteq stumbled'
    BY <1>2, RegionNext DEF ListInv
  <2>2. CASE LaterStep
    BY <2>1, <2>2, ListLater
  <2>3. CASE ~LaterStep
    <3>1. UNCHANGED <<later, locals>> /\ ~StartLater
      BY <1>2, <2>3 DEF SessionNext, First, Updated, OtherAlters, Beside, TtlSettles, OtherTtl,
         OtherBackup, LaterStep
    <3> QED
      BY <2>1, <3>1, ListStill
  <2> QED
    BY <2>2, <2>3
<1> QED
  BY <1>1, <1>2

\* What SHOW TABLES, SHOW BACKUPS and SHOW LIMITS report, over any number of
\* pages and whatever comes and goes meanwhile, has everything that stayed once,
\* and nothing that was never there.
THEOREM ListingExactCorrect == SessionSpec => []ListingExact
<1>1. SessionInit => IInv /\ LaterInv /\ ListInv
  BY IInvInit, LaterInit, ListInit
<1>2. IInv /\ LaterInv /\ ListInv /\ [SessionNext]_allvars => (IInv /\ LaterInv /\ ListInv)'
  BY IInvNext, LaterNext, ListNext
<1>3. LaterInv /\ ListInv => ListingExact
  <2> SUFFICES ASSUME LaterInv, ListInv, answer = "report" PROVE ListingExact
    BY DEF ListingExact
  <2>1. later.kind \in Listings => ToSet(todo) = {}
    BY NothingYet DEF ListInv, ListPlaced
  <2>2. step # "list"
    BY DEF LaterInv, LaterPlaced
  <2>3. later.kind \in {"show_tables", "show_backups"} =>
          /\ IsInjective(Printed)
          /\ steady \intersect later.like \subseteq ToSet(Printed)
          /\ ToSet(Printed) \subseteq ever \intersect later.like
          /\ later.kind = "show_tables" /\ ~later.brief =>
               \A i \in DOMAIN report : report[i].name \in steady \ stumbled => report[i].full
    BY <2>1, <2>2 DEF ListInv, PrintedOnce, Going, Listings
  <2>4. later.kind = "show_limits" =>
          \A n \in ToSet(Tables) :
            /\ total[n] <= 1
            /\ total[n] = 1 => n \in ever
            /\ n \in steady \ stumbled => total[n] = 1
    BY <2>1, <2>2 DEF ListInv, CountedOnce, Going, Listings
  <2> QED
    BY <2>3, <2>4 DEF ListingExact
<1> QED
  BY <1>1, <1>2, <1>3, PTL DEF SessionSpec
=============================================================================
