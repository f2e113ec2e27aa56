-------------------------- MODULE TableLifecycle --------------------------
(***************************************************************************)
(* CREATE TABLE and DROP TABLE (create_table_executor, drop_table_executor) *)
(* with the waiters of AwsDDBClient, while other clients create and delete  *)
(* the same table.                                                          *)
(*                                                                          *)
(* The service is external.  A table goes through CREATING, ACTIVE and      *)
(* DELETING; `seen' is what DescribeTable answers, which lags behind only   *)
(* while a table is new.  Each table of that name has its own number.       *)
(***************************************************************************)
EXTENDS Integers

CONSTANTS Commands,     \* the statements considered
          Timeout,      \* waiter_timeout, in units of the first sleep
          Cap,          \* the longest sleep, in the same units
          MaxOthers,    \* bound: requests by other clients
          MaxErrors     \* bound: DescribeTable calls that fail on their own

\* IF [NOT] EXISTS asks for the probe; `valid' is the answer of
\* validate_key_schemas, TRUE for DROP; `budget' is whether the client that
\* runs the statement has a waiter_timeout.
Command == [verb: {"create", "drop"}, probe: BOOLEAN, nowait: BOOLEAN,
            explain: BOOLEAN, valid: BOOLEAN, budget: BOOLEAN]

ASSUME LifecycleAssumption ==
  /\ Commands \subseteq Command
  /\ \A c \in Commands : c.verb = "drop" => c.valid
  /\ Timeout \in Nat /\ Cap \in Nat \ {0}
  /\ MaxOthers \in Nat /\ MaxErrors \in Nat

VARIABLES
  cmd,      \* the statement, fixed
  pc,       \* where its executor is
  outcome,  \* what it returned, "none" while it runs
  mine,     \* the number of the table CreateTable made or DeleteTable deleted
  interval, \* how long the waiter sleeps next
  waited,   \* how much of its budget it has slept, 0 if it has none
  table,    \* the table's status, "ABSENT" when there is none
  number,   \* which table it is
  seen,     \* what DescribeTable says
  activated,\* history: the tables that became ACTIVE
  removed,  \* history: the tables that are gone
  others,   \* number of requests by other clients
  errors    \* number of failed DescribeTable calls

executor == <<pc, outcome, mine, interval, waited>>
service == <<table, number, seen, activated, removed>>
vars == <<cmd, executor, service, others, errors>>

Init ==
  /\ cmd \in Commands
  /\ pc = "start" /\ outcome = "none" /\ mine = 0
  /\ interval = 1 /\ waited = 0
  /\ table \in {"ABSENT", "ACTIVE"} /\ seen = table
  /\ number = IF table = "ABSENT" THEN 0 ELSE 1
  /\ activated = 1..number /\ removed = {}
  /\ others = 0 /\ errors = 0

Return(what) == pc' = "done" /\ outcome' = what /\ UNCHANGED <<mine, interval, waited>>

Goto(where) == pc' = where /\ UNCHANGED <<outcome, mine, interval, waited>>

Untouched == UNCHANGED <<cmd, service, others>>

-----------------------------------------------------------------------------
(***************************************************************************)
(* The executors.                                                          *)
(***************************************************************************)

Start ==
  /\ pc = "start"
  /\ IF ~cmd.valid THEN Return("invalid")
     ELSE Goto(IF cmd.probe THEN "probe" ELSE "request")
  /\ Untouched /\ UNCHANGED errors

\* The probe takes any failure of DescribeTable for "no such table".
Probed(exists) ==
  IF cmd.verb = "create"
  THEN IF exists THEN Return(IF cmd.explain THEN "explain" ELSE "CREATE")
       ELSE Goto("request")
  ELSE IF exists THEN Goto("request") ELSE Return("empty")

Probe ==
  /\ pc = "probe"
  /\ Probed(seen # "ABSENT")
  /\ Untouched /\ UNCHANGED errors

ProbeFails ==
  /\ pc = "probe" /\ errors < MaxErrors
  /\ errors' = errors + 1
  /\ Probed(FALSE)
  /\ Untouched

ExplainRequest ==
  /\ pc = "request" /\ cmd.explain
  /\ Return("explain")
  /\ Untouched /\ UNCHANGED errors

\* Faulty variant: NOWAIT is not looked at, the waiter is never entered.
NeverWait ==
  pc' = "done" /\ outcome' = IF cmd.verb = "create" THEN "CREATE" ELSE "DROP"

\* After the request succeeded: NOWAIT returns at once.
ThenWait ==
  IF cmd.nowait
  THEN pc' = "done" /\ outcome' = IF cmd.verb = "create" THEN "CREATE" ELSE "DROP"
  ELSE pc' = "wait" /\ UNCHANGED outcome

CreateTable ==
  /\ pc = "request" /\ ~cmd.explain /\ cmd.verb = "create"
  /\ IF table = "ABSENT"
     THEN /\ table' = "CREATING" /\ number' = number + 1 /\ mine' = number'
          /\ ThenWait
          /\ UNCHANGED <<seen, activated, removed, interval, waited>>
     ELSE Return("in_use") /\ UNCHANGED service
  /\ UNCHANGED <<cmd, others, errors>>

DeleteTable ==
  /\ pc = "request" /\ ~cmd.explain /\ cmd.verb = "drop"
  /\ IF table = "ACTIVE"
     THEN /\ table' = "DELETING" /\ seen' = "DELETING" /\ mine' = number
          /\ ThenWait
          /\ UNCHANGED <<number, activated, removed, interval, waited>>
     ELSE /\ Return(IF table = "ABSENT" THEN "not_found" ELSE "in_use")
          /\ UNCHANGED service
  /\ UNCHANGED <<cmd, others, errors>>

\* CreateTable or DeleteTable is refused for another reason.
RequestFails ==
  /\ pc = "request"
  /\ Return("service_error")
  /\ Untouched /\ UNCHANGED errors

-----------------------------------------------------------------------------
(***************************************************************************)
(* wait_for_table_active and wait_for_table_gone.                          *)
(***************************************************************************)

\* Faulty variant: the budget is compared with the next sleep.
ExpiresByInterval == cmd.budget /\ interval > Cap

Expired == cmd.budget /\ waited >= Timeout

Doubled(n) == IF n * 2 <= Cap THEN n * 2 ELSE Cap

\* Faulty variant: the clock is started anew in every iteration.
PollAgainRestarted ==
  IF Expired THEN Return("timed_out")
  ELSE /\ waited' = IF cmd.budget THEN interval ELSE 0
       /\ interval' = Doubled(interval)
       /\ UNCHANGED <<pc, outcome, mine>>

\* The end of an iteration: give up, or sleep and poll again.  A poll itself
\* takes no time, and without a budget nobody reads the clock.
PollAgain ==
  IF Expired THEN Return("timed_out")
  ELSE /\ waited' = IF cmd.budget THEN waited + interval ELSE 0
       /\ interval' = Doubled(interval)
       /\ UNCHANGED <<pc, outcome, mine>>

\* Faulty variant: a table that can be described is taken for ready.
PollActiveShown ==
  /\ pc = "wait" /\ cmd.verb = "create"
  /\ IF seen = "ABSENT" THEN PollAgain ELSE Return("CREATE")
  /\ Untouched /\ UNCHANGED errors

\* Not-found is taken for eventual consistency; CREATING and UPDATING go on.
PollActive ==
  /\ pc = "wait" /\ cmd.verb = "create"
  /\ \/ seen = "ACTIVE" /\ Return("CREATE")
     \/ seen \in {"DELETING", "INACCESSIBLE"} /\ Return("wrong_state")
     \/ seen \notin {"ACTIVE", "DELETING", "INACCESSIBLE"} /\ PollAgain
  /\ Untouched /\ UNCHANGED errors

PollGone ==
  /\ pc = "wait" /\ cmd.verb = "drop"
  /\ IF seen = "ABSENT" THEN Return("DROP") ELSE PollAgain
  /\ Untouched /\ UNCHANGED errors

\* A DescribeTable that fails with a retryable error is polled again, with any
\* other one the waiter gives up.
PollFails ==
  /\ pc = "wait" /\ errors < MaxErrors
  /\ errors' = errors + 1
  /\ PollAgain \/ Return("service_error")
  /\ Untouched

\* The request takes effect but its answer is lost: the error is reported and
\* the waiter is not entered.
AnswerLost ==
  /\ pc = "request" /\ ~cmd.explain
  /\ pc' = "done" /\ outcome' = "service_error"
  /\ \/ /\ cmd.verb = "create" /\ table = "ABSENT"
        /\ table' = "CREATING" /\ number' = number + 1 /\ mine' = number'
        /\ UNCHANGED seen
     \/ /\ cmd.verb = "drop" /\ table = "ACTIVE"
        /\ table' = "DELETING" /\ seen' = "DELETING" /\ mine' = number
        /\ UNCHANGED number
  /\ UNCHANGED <<cmd, activated, removed, others, errors, interval, waited>>

Executor ==
  \/ Start \/ Probe \/ ProbeFails \/ ExplainRequest \/ CreateTable \/ DeleteTable
  \/ RequestFails \/ AnswerLost \/ PollActive \/ PollGone \/ PollFails

-----------------------------------------------------------------------------
(***************************************************************************)
(* The service and its other clients.                                      *)
(***************************************************************************)

World == UNCHANGED <<cmd, executor, errors>>

\* DescribeTable starts to show a new table.
Appear ==
  /\ seen # table
  /\ seen' = table
  /\ UNCHANGED <<table, number, activated, removed, others>> /\ World

\* A table is created: it becomes usable, or its encryption key is lost.
Activate ==
  /\ table = "CREATING" /\ seen = table
  /\ \E status \in {"ACTIVE", "INACCESSIBLE"} :
       /\ table' = status /\ seen' = status
       /\ activated' = IF status = "ACTIVE" THEN activated \union {number} ELSE activated
  /\ UNCHANGED <<number, removed, others>> /\ World

Vanish ==
  /\ table = "DELETING"
  /\ table' = "ABSENT" /\ seen' = "ABSENT"
  /\ removed' = removed \union {number}
  /\ UNCHANGED <<number, activated, others>> /\ World

OtherCreates ==
  /\ others < MaxOthers /\ table = "ABSENT"
  /\ table' = "CREATING" /\ number' = number + 1
  /\ others' = others + 1
  /\ UNCHANGED <<seen, activated, removed>> /\ World

OtherDeletes ==
  /\ others < MaxOthers /\ table = "ACTIVE"
  /\ table' = "DELETING" /\ seen' = "DELETING"
  /\ others' = others + 1
  /\ UNCHANGED <<number, activated, removed>> /\ World

Service == Appear \/ Activate \/ Vanish

Next == Executor \/ Service \/ OtherCreates \/ OtherDeletes

Spec == Init /\ [][Next]_vars

-----------------------------------------------------------------------------
(***************************************************************************)
(* Properties.                                                             *)
(***************************************************************************)

\* What a statement that waits reports is true of the very table it created or
\* deleted, whatever other clients did with the name meanwhile: DROP says that
\* the table it deleted is gone, CREATE that the table it made became ACTIVE,
\* or that it is gone again and a later table of the name became ACTIVE.  And a
\* statement that is explained, that is refused, or that IF [NOT] EXISTS ends
\* early has left the service as it was.
ReportIsTrue ==
  /\ ~cmd.nowait /\ mine # 0 =>
       /\ outcome = "DROP" => mine \in removed
       /\ outcome = "CREATE" =>
            mine \in activated \/ (mine \in removed /\ \E n \in activated : n > mine)
  /\ outcome \in {"empty", "explain", "invalid", "not_found", "in_use"} => mine = 0
  /\ outcome = "DROP" \/ (outcome = "CREATE" /\ ~cmd.probe) => mine # 0

\* The waiter gives up at the first poll after its budget, so it overstays it by
\* less than one sleep, and only a waiter with a budget does.
BudgetKept ==
  /\ cmd.budget => waited < Timeout + Cap
  /\ outcome = "timed_out" => cmd.budget /\ waited >= Timeout
=============================================================================
