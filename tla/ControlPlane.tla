---------------------------- MODULE ControlPlane ----------------------------
(***************************************************************************)
(* A session of two statements on one region: CREATE TABLE or DROP TABLE    *)
(* (TableLifecycle), then a statement about tables: ALTER TABLE in its four *)
(* forms, BACKUP, DROP BACKUP, DESCRIBE BACKUP, RESTORE, DESCRIBE, SHOW     *)
(* TABLES, SHOW LIMITS, SHOW BACKUPS or SHOW CREATE TABLE.  Each call of    *)
(* the second one is a step, so that the service and other clients act      *)
(* between them.                                                            *)
(*                                                                          *)
(* The region holds the table of TableLifecycle under the name Mine, tables *)
(* nobody touches, and backups.  The service is external.                   *)
(***************************************************************************)
EXTENDS TableLifecycle, Sequences, SequencesExt, FiniteSets

CONSTANTS Sessions,   \* the pairs of statements considered
          Tables,     \* the names of the region, in the order they are listed
          Mine,       \* the one that is created, dropped and altered
          Backups,    \* the backups there may be, in the order they are listed
          Attributes  \* the attributes TTL may use

\* What ALTER TABLE, BACKUP and RESTORE ask for in one call.
Apis == {"UpdateTable", "UpdateContinuousBackups", "CreateBackup", "DeleteBackup",
         "DescribeBackup", "RestoreTableFromBackup", "RestoreTableToPointInTime"}

\* A LIKE pattern is the set of names it matches; the filters of SHOW BACKUPS
\* are the set of backups they select.
Later ==
       [kind: {"none", "show_limits", "show_create", "describe"}]
  \union [kind: {"show_tables"}, brief: BOOLEAN, valid: BOOLEAN, like: SUBSET ToSet(Tables)]
  \union [kind: {"show_backups"}, like: SUBSET ToSet(Backups)]
  \union [kind: {"ttl"}, enabled: BOOLEAN, attr: Attributes, explain: BOOLEAN]
  \union [kind: {"call"}, api: Apis, backup: ToSet(Backups), valid: BOOLEAN, explain: BOOLEAN]

ASSUME ControlPlaneAssumption ==
  /\ Sessions \subseteq [first: Commands, later: Later]
  /\ Mine \in ToSet(Tables)
  /\ Tables \in Seq(ToSet(Tables)) /\ IsInjective(Tables)
  /\ Backups \in Seq(ToSet(Backups)) /\ IsInjective(Backups)
  /\ ToSet(Tables) \intersect ToSet(Backups) = {}

VARIABLES
  later,   \* the second statement, fixed
  step,    \* where its executor is
  answer,  \* what it returned, "none" while it runs
  todo,    \* the names listed and not yet handled
  cursor,  \* how far the listing has come: the exclusive start of the next page
  probe,   \* what DescribeTimeToLive said to ALTER TABLE
  report,  \* the lines printed: a name, and whether its details follow
  total,   \* SHOW LIMITS: how often its sum holds the units of each table
  ttl,     \* the table's TimeToLive, as the service has it
  backups, \* the backups there are
  steady,  \* history: what has been there since the statement started
  ever,    \* history: what has been there at some moment since
  stumbled,\* history: the tables a call of this statement failed on
  ttls,    \* history: the states the TimeToLive has been in since
  effects  \* history: number of its requests that took effect

locals == <<step, answer, todo, cursor, probe, report, total>>
history == <<steady, ever, stumbled, ttls, effects>>
allvars == <<vars, later, locals, ttl, backups, history>>

Off == [status |-> "DISABLED", attr |-> "none"]

\* The other statements do not look at backups, nor at the TimeToLive beyond
\* whether there is a table to have one: there both stay as they are.
SeesBackups == later.kind \in {"show_backups", "call"}

\* What the region shows: its tables and the backups present.
Listed(status, present) ==
  (ToSet(Tables) \ (IF status = "ABSENT" THEN {Mine} ELSE {})) \union present

SessionInit ==
  /\ Init
  /\ \E s \in Sessions : cmd = s.first /\ later = s.later
  /\ step = "idle" /\ answer = "none"
  /\ todo = <<>> /\ cursor = 0 /\ probe = Off /\ report = <<>>
  /\ total = [n \in ToSet(Tables) |-> 0]
  /\ ttl \in IF table = "ACTIVE" /\ later.kind = "ttl"
             THEN {Off} \union [status: {"ENABLED"}, attr: Attributes] ELSE {Off}
  /\ backups \in IF SeesBackups THEN {{}, ToSet(Backups)} ELSE {{}}
  /\ steady = {} /\ ever = {} /\ stumbled = {} /\ ttls = {} /\ effects = 0

-----------------------------------------------------------------------------
(***************************************************************************)
(* Steps of the second statement.                                          *)
(***************************************************************************)

At(where) == step = where /\ UNCHANGED <<cmd, executor, later>>

\* What the service has, and the history of it, stay as they are.
Quiet == UNCHANGED <<service, others, ttl, backups, steady, ever, ttls, effects>>

\* The statement ends; an error drops what it has to report.
End(what) == step' = "done" /\ answer' = what

Error(what) == End(what) /\ report' = <<>> /\ UNCHANGED <<todo, cursor, probe, total>>

\* A call fails by itself: throttled, refused, not answered.
Fails(name) == errors < MaxErrors /\ errors' = errors + 1 /\ stumbled' = stumbled \union {name}
Works == UNCHANGED <<errors, stumbled>>

\* What a statement does first.
FirstStep(kind) ==
  CASE kind = "call" -> "request"
    [] kind = "ttl" -> "probe"
    [] kind \in {"describe", "show_create"} -> "describe"
    [] kind = "show_limits" -> "limits"
    [] kind \in {"show_tables", "show_backups"} -> "list"

StartLater ==
  /\ pc = "done" /\ later.kind # "none" /\ At("idle")
  /\ IF later.kind = "show_tables" /\ ~later.valid THEN Error("bad_pattern")
     ELSE step' = FirstStep(later.kind) /\ UNCHANGED <<answer, report>>
  /\ steady' = Listed(seen, backups) /\ ever' = steady' /\ ttls' = {ttl}
  /\ Works
  /\ UNCHANGED <<service, others, todo, cursor, probe, total, ttl, backups, effects>>

\* execute_show_limits asks for the limits of the account first.
DescribeLimits ==
  /\ At("limits")
  /\ \/ step' = "list" /\ Works /\ UNCHANGED <<answer, report, todo, cursor, probe, total>>
     \/ Fails("limits") /\ Error("service_error")
  /\ Quiet

\* Faulty variant: a page without names ends the listing.
AfterPageNamed(page, more, upto) ==
  IF more /\ page # <<>> THEN cursor' = upto /\ UNCHANGED <<step, answer>>
  ELSE /\ UNCHANGED cursor
       /\ IF later.kind = "show_backups" THEN End("report")
          ELSE step' = "each" /\ UNCHANGED answer

\* The listing goes on from where the page ended as long as the service says
\* so, whatever the page held.
AfterPage(page, more, upto) ==
  IF more THEN cursor' = upto /\ UNCHANGED <<step, answer>>
  ELSE /\ UNCHANGED cursor
       /\ IF later.kind = "show_backups" THEN End("report")
          ELSE step' = "each" /\ UNCHANGED answer

\* The names of `all' that are shown between two places, in order.
Pages(all, shown, from, upto) ==
  LET at == {p \in from + 1 .. upto : all[p] \in shown}
      InOrder == {f \in [1..Cardinality(at) -> at] :
                    ToSet(f) = at /\ \A i, j \in DOMAIN f : i < j => f[i] < f[j]}
  IN  {[i \in DOMAIN f |-> all[f[i]]] : f \in InOrder}

\* One page of ListTables or ListBackups: the service decides how far it goes,
\* and may say that there is more when there is not.
ListPage ==
  /\ At("list")
  /\ LET all == IF later.kind = "show_backups" THEN Backups ELSE Tables
         shown == IF later.kind = "show_backups" THEN backups \intersect later.like
                  ELSE Listed(seen, {})
     IN  \E upto \in cursor .. Len(all), more \in BOOLEAN :
           /\ IF more THEN upto > cursor ELSE upto = Len(all)
           /\ \E page \in Pages(all, shown, cursor, upto) :
                /\ AfterPage(page, more, upto)
                /\ IF later.kind = "show_backups"
                   THEN report' = report \o [i \in DOMAIN page |-> [name |-> page[i], full |-> TRUE]]
                        /\ UNCHANGED todo
                   ELSE todo' = todo \o page /\ UNCHANGED report
  /\ Works /\ Quiet /\ UNCHANGED <<probe, total>>

ListFails ==
  /\ At("list") /\ Fails("list") /\ Error("service_error") /\ Quiet

-----------------------------------------------------------------------------
(***************************************************************************)
(* SHOW TABLES and SHOW LIMITS, table by table.                            *)
(***************************************************************************)

Line(name, full) ==
  report' = Append(report, [name |-> name, full |-> full]) /\ todo' = Tail(todo)

Present(name) == name # Mine \/ seen # "ABSENT"

EndList ==
  /\ At("each") /\ todo = <<>>
  /\ End("report")
  /\ Works /\ Quiet /\ UNCHANGED <<todo, cursor, probe, report, total>>

\* LIKE and the brief form need no call.
ShowName ==
  /\ At("each") /\ todo # <<>> /\ later.kind = "show_tables"
  /\ IF Head(todo) \notin later.like THEN todo' = Tail(todo) /\ UNCHANGED report
     ELSE later.brief /\ Line(Head(todo), FALSE)
  /\ Works /\ Quiet /\ UNCHANGED <<step, answer, cursor, probe, total>>

\* DescribeTable: a table that cannot be described is shown by its name alone.
ShowStatus ==
  /\ At("each") /\ todo # <<>> /\ later.kind = "show_tables"
  /\ Head(todo) \in later.like /\ ~later.brief
  /\ \/ Present(Head(todo)) /\ Works /\ step' = "row" /\ UNCHANGED <<report, todo>>
     \/ ~Present(Head(todo)) /\ Works /\ Line(Head(todo), FALSE) /\ UNCHANGED step
     \/ Fails(Head(todo)) /\ Line(Head(todo), FALSE) /\ UNCHANGED step
  /\ Quiet /\ UNCHANGED <<answer, cursor, probe, total>>

\* DescribeTimeToLive, the second call of a row.
ShowTtl ==
  /\ At("row")
  /\ \/ Works /\ Line(Head(todo), Present(Head(todo)))
     \/ Fails(Head(todo)) /\ Line(Head(todo), FALSE)
  /\ step' = "each"
  /\ Quiet /\ UNCHANGED <<answer, cursor, probe, total>>

\* A table that is gone, or cannot be described, adds nothing.
Added(name) ==
  /\ \/ Present(name) /\ Works /\ total' = [total EXCEPT ![name] = @ + 1]
     \/ ~Present(name) /\ Works /\ UNCHANGED total
     \/ Fails(name) /\ UNCHANGED total
  /\ todo' = Tail(todo)

AddUnits ==
  /\ At("each") /\ todo # <<>> /\ later.kind = "show_limits"
  /\ Added(Head(todo))
  /\ Quiet /\ UNCHANGED <<step, answer, cursor, probe, report>>

-----------------------------------------------------------------------------
(***************************************************************************)
(* DESCRIBE and SHOW CREATE TABLE.                                         *)
(***************************************************************************)

\* The first call decides; SHOW CREATE TABLE wants an ACTIVE table besides.
Describe ==
  /\ At("describe")
  /\ \/ /\ Works
        /\ IF seen = "ABSENT" THEN Error("not_found")
           ELSE IF later.kind = "show_create" /\ seen # "ACTIVE" THEN Error("in_use")
           ELSE /\ step' = "rest" /\ report' = <<[name |-> Mine, full |-> TRUE]>>
                /\ UNCHANGED <<answer, todo, cursor, probe, total>>
     \/ Fails(Mine) /\ Error(IF later.kind = "show_create" THEN "not_found" ELSE "service_error")
  /\ Quiet

\* DescribeTimeToLive follows and its answer is not looked at.
DescribeTtl ==
  /\ At("rest")
  /\ Works \/ Fails(Mine)
  /\ IF later.kind = "show_create" THEN End("report") ELSE step' = "pitr" /\ UNCHANGED answer
  /\ Quiet /\ UNCHANGED <<todo, cursor, probe, report, total>>

\* DescribeContinuousBackups and DescribeTableReplicaAutoScaling add lines when
\* they work and are passed over when they fail.
Section(name) ==
  \/ Present(Mine) /\ Works /\ report' = Append(report, [name |-> name, full |-> TRUE])
  \/ ~Present(Mine) /\ Works /\ UNCHANGED report
  \/ Fails(Mine) /\ UNCHANGED report

DescribePitr ==
  /\ At("pitr") /\ Section("pitr")
  /\ step' = "replicas"
  /\ Quiet /\ UNCHANGED <<answer, todo, cursor, probe, total>>

DescribeReplicas ==
  /\ At("replicas") /\ Section("replicas")
  /\ End("report")
  /\ Quiet /\ UNCHANGED <<todo, cursor, probe, total>>

-----------------------------------------------------------------------------
(***************************************************************************)
(* ALTER TABLE ... SET TTL.                                                *)
(***************************************************************************)

\* DescribeTimeToLive comes first, under EXPLAIN too.  Disabling what is
\* disabled needs no request.
ProbeTtl ==
  /\ At("probe")
  /\ \/ /\ seen = "ABSENT" /\ Works /\ Error("not_found")
     \/ /\ seen # "ABSENT" /\ Works
        /\ probe' = ttl
        /\ IF ttl.status = "DISABLED" /\ ~later.enabled THEN End("ALTER")
           ELSE step' = "update" /\ UNCHANGED answer
        /\ UNCHANGED <<todo, cursor, report, total>>
     \/ Fails(Mine) /\ Error("service_error")
  /\ Quiet

\* Faulty variant: disabling names the attribute of the statement.
AttributeGiven == later.attr

\* Enabling names the attribute of the statement, disabling the one the probe
\* found.
attribute_name == IF later.enabled THEN later.attr ELSE probe.attr

ExplainTtl ==
  /\ At("update") /\ later.explain
  /\ End("explain")
  /\ Works /\ Quiet /\ UNCHANGED <<todo, cursor, probe, report, total>>

\* The service: a TimeToLive that is changing, or that is on already, or that
\* another attribute carries, is not updated.
TtlAccepts(enabled, attr) ==
  IF enabled THEN ttl.status = "DISABLED"
  ELSE ttl.status = "ENABLED" /\ ttl.attr = attr

TtlUpdated(enabled, attr) ==
  /\ ttl' = [status |-> IF enabled THEN "ENABLING" ELSE "DISABLING", attr |-> attr]
  /\ ttls' = ttls \union {ttl'}

Refusal == IF table = "ABSENT" THEN "not_found" ELSE "in_use"

UpdateTtl ==
  /\ At("update") /\ ~later.explain
  /\ \/ /\ table = "ACTIVE" /\ TtlAccepts(later.enabled, attribute_name)
        /\ TtlUpdated(later.enabled, attribute_name)
        /\ effects' = effects + 1
        /\ (Works /\ End("ALTER")) \/ (Fails(Mine) /\ End("service_error"))
     \/ /\ IF table # "ACTIVE" THEN Works /\ End(Refusal)
           ELSE ~TtlAccepts(later.enabled, attribute_name) /\ Works /\ End("refused")
        /\ UNCHANGED <<ttl, ttls, effects>>
     \/ Fails(Mine) /\ End("service_error") /\ UNCHANGED <<ttl, ttls, effects>>
  /\ UNCHANGED <<service, others, backups, steady, ever, todo, cursor, probe, report, total>>

-----------------------------------------------------------------------------
(***************************************************************************)
(* The statements of one call.                                             *)
(***************************************************************************)

\* What a statement that succeeded prints.
token ==
  CASE later.api \in {"UpdateTable", "UpdateContinuousBackups"} -> "ALTER"
    [] later.api = "CreateBackup" -> "BACKUP"
    [] later.api = "DeleteBackup" -> "DROP_BACKUP"
    [] later.api = "DescribeBackup" -> "report"
    [] later.api \in {"RestoreTableFromBackup", "RestoreTableToPointInTime"} -> "RESTORE"

\* EXPLAIN of an invalid update or timestamp fails as the statement does.
ExplainCall ==
  /\ At("request") /\ later.explain
  /\ IF later.valid THEN End("explain") ELSE End("invalid")
  /\ Works /\ Quiet /\ UNCHANGED <<todo, cursor, probe, report, total>>

\* validate_gsi_updates refuses an index, build_restore_to_pitr a timestamp.
InvalidCall ==
  /\ At("request") /\ ~later.explain /\ ~later.valid
  /\ End("invalid")
  /\ Works /\ Quiet /\ UNCHANGED <<todo, cursor, probe, report, total>>

\* The service: what it refuses a request for, "none" if it takes it.
RefusedFor(api) ==
  CASE api \in {"UpdateTable", "UpdateContinuousBackups", "CreateBackup"} ->
         IF table = "ACTIVE" THEN "none" ELSE Refusal
    [] api \in {"DeleteBackup", "DescribeBackup"} ->
         IF later.backup \in backups THEN "none" ELSE "no_backup"
    [] api = "RestoreTableFromBackup" ->
         IF later.backup \notin backups THEN "no_backup"
         ELSE IF table = "ABSENT" THEN "none" ELSE "in_use"
    [] api = "RestoreTableToPointInTime" -> IF table = "ABSENT" THEN "none" ELSE "in_use"

\* The service: a table being updated goes through UPDATING, a restored one
\* through CREATING.  A new table has no TimeToLive.
Effect(api) ==
  /\ \/ /\ api = "UpdateTable"
        /\ table' = "UPDATING" /\ seen' = "UPDATING"
        /\ UNCHANGED <<number, ttl, backups>>
     \/ /\ api \in {"RestoreTableFromBackup", "RestoreTableToPointInTime"}
        /\ table' = "CREATING" /\ number' = number + 1 /\ ttl' = Off
        /\ UNCHANGED <<seen, backups>>
     \/ /\ api = "CreateBackup" /\ backups' = backups \union {later.backup}
        /\ UNCHANGED <<table, number, seen, ttl>>
     \/ /\ api = "DeleteBackup" /\ backups' = backups \ {later.backup}
        /\ UNCHANGED <<table, number, seen, ttl>>
     \/ /\ api \in {"UpdateContinuousBackups", "DescribeBackup"}
        /\ UNCHANGED <<table, number, seen, ttl, backups>>
  /\ steady' = steady \intersect Listed(seen', backups')
  /\ ever' = ever \union Listed(seen', backups')
  /\ UNCHANGED <<activated, removed>>

Call ==
  /\ At("request") /\ ~later.explain /\ later.valid
  /\ \/ /\ RefusedFor(later.api) = "none" /\ Effect(later.api)
        /\ effects' = effects + 1
        /\ (Works /\ End(token)) \/ (Fails(Mine) /\ End("service_error"))
     \/ /\ RefusedFor(later.api) # "none" /\ Works /\ End(RefusedFor(later.api))
        /\ UNCHANGED <<service, ttl, backups, steady, ever, effects>>
     \/ /\ Fails(Mine) /\ End("service_error")
        /\ UNCHANGED <<service, ttl, backups, steady, ever, effects>>
  /\ UNCHANGED <<others, todo, cursor, probe, report, total, ttls>>

LaterStep ==
  \/ StartLater \/ DescribeLimits \/ ListPage \/ ListFails
  \/ EndList \/ ShowName \/ ShowStatus \/ ShowTtl \/ AddUnits
  \/ Describe \/ DescribeTtl \/ DescribePitr \/ DescribeReplicas \/ ProbeTtl \/ ExplainTtl \/ UpdateTtl
  \/ ExplainCall \/ InvalidCall \/ Call

-----------------------------------------------------------------------------
(***************************************************************************)
(* The service and other clients beside the session, until it ends.        *)
(***************************************************************************)

\* A table that is new, or gone, has no TimeToLive.
Beside ==
  /\ ttl' = IF number' # number \/ table' = "ABSENT" THEN Off ELSE ttl
  /\ steady' = steady \intersect Listed(seen', backups)
  /\ ever' = IF step = "idle" THEN ever ELSE ever \union Listed(seen', backups)
  /\ ttls' = IF step = "idle" THEN ttls ELSE ttls \union {ttl'}
  /\ UNCHANGED <<later, locals, backups, stumbled, effects>>

\* The first statement, the service and the other clients of TableLifecycle.
First == step # "done" /\ Next /\ Beside

Updated ==
  /\ step # "done" /\ table = "UPDATING" /\ table' = "ACTIVE" /\ seen' = "ACTIVE"
  /\ UNCHANGED <<number, activated, removed, others>> /\ World /\ Beside

TtlSettles ==
  /\ step # "done" /\ ttl.status \in {"ENABLING", "DISABLING"}
  /\ ttl' = IF ttl.status = "ENABLING" THEN [ttl EXCEPT !.status = "ENABLED"] ELSE Off
  /\ ttls' = IF step = "idle" THEN ttls ELSE ttls \union {ttl'}
  /\ UNCHANGED <<vars, later, locals, backups, steady, ever, stumbled, effects>>

OtherAlters ==
  /\ step # "done" /\ others < MaxOthers /\ table = "ACTIVE"
  /\ table' = "UPDATING" /\ seen' = "UPDATING"
  /\ others' = others + 1
  /\ UNCHANGED <<number, activated, removed>> /\ World /\ Beside

OtherTtl ==
  /\ step # "done" /\ others < MaxOthers /\ table = "ACTIVE" /\ later.kind = "ttl"
  /\ \E enabled \in BOOLEAN, attr \in Attributes :
       TtlAccepts(enabled, attr) /\ TtlUpdated(enabled, attr)
  /\ others' = others + 1
  /\ UNCHANGED <<cmd, executor, service, errors, later, locals, backups, steady, ever, stumbled,
                 effects>>

OtherBackup ==
  /\ step # "done" /\ others < MaxOthers /\ SeesBackups
  /\ \E b \in ToSet(Backups) :
       backups' = IF b \in backups THEN backups \ {b} ELSE backups \union {b}
  /\ steady' = steady \intersect Listed(seen, backups')
  /\ ever' = ever \union Listed(seen, backups')
  /\ others' = others + 1
  /\ UNCHANGED <<cmd, executor, service, errors, later, locals, ttl, ttls, stumbled, effects>>

SessionNext ==
  First \/ LaterStep \/ Updated \/ TtlSettles \/ OtherAlters \/ OtherTtl \/ OtherBackup

\* The shell keeps running, and the service finishes what it was asked for.
SessionSpec ==
  /\ SessionInit /\ [][SessionNext]_allvars
  /\ WF_allvars(Executor /\ Beside) /\ WF_allvars(LaterStep)
  /\ WF_allvars(Service /\ Beside) /\ WF_allvars(Updated)

-----------------------------------------------------------------------------
(***************************************************************************)
(* Properties.                                                             *)
(***************************************************************************)

Restores == later.kind = "call" /\ later.api \in {"RestoreTableFromBackup", "RestoreTableToPointInTime"}

\* What the waiters are for: after a CREATE TABLE that waited, no statement is
\* refused because the table is not there or not ready, and after a DROP TABLE
\* that waited, RESTORE may take its name, as long as no other client touched
\* the region and no call failed by itself.  Under NOWAIT neither holds.
WaitPays ==
  ~cmd.nowait /\ mine # 0 /\ others = 0 /\ stumbled = {} =>
    /\ outcome = "CREATE" /\ ~Restores => answer \notin {"not_found", "in_use"}
    /\ outcome = "DROP" /\ Restores => answer # "in_use"

\* What SHOW TABLES and SHOW BACKUPS print.
Printed == [i \in DOMAIN report |-> report[i].name]

\* SHOW TABLES, SHOW BACKUPS and SHOW LIMITS over any number of pages, while
\* tables and backups come and go: no name is printed or counted twice, whatever
\* was there all the time and is asked for is printed or counted, nothing is
\* that never was there, and only a table a call failed on, or that went away,
\* lacks its details or is left out of the sum.
ListingExact ==
  answer = "report" =>
    /\ later.kind \in {"show_tables", "show_backups"} =>
         /\ IsInjective(Printed)
         /\ steady \intersect later.like \subseteq ToSet(Printed)
         /\ ToSet(Printed) \subseteq ever \intersect later.like
    /\ later.kind = "show_tables" /\ ~later.brief =>
         \A i \in DOMAIN report : report[i].name \in steady \ stumbled => report[i].full
    /\ later.kind = "show_limits" =>
         \A n \in ToSet(Tables) :
           /\ total[n] <= 1
           /\ total[n] = 1 => n \in ever
           /\ n \in steady \ stumbled => total[n] = 1

\* A statement sends at most one request that changes anything, the one it
\* reports: a token means that it took effect, except that ALTER TABLE may find
\* TimeToLive off already; EXPLAIN, a refusal and a report mean that it did not.
\* ALTER TABLE turns TimeToLive on or off as it says, off only under the
\* attribute it has seen, and is refused only when it found TimeToLive in
\* another state, or another client was faster.
ReportsItsEffect ==
  /\ effects <= 1
  /\ answer \in {"BACKUP", "DROP_BACKUP", "RESTORE"} => effects = 1
  /\ answer = "ALTER" => effects = 1 \/ (later.kind = "ttl" /\ ~later.enabled /\ Off \in ttls)
  /\ answer = "report" => effects = IF later.kind = "call" THEN 1 ELSE 0
  /\ answer \in {"explain", "invalid", "not_found", "in_use", "no_backup", "refused"} => effects = 0
  /\ later.kind = "ttl" /\ effects = 1 =>
       IF later.enabled THEN [status |-> "ENABLING", attr |-> later.attr] \in ttls
       ELSE [status |-> "ENABLED", attr |-> probe.attr] \in ttls
  /\ answer = "refused" =>
       others # 0 \/ probe.status # IF later.enabled THEN "DISABLED" ELSE "ENABLED"

\* Both statements return if the waiter of the first has a budget, and without
\* one if no other client acts: the listings reach their last page.
SessionReturns ==
  (cmd.budget \/ [](others = 0)) => <>(pc = "done" /\ (later.kind = "none" \/ step = "done"))
=============================================================================
