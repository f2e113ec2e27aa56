----------------------------- MODULE Connection -----------------------------
(***************************************************************************)
(* The embedding API: a Connection, the Session it owns and the Results      *)
(* cursor that exec() hands out (connection.cpp, session.cpp).               *)
(*                                                                          *)
(* exec() parses the whole text and runs its first statement; next_result()  *)
(* runs the others one at a time, when the caller asks for them, through the *)
(* Session the cursor borrowed.  One caller uses the Connection, and only    *)
(* its latest Results.  The client is an AwsDDBClient, whose connect() does   *)
(* not fail.                                                                 *)
(***************************************************************************)
EXTENDS Integers, Sequences, SequencesExt

CONSTANTS Batches,      \* the texts submitted, as parse_batch sees them
          Regions,      \* regions to connect to
          Unset,        \* ... of which this one is the empty string
          Default,      \* the region the SDK resolves when none is named
          MaxCalls      \* bound: calls of exec(), query(), reconnect() and close()

\* A fragment an executor emits: its form and how many rows or tokens it has.
Fragment ==
  [form: {"rows"}, n: 0..2] \union [form: {"tokens"}, n: {1}]
    \union [form: {"status", "accounting", "report", "explain", "empty"}, n: {0}]

\* A statement is the fragments it emits when it succeeds, and the region it
\* connects to.
Statement == [fragments: Seq(Fragment), connects: Regions \union {"none"}]

\* The statements before the first syntax error, and whether there is one.
Batch == [statements: Seq(Statement), broken: BOOLEAN]

ASSUME ConnectionAssumption ==
  /\ Batches \subseteq Batch /\ "none" \notin Regions /\ Default \in Regions \ {Unset}
  /\ MaxCalls \in Nat

VARIABLES
  conn,    \* Connection::Impl: the configured region, the session, closed
  target,  \* the region the client sends requests to
  region,  \* the region of the session's config
  results, \* Results::Impl, or NoResults
  call,    \* the call in progress: "exec", "next", "query" or "none"
  answer,  \* what the last call returned
  freed,   \* has a freed Session been used?
  held,    \* history: reconnect() or close() was called while this Results was held
  text,    \* history: the text of the current batch
  ran,     \* history: the statements of the current batch that were run
  failed,  \* history: did the last of them fail?
  calls    \* number of calls so far

history == <<text, held, ran, failed, calls>>
vars == <<conn, target, region, results, call, answer, freed, history>>

NoResults == [live |-> FALSE]

\* AwsDDBClient::rebuild lays only a region that is not empty over the SDK's.
Resolved(r) == IF r = Unset THEN Default ELSE r

\* open() makes the client and the Connection from the same options.
Init ==
  /\ region \in Regions /\ target = Resolved(region)
  /\ conn = [region |-> region, session |-> 1, closed |-> FALSE]
  /\ results = NoResults
  /\ call = "none" /\ answer = "none" /\ freed = FALSE
  /\ text = [statements |-> <<>>, broken |-> FALSE]
  /\ held = FALSE /\ ran = <<>> /\ failed = FALSE /\ calls = 0

\* What a Results starts as: before its first statement.
NewResults(batch) ==
  [live |-> TRUE, session |-> conn.session, batch |-> batch, index |-> 0,
   loaded |-> FALSE, done |-> FALSE, sets |-> <<>>, set |-> 1, row |-> 0,
   error |-> FALSE]

HasCurrent(r) == r.loaded /\ r.set <= Len(r.sets)

Current(r) == r.sets[r.set]

Idle == call = "none" /\ ~freed

\* flatten: one result set for a fragment, but one for every token of a write.
Flatten(fragment) ==
  CASE fragment.form = "tokens" -> [t \in 1..fragment.n |-> [kind |-> "status", rows |-> 0]]
    [] fragment.form = "accounting" -> <<[kind |-> "write", rows |-> 0]>>
    [] OTHER -> <<[kind |-> fragment.form, rows |-> fragment.n]>>

\* Session::execute collects the fragments; none at all is an empty outcome.
ResultSets(statement) ==
  IF statement.fragments = <<>> THEN <<[kind |-> "empty", rows |-> 0]>>
  ELSE FlattenSeq([f \in DOMAIN statement.fragments |-> Flatten(statement.fragments[f])])

-----------------------------------------------------------------------------
(***************************************************************************)
(* Calls on the Connection.                                                *)
(***************************************************************************)

\* Faulty variant: a closed Connection is not refused.
RefusesBroken(batch) == batch.statements = <<>> /\ batch.broken

Refuses(batch) == conn.closed \/ (batch.statements = <<>> /\ batch.broken)

\* exec() and query() parse the text; if not even the first statement parses
\* they return the error and make no Results.
Submit(batch, how) ==
  /\ Idle /\ calls < MaxCalls
  /\ calls' = calls + 1
  /\ text' = batch /\ ran' = <<>> /\ failed' = FALSE /\ held' = FALSE
  /\ IF Refuses(batch)
     THEN /\ answer' = "error" /\ results' = NoResults
          /\ UNCHANGED call
     ELSE /\ results' = NewResults(batch)
          /\ call' = how /\ answer' = "none"
  /\ UNCHANGED <<conn, target, region, freed>>

Exec(batch) == Submit(batch, "exec")

Query(batch) == Submit(batch, "query")

\* Faulty variant: the new Session is made of the old configuration.
RenewedStale(to) ==
  /\ region' = conn.region
  /\ conn' = [conn EXCEPT !.region = to, !.session = @ + 1]

\* make_session after the configuration was brought up to date.
Renewed(to) ==
  /\ region' = to
  /\ conn' = [conn EXCEPT !.region = to, !.session = @ + 1]

\* reconnect(): the client is rebuilt for the new region, and a new Session
\* replaces the old one.
Reconnect(to) ==
  /\ Idle /\ calls < MaxCalls
  /\ calls' = calls + 1
  /\ held' = (held \/ results.live)
  /\ IF conn.closed THEN answer' = "error" /\ UNCHANGED <<conn, target, region>>
     ELSE target' = Resolved(to) /\ Renewed(to) /\ answer' = "ok"
  /\ UNCHANGED <<results, call, freed, text, ran, failed>>

Close ==
  /\ Idle /\ calls < MaxCalls
  /\ calls' = calls + 1
  /\ held' = (held \/ results.live)
  /\ conn' = [conn EXCEPT !.session = 0, !.closed = TRUE]
  /\ answer' = "ok"
  /\ UNCHANGED <<target, region, results, call, freed, text, ran, failed>>

\* region(): the session's, or the configured one when there is no session.
ReportedRegion == IF conn.session = 0 THEN conn.region ELSE region

-----------------------------------------------------------------------------
(***************************************************************************)
(* Calls on the Results.                                                   *)
(***************************************************************************)

Discard ==
  /\ Idle /\ results.live
  /\ results' = NoResults
  /\ UNCHANGED <<conn, target, region, call, answer, freed, history>>

\* next_result() steps to the next set of this statement, or starts the next
\* statement.
NextResult ==
  /\ Idle /\ results.live /\ ~results.done
  /\ IF results.loaded /\ results.set < Len(results.sets)
     THEN /\ results' = [results EXCEPT !.set = @ + 1, !.row = 0]
          /\ answer' = "true"
          /\ UNCHANGED call
     ELSE call' = "next" /\ answer' = "none" /\ UNCHANGED results
  /\ UNCHANGED <<conn, target, region, freed, text, held, ran, failed, calls>>

NextResultAtEnd ==
  /\ Idle /\ results.live /\ results.done
  /\ answer' = "false"
  /\ UNCHANGED <<conn, target, region, results, call, freed, history>>

HasNextRow(r) == HasCurrent(r) /\ Current(r).kind = "rows" /\ r.row < Current(r).rows

NextRow ==
  /\ Idle /\ results.live
  /\ IF HasNextRow(results)
     THEN /\ results' = [results EXCEPT !.row = @ + 1]
          /\ answer' = "true"
     ELSE answer' = "false" /\ UNCHANGED results
  /\ UNCHANGED <<conn, target, region, call, freed, text, held, ran, failed, calls>>

-----------------------------------------------------------------------------
(***************************************************************************)
(* advance_statement.                                                      *)
(***************************************************************************)

Advancing == call # "none" /\ results.live /\ ~results.done /\ ~freed

\* The first kind decides whether query() has an answer; exec() always has one.
Answered(r) ==
  CASE call = "exec" -> "ok"
    [] call = "next" -> IF r.done THEN "false" ELSE "true"
    [] call = "query" -> IF HasCurrent(r) /\ Current(r).kind = "rows" THEN "rowset" ELSE "error"

\* The call returns.  query() takes every row of the set and drops its Results.
ReturnWith(r) ==
  /\ call' = "none"
  /\ answer' = Answered(r)
  /\ results' = IF call = "query" THEN NoResults ELSE r

\* Faulty variant: a cursor that reaches the end forgets the syntax error.
AtEndForgetful ==
  [results EXCEPT !.done = TRUE, !.loaded = FALSE, !.sets = <<>>]

\* The cursor past the last statement: now the syntax error shows.
AtEnd ==
  [results EXCEPT !.done = TRUE, !.loaded = FALSE, !.sets = <<>>,
                  !.error = @ \/ results.batch.broken]

AdvanceToEnd ==
  /\ Advancing /\ results.index = Len(results.batch.statements)
  /\ ReturnWith(AtEnd)
  /\ UNCHANGED <<conn, target, region, freed, text, held, ran, failed, calls>>

Upcoming == results.batch.statements[results.index + 1]

Running ==
  /\ Advancing /\ results.index < Len(results.batch.statements)
  /\ ran' = Append(ran, results.index + 1)

SessionGone == results.session = 0 \/ results.session # conn.session

\* Session::execute on CONNECT: the session's region changes and the client is
\* rebuilt.  It touches nothing else.
Connects(to) ==
  IF to = "none" THEN UNCHANGED <<target, region>>
  ELSE region' = to /\ target' = Resolved(to)

\* The cursor at the first result set of the statement that ran.
Loaded ==
  [results EXCEPT !.index = @ + 1, !.sets = ResultSets(Upcoming), !.set = 1, !.loaded = TRUE,
                  !.row = 0]

\* Every statement yields at least one result set, so the call returns.
AdvanceSucceeds ==
  /\ Running /\ ~SessionGone
  /\ Connects(Upcoming.connects)
  /\ ReturnWith(Loaded)
  /\ UNCHANGED <<conn, freed, text, held, failed, calls>>

\* Faulty variant: the batch goes on after a failure.
StoppedOnlyMarked == [results EXCEPT !.index = @ + 1, !.error = TRUE, !.sets = <<>>]

\* The cursor after a statement that failed.
Stopped ==
  [results EXCEPT !.index = @ + 1, !.error = TRUE, !.done = TRUE, !.loaded = FALSE,
                  !.sets = <<>>]

\* A failing statement ends the batch and what it emitted is discarded.
\* CONNECT cannot fail.
AdvanceFails ==
  /\ Running /\ ~SessionGone /\ Upcoming.connects = "none"
  /\ ReturnWith(Stopped)
  /\ failed' = TRUE
  /\ UNCHANGED <<conn, target, region, freed, text, held, calls>>

\* The cursor's pointer leads to a Session that was destroyed: undefined.
AdvanceFreed ==
  /\ Running /\ SessionGone
  /\ freed' = TRUE
  /\ UNCHANGED <<conn, target, region, results, call, answer, text, held, failed, calls>>

Next ==
  \/ \E batch \in Batches : Exec(batch) \/ Query(batch)
  \/ \E to \in Regions : Reconnect(to)
  \/ Close \/ Discard \/ NextResult \/ NextResultAtEnd \/ NextRow
  \/ AdvanceToEnd \/ AdvanceSucceeds \/ AdvanceFails
  \/ AdvanceFreed

Spec == Init /\ [][Next]_vars

-----------------------------------------------------------------------------
(***************************************************************************)
(* Properties.                                                             *)
(***************************************************************************)

\* The statements of a batch run one by one in the order of the text, each at
\* most once, none after one that failed, and a cursor that still waits for a
\* result set is exactly behind the last one that ran.
OnceInOrder ==
  /\ ran = [n \in 1..Len(ran) |-> n]
  /\ Len(ran) <= Len(text.statements)
  /\ results.live /\ ~freed => results.index = Len(ran)
  /\ failed /\ results.live => results.done

\* A cursor that ends without an error has run every statement and read the
\* whole text; one that ends with an error has met a failing statement, or has
\* run everything before a syntax error; one that has not ended has no error.
EndIsTrue ==
  results.live =>
    /\ results.done /\ ~results.error =>
         Len(ran) = Len(text.statements) /\ ~text.broken /\ ~failed
    /\ results.error =>
         /\ results.done
         /\ failed \/ (text.broken /\ Len(ran) = Len(text.statements))

\* Requests go to the region that region() names, or to the SDK's when it names
\* none, through CONNECT and reconnect(), which change the client, the session
\* and the configuration by separate code.
RegionIsTrue == ~conn.closed => target = Resolved(ReportedRegion)

\* A caller who never calls reconnect() or close() while it holds a Results
\* never reaches a Session that was destroyed, not by exec() or query() on a
\* closed Connection either.
DisciplineSuffices == freed => held
=============================================================================
