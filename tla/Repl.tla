-------------------------------- MODULE Repl --------------------------------
(***************************************************************************)
(* The command-line shell: main() runs the config file and then its input   *)
(* (-c, -f or the terminal) through run_source, which collects lines into a  *)
(* batch until a terminator line, and run_batch_text, which parses the batch *)
(* and executes its statements.                                              *)
(*                                                                          *)
(* A line is known by what it is: a whole statement, QUIT, a statement       *)
(* without its `;' ("open"), something that does not parse ("bad"), the word *)
(* of the terminator, a set terminator directive, or blank: of no characters *)
(* ("empty") or of spaces.                                                   *)
(***************************************************************************)
EXTENDS Integers, Sequences

CONSTANTS Kinds,     \* the kinds of line read
          MaxLines   \* bound: lines of one source

Blank == {"empty", "spaces"}
Directives == {"set_word", "set_blank"}
AllKinds == {"stmt", "quit", "open", "bad", "word"} \union Directives \union Blank

ASSUME ReplAssumption == Kinds \subseteq AllKinds /\ MaxLines \in Nat

VARIABLES
  option,    \* the command line: -e, the terminator of -t, and is the -f file missing?
  source,    \* what run_source reads: "config", "main", or "over"
  count,     \* lines read of it
  eof,       \* has it ended?
  term,      \* its terminator: "word" or "blank"
  buffer,    \* the lines of the batch collected so far, or being run
  todo,      \* the statements of the batch that is running, as positions in it
  running,   \* is a batch running?
  lastError, \* the last executed statement's status, "none" before there is one
  exit,      \* the exit code of the process
  executed,  \* history: what was executed, in order
  batches    \* history: the batches that were run

history == <<executed, batches>>
vars == <<option, source, count, eof, term, buffer, todo, running, lastError, exit, history>>

\* There may be no config file; it is read with the default terminator.
Init ==
  /\ option \in [abort: BOOLEAN, term: {"word", "blank"}, missing: BOOLEAN]
  /\ \/ source = "config" /\ term = "word"
     \/ source = "main" /\ term = option.term
  /\ count = 0 /\ eof = FALSE /\ buffer = <<>> /\ todo = {} /\ running = FALSE
  /\ lastError = "none" /\ exit = 0
  /\ executed = <<>> /\ batches = <<>>

\* The config file always aborts on error.
AbortOnError == source = "config" \/ option.abort

\* main() has come to a file that cannot be opened.
Unreadable == source = "main" /\ option.missing

-----------------------------------------------------------------------------
(***************************************************************************)
(* Collecting a batch.                                                     *)
(***************************************************************************)

\* An empty line put at the start of the buffer leaves it an empty string.
Collected(lines) == IF \A k \in DOMAIN lines : lines[k].kind = "empty" THEN <<>> ELSE lines

IsTerminator(kind) ==
  IF term = "blank" THEN kind \in Blank ELSE kind = "word"

\* parse_batch: a line stands for a statement, except that an open statement
\* needs the end of the batch after it and that a terminator or a directive
\* inside a batch is text like any other.
Parses(lines, k) ==
  \/ lines[k].kind \in {"stmt", "quit"}
  \/ lines[k].kind = "open" /\ \A j \in k + 1 .. Len(lines) : lines[j].kind \in Blank

Broken(lines) ==
  {k \in DOMAIN lines : lines[k].kind \notin Blank /\ ~Parses(lines, k)}

\* The statements before the first syntax error.
Statements(lines) ==
  {k \in DOMAIN lines : /\ lines[k].kind \notin Blank
                        /\ \A j \in Broken(lines) : k < j}

\* flush: an empty buffer is no batch.
Flush ==
  IF buffer = <<>> THEN UNCHANGED <<todo, running, batches>>
  ELSE /\ todo' = Statements(buffer) /\ running' = TRUE
       /\ batches' = Append(batches, [source |-> source, lines |-> buffer])

ReadLine(kind) ==
  /\ source # "over" /\ ~Unreadable /\ ~running /\ ~eof /\ count < MaxLines
  /\ count' = count + 1
  /\ \/ /\ buffer = <<>> /\ kind \in Directives
        /\ term' = IF kind = "set_word" THEN "word" ELSE "blank"
        /\ UNCHANGED <<buffer, todo, running, batches>>
     \/ /\ ~(buffer = <<>> /\ kind \in Directives)
        /\ IsTerminator(kind)
        /\ Flush
        /\ UNCHANGED <<term, buffer>>
     \/ /\ ~(buffer = <<>> /\ kind \in Directives)
        /\ ~IsTerminator(kind)
        /\ buffer' = Collected(Append(buffer, [kind |-> kind, line |-> count']))
        /\ UNCHANGED <<term, todo, running, batches>>
  /\ UNCHANGED <<option, source, eof, lastError, exit, executed>>

\* Faulty variant: what is left in the buffer is dropped.
EndOfInputDrops ==
  /\ source # "over" /\ ~Unreadable /\ ~running /\ ~eof
  /\ eof' = TRUE
  /\ UNCHANGED <<option, source, count, term, buffer, todo, running, lastError, exit, history>>

\* The end of the input is a terminator.
EndOfInput ==
  /\ source # "over" /\ ~Unreadable /\ ~running /\ ~eof
  /\ eof' = TRUE
  /\ Flush
  /\ UNCHANGED <<option, source, count, term, buffer, lastError, exit, executed>>

-----------------------------------------------------------------------------
(***************************************************************************)
(* Running a batch.                                                        *)
(***************************************************************************)

\* The statements of a batch are executed in its order.
IsNext(k) == k \in todo /\ \A j \in todo : k <= j

Ran(k, how) ==
  executed' = Append(executed, [source |-> source, line |-> buffer[k].line, how |-> how])

\* run_source returns.  A failing config file ends the process; otherwise main
\* goes on with its own input and the terminator of -t.
SourceOver(status) ==
  LET code == IF status = "error" THEN 1 ELSE 0
  IN IF source = "config" /\ code = 0
     THEN /\ source' = "main" /\ term' = option.term
          /\ count' = 0 /\ eof' = FALSE /\ buffer' = <<>> /\ todo' = {} /\ running' = FALSE
          /\ lastError' = "none" /\ UNCHANGED exit
     ELSE /\ source' = "over" /\ exit' = code /\ running' = FALSE /\ lastError' = status
          /\ UNCHANGED <<count, eof, term, buffer, todo>>

\* Faulty variant: a statement that succeeds leaves an earlier failure standing.
StatusKept == IF lastError = "error" THEN "error" ELSE "ok"

\* A statement that succeeds overwrites the status.
StatusAfterSuccess == "ok"

ExecuteSucceeds(k) ==
  /\ running /\ IsNext(k) /\ buffer[k].kind # "quit"
  /\ Ran(k, "ok")
  /\ todo' = todo \ {k} /\ lastError' = StatusAfterSuccess
  /\ UNCHANGED <<option, source, count, eof, term, buffer, running, exit, batches>>

\* QUIT ends the source, be it the config file or the shell's input.
ExecuteQuit(k) ==
  /\ running /\ IsNext(k) /\ buffer[k].kind = "quit"
  /\ UNCHANGED <<option, batches>>
  /\ Ran(k, "quit")
  /\ SourceOver("ok")

\* A failing statement ends the source when errors abort.
AfterFailure(k) ==
  IF AbortOnError THEN SourceOver("error")
  ELSE /\ todo' = todo \ {k} /\ lastError' = "error"
       /\ UNCHANGED <<source, count, eof, term, buffer, running, exit>>

ExecuteFails(k) ==
  /\ running /\ IsNext(k) /\ buffer[k].kind # "quit"
  /\ UNCHANGED <<option, batches>>
  /\ Ran(k, "fail")
  /\ AfterFailure(k)

\* Faulty variant: the buffer is not cleared.
BatchEndsUncleared ==
  /\ running /\ todo = {}
  /\ running' = FALSE
  /\ UNCHANGED <<option, source, count, eof, term, buffer, todo, lastError, exit, history>>

\* The batch is over; a syntax error is printed and leaves the status alone.
BatchEnds ==
  /\ running /\ todo = {}
  /\ running' = FALSE /\ buffer' = <<>>
  /\ UNCHANGED <<option, source, count, eof, term, todo, lastError, exit, history>>

SourceEnds ==
  /\ source # "over" /\ eof /\ ~running
  /\ UNCHANGED <<option, history>>
  /\ SourceOver(lastError)

\* The process ends with an error before a line is read.
NoInputFile ==
  /\ Unreadable
  /\ source' = "over" /\ exit' = 1
  /\ UNCHANGED <<option, count, eof, term, buffer, todo, running, lastError, history>>

Next ==
  \/ \E kind \in Kinds : ReadLine(kind)
  \/ \E k \in todo : ExecuteSucceeds(k) \/ ExecuteQuit(k) \/ ExecuteFails(k)
  \/ EndOfInput \/ BatchEnds \/ SourceEnds \/ NoInputFile

Spec == Init /\ [][Next]_vars

-----------------------------------------------------------------------------
(***************************************************************************)
(* Properties.                                                             *)
(***************************************************************************)

Before(a, b) ==
  (a.source = "config" /\ b.source = "main") \/ (a.source = b.source /\ a.line < b.line)

\* Statements run in the order they were typed, the config file's first, and
\* none runs twice.
OnceInOrder ==
  \A i, j \in DOMAIN executed : i < j => Before(executed[i], executed[j])

\* The exit code is that of the last statement executed: 1 exactly when it
\* failed, in the config file or in the input, or when there was no input file
\* to read; a syntax error does not count.
ExitIsLast ==
  source = "over" =>
    (exit = 1 <=> \/ option.missing
                  \/ executed # <<>> /\ executed[Len(executed)].how = "fail")

Executed(where, line) == \E i \in DOMAIN executed :
  executed[i].source = where /\ executed[i].line = line

\* The source was stopped by QUIT or by an error.
StopExecuted(where) == \E i \in DOMAIN executed :
  /\ executed[i].source = where
  /\ executed[i].how = "quit" \/ (executed[i].how = "fail" /\ (option.abort \/ where = "config"))

\* Once the process ends, every statement that was read in a source that was
\* not stopped has been executed, unless it follows a line of its batch that is
\* no whole statement; in particular the end of the input loses nothing.  And no
\* statement was executed that follows a bad line of its batch.
NothingSkipped ==
  source = "over" =>
    /\ \A b \in DOMAIN batches : LET lines == batches[b].lines IN
         \A j, k \in DOMAIN lines :
           lines[j].kind = "bad" /\ j < k => ~Executed(batches[b].source, lines[k].line)
    /\ \A b \in DOMAIN batches : LET lines == batches[b].lines IN
         \A k \in DOMAIN lines :
           lines[k].kind \in {"stmt", "quit"} =>
             \/ Executed(batches[b].source, lines[k].line)
             \/ StopExecuted(batches[b].source)
             \/ \E j \in 1..k - 1 : lines[j].kind \notin {"stmt", "quit"} \union Blank
    /\ buffer # <<>> => StopExecuted("main") \/ StopExecuted("config")
=============================================================================
