----------------------------- MODULE ReplProofs -----------------------------
(***************************************************************************)
(* Proofs about Repl for inputs of any length.                             *)
(***************************************************************************)
EXTENDS Repl, TLAPS

USE DEF history, vars

Sources == {"config", "main"}
Line == [kind: AllKinds, line: Nat]
Batch == [source: Sources, lines: Seq(Line)]
Execution == [source: Sources, line: Nat, how: {"ok", "quit", "fail"}]

\* The types of what is counted and compared.
ReplType ==
  /\ option \in [abort: BOOLEAN, term: {"word", "blank"}, missing: BOOLEAN]
  /\ source \in Sources \union {"over"} /\ count \in Nat
  /\ eof \in BOOLEAN /\ running \in BOOLEAN
  /\ buffer \in Seq(Line) /\ todo \subseteq DOMAIN buffer
  /\ lastError \in {"none", "ok", "error"} /\ exit \in {0, 1}
  /\ executed \in Seq(Execution)
  /\ batches \in Seq(Batch)

\* What is still to be executed of the lines in the buffer.
Pending == IF running THEN todo ELSE DOMAIN buffer

\* Is it the batch that is being run?
IsRunning(b) == running /\ b = Len(batches)

\* Lines are in the order they were read, in the buffer and in every batch.
Ordered ==
  /\ \A j, k \in DOMAIN buffer : j < k => buffer[j].line < buffer[k].line
  /\ \A k \in DOMAIN buffer : buffer[k].line <= count
  /\ \A b \in DOMAIN batches : \A j, k \in DOMAIN batches[b].lines :
       j < k => batches[b].lines[j].line < batches[b].lines[k].line

\* What was executed of a source was read before what is pending of it.
Fresh ==
  source # "over" => \A i \in DOMAIN executed :
    /\ source = "config" => executed[i].source = "config"
    /\ executed[i].source = source =>
         executed[i].line <= count /\ \A k \in Pending : executed[i].line < buffer[k].line

\* The batch that is being run is the buffer, and its statements stand before
\* its first syntax error; the batches that are over were read before it.
Settled ==
  source # "over" =>
    /\ running => /\ batches # <<>> /\ todo \subseteq Statements(buffer)
                  /\ batches[Len(batches)].source = source
                  /\ batches[Len(batches)].lines = buffer
    /\ \A b \in DOMAIN batches :
         /\ source = "config" => batches[b].source = "config"
         /\ batches[b].source = source =>
              \A k \in DOMAIN batches[b].lines :
                /\ batches[b].lines[k].line <= count
                /\ ~IsRunning(b) => \A j \in DOMAIN buffer : batches[b].lines[k].line < buffer[j].line

\* The status is that of the last statement, also while the source is read.
Status ==
  /\ source # "over" => (lastError = "error" <=> executed # <<>> /\ executed[Len(executed)].how = "fail")
  /\ source = "config" => lastError # "error"
  /\ ExitIsLast

\* No statement is executed after a bad line of its batch.
NoneAfterBad ==
  \A b \in DOMAIN batches : \A j, k \in DOMAIN batches[b].lines :
    batches[b].lines[j].kind = "bad" /\ j < k => ~Executed(batches[b].source, batches[b].lines[k].line)

\* A statement of a batch has been executed or still will be, unless its source
\* was stopped or a line before it is no whole statement.
Accounted ==
  \A b \in DOMAIN batches : \A k \in DOMAIN batches[b].lines :
    batches[b].lines[k].kind \in {"stmt", "quit"} =>
      \/ Executed(batches[b].source, batches[b].lines[k].line)
      \/ StopExecuted(batches[b].source)
      \/ source # "over" /\ IsRunning(b) /\ k \in todo
      \/ \E j \in 1..k - 1 : batches[b].lines[j].kind \notin {"stmt", "quit"} \union Blank

\* Between batches there is nothing to execute, and the end of a source leaves
\* nothing in the buffer unless it was stopped.
Emptied ==
  /\ source # "over" /\ ~running => todo = {}
  /\ source # "over" /\ eof /\ ~running => buffer = <<>>
  /\ source = "over" => running = FALSE /\ (buffer # <<>> => StopExecuted("main") \/ StopExecuted("config"))

\* Nothing is read of a file that cannot be opened.
Unread == Unreadable => ~running /\ ~eof /\ buffer = <<>>

IInv == Unread /\ ReplType /\ Ordered /\ Fresh /\ Settled /\ OnceInOrder /\ Status /\ NoneAfterBad /\ Accounted /\ Emptied

\* A line of the buffer or of a batch has a number, and so has what was executed.
LEMMA Numbered ==
  ASSUME ReplType
  PROVE  /\ \A k \in DOMAIN buffer : buffer[k].line \in Nat
         /\ \A i \in DOMAIN executed : executed[i].line \in Nat /\ executed[i].source \in Sources
         /\ \A b \in DOMAIN batches : batches[b].lines \in Seq(Line) /\ batches[b].source \in Sources
         /\ \A b \in DOMAIN batches : \A k \in DOMAIN batches[b].lines : batches[b].lines[k].line \in Nat
<1>1. \A k \in DOMAIN buffer : buffer[k] \in Line
  BY DEF ReplType
<1>2. \A i \in DOMAIN executed : executed[i] \in Execution
  BY DEF ReplType
<1>3. \A b \in DOMAIN batches : batches[b] \in Batch
  BY DEF ReplType
<1>4. \A b \in DOMAIN batches : batches[b].lines \in Seq(Line) /\ batches[b].source \in Sources
  BY <1>3 DEF Batch
<1>5. \A b \in DOMAIN batches : \A k \in DOMAIN batches[b].lines : batches[b].lines[k] \in Line
  BY <1>4
<1> QED
  BY <1>1, <1>2, <1>4, <1>5 DEF Line, Execution

\* The shell starts with the invariant.
LEMMA IInvInit == Init => IInv
<1> SUFFICES ASSUME Init PROVE IInv
  OBVIOUS
<1>1. executed = <<>> /\ batches = <<>> /\ buffer = <<>> /\ todo = {}
  BY DEF Init
<1>2. ReplType
  <2>1. buffer \in Seq(Line) /\ executed \in Seq(Execution) /\ batches \in Seq(Batch)
    BY <1>1
  <2>2. option \in [abort: BOOLEAN, term: {"word", "blank"}, missing: BOOLEAN]
    BY DEF Init
  <2> QED
    BY <1>1, <2>1, <2>2 DEF Init, ReplType, Sources
<1>3. Ordered /\ Fresh /\ Settled /\ OnceInOrder /\ NoneAfterBad /\ Accounted
  BY <1>1 DEF Init, Ordered, Fresh, Settled, OnceInOrder, NoneAfterBad, Accounted
<1>4. Status /\ Emptied
  BY <1>1 DEF Init, Status, ExitIsLast, Emptied
<1>5. Unread
  BY <1>1 DEF Init, Unread
<1> QED
  BY <1>2, <1>3, <1>4, <1>5 DEF IInv

\* What a statement more changes in the history.
LEMMA Grows ==
  ASSUME ReplType, option' = option, NEW e \in Execution, executed' = Append(executed, e)
  PROVE  /\ executed' \in Seq(Execution) /\ executed' # <<>>
         /\ executed'[Len(executed')] = e
         /\ \A i \in DOMAIN executed' : (i \in DOMAIN executed /\ executed'[i] = executed[i])
                                        \/ (i = Len(executed) + 1 /\ executed'[i] = e)
         /\ \A w, l : Executed(w, l) => Executed(w, l)'
         /\ \A w, l : Executed(w, l)' => Executed(w, l) \/ (w = e.source /\ l = e.line)
         /\ Executed(e.source, e.line)'
         /\ \A w : StopExecuted(w) => StopExecuted(w)'
         /\ e.how = "quit" \/ (e.how = "fail" /\ (option.abort \/ e.source = "config")) => StopExecuted(e.source)'
<1>1. executed \in Seq(Execution)
  BY DEF ReplType
<1>2. /\ executed' \in Seq(Execution) /\ Len(executed') = Len(executed) + 1 /\ Len(executed) \in Nat
      /\ DOMAIN executed = 1..Len(executed) /\ DOMAIN executed' = 1..Len(executed) + 1
      /\ executed'[Len(executed) + 1] = e
      /\ \A i \in 1..Len(executed) : executed'[i] = executed[i]
  BY <1>1
<1> HIDE DEF Execution
<1>3. \A i \in DOMAIN executed' : (i \in DOMAIN executed /\ executed'[i] = executed[i])
                                  \/ (i = Len(executed) + 1 /\ executed'[i] = e)
  BY <1>2
<1>4. \A i \in DOMAIN executed : i \in DOMAIN executed' /\ executed'[i] = executed[i]
  BY <1>2
<1>5. Len(executed) + 1 \in DOMAIN executed' /\ executed' # <<>>
  BY <1>2
<1>6. \A w, l : Executed(w, l) => Executed(w, l)'
  BY <1>4 DEF Executed
<1>7. \A w, l : Executed(w, l)' => Executed(w, l) \/ (w = e.source /\ l = e.line)
  BY <1>3 DEF Executed
<1>8. Executed(e.source, e.line)'
  BY <1>2, <1>5 DEF Executed
<1>9. \A w : StopExecuted(w) => StopExecuted(w)'
  BY <1>4 DEF StopExecuted
<1>10. e.how = "quit" \/ (e.how = "fail" /\ (option.abort \/ e.source = "config")) => StopExecuted(e.source)'
  BY <1>2, <1>5 DEF StopExecuted
<1> QED
  BY <1>2, <1>3, <1>5, <1>6, <1>7, <1>8, <1>9, <1>10

-----------------------------------------------------------------------------
(***************************************************************************)
(* Collecting a batch.                                                     *)
(***************************************************************************)

\* A line more in the buffer, and a directive, keep the invariant.
LEMMA CollectKeeps ==
  ASSUME IInv, source # "over", ~Unreadable, ~running, ~eof, count' = count + 1, NEW kind \in AllKinds,
         buffer' = buffer \/ buffer' = <<>> \/ buffer' = Append(buffer, [kind |-> kind, line |-> count + 1]),
         UNCHANGED <<option, source, eof, todo, running, lastError, exit, executed, batches>>
  PROVE  IInv'
<1> USE DEF IInv
<1> DEFINE line == [kind |-> kind, line |-> count + 1]
<1>1. count \in Nat /\ todo = {} /\ buffer \in Seq(Line)
  BY DEF ReplType, Emptied
<1>2. line \in Line /\ line.line = count + 1
  BY <1>1 DEF Line
<1>3. buffer' = buffer \/ buffer' = <<>> \/ buffer' = Append(buffer, line)
  OBVIOUS
<1> HIDE DEF line
<1>4. buffer' \in Seq(Line)
  <2>1. <<>> \in Seq(Line) /\ Append(buffer, line) \in Seq(Line)
    BY <1>1, <1>2
  <2> QED
    BY <1>1, <1>3, <2>1
<1>5. \A k \in DOMAIN buffer' : \/ k \in DOMAIN buffer /\ buffer'[k] = buffer[k]
                                \/ k = Len(buffer) + 1 /\ buffer'[k].line = count + 1
  <2>1. CASE buffer' = Append(buffer, line)
    <3>1. /\ DOMAIN buffer = 1..Len(buffer) /\ DOMAIN buffer' = 1..Len(buffer) + 1 /\ Len(buffer) \in Nat
          /\ buffer'[Len(buffer) + 1] = line /\ \A k \in 1..Len(buffer) : buffer'[k] = buffer[k]
      BY <1>1, <1>2, <2>1
    <3> QED
      BY <1>2, <3>1
  <2>2. CASE buffer' = buffer \/ buffer' = <<>>
    BY <2>2
  <2> QED
    BY <1>3, <2>1, <2>2
<1>6. DOMAIN buffer = 1..Len(buffer) /\ Len(buffer) \in Nat
  BY <1>1, <1>4
<1>7. \A k \in DOMAIN buffer : buffer[k].line \in Nat
  BY Numbered
<1>8. ReplType'
  BY <1>1, <1>4 DEF ReplType
<1>9. Ordered'
  <2>1. \A k \in DOMAIN buffer' : buffer'[k].line <= count'
    BY <1>1, <1>4, <1>5, <1>7 DEF Ordered
  <2>2. \A j, k \in DOMAIN buffer' : j < k => buffer'[j].line < buffer'[k].line
    BY <1>1, <1>4, <1>5, <1>6, <1>7 DEF Ordered
  <2> QED
    BY <2>1, <2>2 DEF Ordered
<1>10. Fresh'
  <2>1. \A i \in DOMAIN executed : executed[i].line \in Nat
    BY Numbered
  <2> QED
    BY <1>1, <1>4, <1>5, <2>1 DEF Fresh, Pending
<1>11. Settled'
  <2>1. \A b \in DOMAIN batches : \A k \in DOMAIN batches[b].lines : batches[b].lines[k].line \in Nat
    BY Numbered
  <2>2. ASSUME NEW b \in DOMAIN batches, batches[b].source = source, NEW k \in DOMAIN batches[b].lines
        PROVE  /\ batches[b].lines[k].line <= count'
               /\ \A j \in DOMAIN buffer' : batches[b].lines[k].line < buffer'[j].line
    BY <1>1, <1>4, <1>5, <2>1, <2>2 DEF Settled, IsRunning
  <2> QED
    BY <2>2 DEF Settled
<1>12. OnceInOrder' /\ Status' /\ Emptied'
  BY <1>1, <1>4 DEF OnceInOrder, Before, Status, ExitIsLast, Emptied
<1>13. NoneAfterBad' /\ Accounted'
  BY DEF NoneAfterBad, Accounted, Executed, StopExecuted, IsRunning
<1>14. Unread'
  BY DEF Unread, Unreadable
<1> QED
  BY <1>8, <1>9, <1>10, <1>11, <1>12, <1>13, <1>14

\* The statements of a batch that can be executed are those no bad line precedes,
\* and a whole statement that cannot has a line before it that is none.
LEMMA StatementsAre ==
  ASSUME NEW lines \in Seq(Line)
  PROVE  /\ Statements(lines) \subseteq DOMAIN lines
         /\ \A j \in DOMAIN lines, k \in Statements(lines) : lines[j].kind = "bad" => k < j
         /\ \A k \in DOMAIN lines : lines[k].kind \in {"stmt", "quit"} =>
              \/ k \in Statements(lines)
              \/ \E j \in 1..k - 1 : lines[j].kind \notin {"stmt", "quit"} \union Blank
<1>1. DOMAIN lines = 1..Len(lines) /\ Len(lines) \in Nat
  OBVIOUS
<1>2. Statements(lines) \subseteq DOMAIN lines
  BY DEF Statements
<1>3. \A j \in DOMAIN lines : lines[j].kind = "bad" => j \in Broken(lines)
  BY DEF Broken, Parses, Blank
<1>4. \A j \in DOMAIN lines, k \in Statements(lines) : lines[j].kind = "bad" => k < j
  BY <1>3 DEF Statements
<1>5. ASSUME NEW k \in DOMAIN lines, lines[k].kind \in {"stmt", "quit"}, k \notin Statements(lines)
      PROVE  \E j \in 1..k - 1 : lines[j].kind \notin {"stmt", "quit"} \union Blank
  <2>1. PICK j \in Broken(lines) : ~(k < j)
    BY <1>5 DEF Statements, Blank
  <2>2. j \in DOMAIN lines /\ lines[j].kind \notin {"stmt", "quit"} \union Blank
    BY <2>1 DEF Broken, Parses
  <2>3. j \in 1..k - 1
    BY <1>1, <1>5, <2>1, <2>2
  <2> QED
    BY <2>2, <2>3
<1> QED
  BY <1>2, <1>4, <1>5

\* flush keeps the invariant, at a terminator and at the end of the input.
LEMMA FlushKeeps ==
  ASSUME IInv, source # "over", ~Unreadable, ~running, Flush, count' \in Nat, count <= count', eof' \in BOOLEAN,
         UNCHANGED <<option, source, buffer, lastError, exit, executed>>
  PROVE  IInv'
<1> USE DEF IInv
<1>1. count \in Nat /\ todo = {} /\ buffer \in Seq(Line) /\ source \in Sources
  BY DEF ReplType, Emptied
<1>2. \A k \in DOMAIN buffer : buffer[k].line \in Nat
  BY Numbered
<1>3. \A i \in DOMAIN executed : executed[i].line \in Nat
  BY Numbered
<1>4. \A b \in DOMAIN batches : \A k \in DOMAIN batches[b].lines : batches[b].lines[k].line \in Nat
  BY Numbered
<1>5. OnceInOrder' /\ Status'
  BY <1>1 DEF OnceInOrder, Before, Status, ExitIsLast
<1>6. Unread'
  BY DEF Unread, Unreadable
<1>7. CASE buffer = <<>>
  <2>1. UNCHANGED <<todo, running, batches>>
    BY <1>7 DEF Flush
  <2>2. ReplType'
    BY <2>1 DEF ReplType
  <2>3. Ordered'
    BY <1>1, <1>2, <2>1 DEF Ordered
  <2>4. Fresh'
    BY <1>1, <1>3, <2>1 DEF Fresh, Pending
  <2>5. Settled'
    BY <1>1, <1>4, <2>1 DEF Settled, IsRunning
  <2>6. Emptied'
    BY <1>1, <1>7, <2>1 DEF Emptied
  <2>7. NoneAfterBad' /\ Accounted'
    BY <2>1 DEF NoneAfterBad, Accounted, Executed, StopExecuted, IsRunning
  <2> QED
    BY <1>5, <1>6, <2>2, <2>3, <2>4, <2>5, <2>6, <2>7
<1>8. CASE buffer # <<>>
  <2> DEFINE batch == [source |-> source, lines |-> buffer]
             n == Len(batches)
  <2>1. todo' = Statements(buffer) /\ running' = TRUE /\ batches' = Append(batches, batch)
    BY <1>8 DEF Flush
  <2>2. batch \in Batch /\ batch.source = source /\ batch.lines = buffer
    BY <1>1 DEF Batch
  <2>3. batches \in Seq(Batch)
    BY DEF ReplType
  <2> HIDE DEF batch
  <2>4. /\ batches' \in Seq(Batch)
        /\ n \in Nat /\ Len(batches') = n + 1 /\ batches' # <<>>
        /\ DOMAIN batches = 1..n /\ DOMAIN batches' = 1..n + 1
        /\ batches'[n + 1] = batch /\ \A b \in 1..n : batches'[b] = batches[b]
    BY <2>1, <2>2, <2>3
  <2> HIDE DEF n
  <2>5. \A b \in DOMAIN batches' : \/ b \in DOMAIN batches /\ batches'[b] = batches[b] /\ b # n + 1
                                   \/ b = n + 1 /\ batches'[b].source = source /\ batches'[b].lines = buffer
    BY <2>2, <2>4
  <2>6. ReplType'
    BY <1>1, <2>1, <2>4, StatementsAre DEF ReplType
  <2>7. Ordered'
    BY <1>1, <1>2, <2>5 DEF Ordered
  <2>8. todo' \subseteq DOMAIN buffer
    BY <1>1, <2>1, StatementsAre
  <2>9. Fresh'
    BY <1>1, <1>3, <2>1, <2>8 DEF Fresh, Pending
  <2>10. Settled'
    <3>1. /\ batches' # <<>> /\ todo' \subseteq Statements(buffer)'
          /\ batches'[Len(batches')].source = source' /\ batches'[Len(batches')].lines = buffer'
      BY <2>1, <2>2, <2>4
    <3>2. ASSUME NEW b \in DOMAIN batches'
          PROVE  /\ source = "config" => batches'[b].source = "config"
                 /\ batches'[b].source = source =>
                      \A k \in DOMAIN batches'[b].lines :
                        /\ batches'[b].lines[k].line <= count'
                        /\ b # n + 1 => \A j \in DOMAIN buffer : batches'[b].lines[k].line < buffer[j].line
      <4>1. CASE b \in DOMAIN batches /\ batches'[b] = batches[b]
        BY <1>1, <1>4, <4>1 DEF Settled, IsRunning
      <4>2. CASE b = n + 1 /\ batches'[b].source = source /\ batches'[b].lines = buffer
        BY <1>1, <1>2, <4>2 DEF Ordered
      <4> QED
        BY <2>5, <4>1, <4>2
    <3> QED
      BY <2>1, <2>4, <3>1, <3>2 DEF Settled, IsRunning
  <2>11. NoneAfterBad'
    <3>1. \A k \in DOMAIN buffer : ~Executed(source, buffer[k].line)
      BY <1>2, <1>3 DEF Fresh, Pending, Executed
    <3>2. \A w, l : Executed(w, l)' = Executed(w, l)
      BY DEF Executed
    <3> QED
      BY <2>5, <3>1, <3>2 DEF NoneAfterBad
  <2>12. Accounted'
    <3>1. \A w, l : Executed(w, l)' = Executed(w, l)
      BY DEF Executed
    <3>2. \A w : StopExecuted(w)' = StopExecuted(w)
      BY DEF StopExecuted
    <3>3. \A b \in DOMAIN batches' : b = n + 1 => IsRunning(b)'
      BY <2>1, <2>4 DEF IsRunning
    <3>4. \A b \in DOMAIN batches : ~IsRunning(b)
      BY DEF IsRunning
    <3>5. ASSUME NEW b \in DOMAIN batches', NEW k \in DOMAIN batches'[b].lines,
                 batches'[b].lines[k].kind \in {"stmt", "quit"}
          PROVE  \/ Executed(batches'[b].source, batches'[b].lines[k].line)
                 \/ StopExecuted(batches'[b].source)
                 \/ IsRunning(b)' /\ k \in todo'
                 \/ \E j \in 1..k - 1 : batches'[b].lines[j].kind \notin {"stmt", "quit"} \union Blank
      <4>1. CASE b \in DOMAIN batches /\ batches'[b] = batches[b]
        BY <3>4, <3>5, <4>1 DEF Accounted
      <4>2. CASE b = n + 1 /\ batches'[b].source = source /\ batches'[b].lines = buffer
        BY <1>1, <2>1, <3>3, <3>5, <4>2, StatementsAre
      <4> QED
        BY <2>5, <4>1, <4>2
    <3> QED
      BY <3>1, <3>2, <3>5 DEF Accounted
  <2>13. Emptied'
    BY <2>1 DEF Emptied
  <2> QED
    BY <1>5, <1>6, <2>6, <2>7, <2>9, <2>10, <2>11, <2>12, <2>13
<1> QED
  BY <1>7, <1>8

-----------------------------------------------------------------------------
(***************************************************************************)
(* Running a batch.                                                        *)
(***************************************************************************)

\* What stays true of the history when the next statement is executed, with k
\* the statement's place in the batch.
ExecutedWell(k) ==
  /\ executed' \in Seq(Execution) /\ OnceInOrder' /\ NoneAfterBad'
  /\ \A i \in DOMAIN executed' :
       /\ source = "config" => executed'[i].source = "config"
       /\ executed'[i].source = source =>
            executed'[i].line <= count /\ \A j \in todo \ {k} : executed'[i].line < buffer[j].line
  /\ \A b \in DOMAIN batches : \A j \in DOMAIN batches[b].lines :
       batches[b].lines[j].kind \in {"stmt", "quit"} =>
         \/ Executed(batches[b].source, batches[b].lines[j].line)'
         \/ StopExecuted(batches[b].source)'
         \/ IsRunning(b) /\ j \in todo \ {k}
         \/ \E l \in 1..j - 1 : batches[b].lines[l].kind \notin {"stmt", "quit"} \union Blank

\* Executing the next statement of a batch does it no harm.
LEMMA ExecutesWell ==
  ASSUME IInv, source # "over", running, UNCHANGED <<option, batches>>,
         NEW k \in todo, IsNext(k), NEW how \in {"ok", "quit", "fail"}, Ran(k, how)
  PROVE  /\ ExecutedWell(k) /\ executed' # <<>> /\ executed'[Len(executed')].how = how
         /\ how = "quit" \/ (how = "fail" /\ AbortOnError) => \A s : s = source => StopExecuted(s)'
<1> USE DEF IInv
<1>1. k \in DOMAIN buffer /\ buffer[k].line \in Nat /\ source \in Sources /\ count \in Nat
  BY Numbered DEF ReplType
<1>2. PICK e : e = [source |-> source, line |-> buffer[k].line, how |-> how]
  OBVIOUS
<1>3. /\ e \in Execution /\ e.source = source /\ e.line = buffer[k].line /\ e.how = how
      /\ executed' = Append(executed, e)
  BY <1>1, <1>2 DEF Execution, Ran
<1>4. /\ executed' \in Seq(Execution) /\ executed' # <<>> /\ executed'[Len(executed')] = e
      /\ \A i \in DOMAIN executed' : (i \in DOMAIN executed /\ executed'[i] = executed[i])
                                     \/ (i = Len(executed) + 1 /\ executed'[i] = e)
      /\ \A w, l : Executed(w, l) => Executed(w, l)'
      /\ \A w, l : Executed(w, l)' => Executed(w, l) \/ (w = e.source /\ l = e.line)
      /\ Executed(e.source, e.line)'
      /\ \A w : StopExecuted(w) => StopExecuted(w)'
      /\ e.how = "quit" \/ (e.how = "fail" /\ (option.abort \/ e.source = "config")) => StopExecuted(e.source)'
  BY <1>3, Grows
<1>5. how = "quit" \/ (how = "fail" /\ AbortOnError) => \A s : s = source => StopExecuted(s)'
  BY <1>3, <1>4 DEF AbortOnError
<1>6. \A i \in DOMAIN executed :
        /\ source = "config" => executed[i].source = "config"
        /\ executed[i].source = source =>
             executed[i].line <= count /\ \A j \in todo : executed[i].line < buffer[j].line
  BY DEF Fresh, Pending
<1>7. \A j \in todo \ {k} : buffer[k].line < buffer[j].line
  <2>1. todo \subseteq DOMAIN buffer /\ DOMAIN buffer = 1..Len(buffer) /\ Len(buffer) \in Nat
    BY DEF ReplType
  <2>2. \A j \in todo \ {k} : k < j
    BY <1>1, <2>1 DEF IsNext
  <2> QED
    BY <1>1, <2>1, <2>2 DEF Ordered
<1>8. ASSUME NEW i \in DOMAIN executed'
      PROVE  /\ source = "config" => executed'[i].source = "config"
             /\ executed'[i].source = source =>
                  executed'[i].line <= count /\ \A j \in todo \ {k} : executed'[i].line < buffer[j].line
  <2>1. CASE i \in DOMAIN executed /\ executed'[i] = executed[i]
    BY <1>6, <2>1
  <2>2. CASE executed'[i] = e
    BY <1>1, <1>3, <1>7, <2>2 DEF Ordered
  <2> QED
    BY <1>4, <2>1, <2>2
<1>9. OnceInOrder'
  <2>1. DOMAIN executed = 1..Len(executed) /\ Len(executed) \in Nat
    BY DEF ReplType
  <2>2. \A i \in DOMAIN executed : Before(executed[i], e)
    <3>1. \A i \in DOMAIN executed : executed[i].source \in Sources
      BY Numbered
    <3> QED
      BY <1>1, <1>3, <1>6, <3>1 DEF Before, Sources
  <2>3. ASSUME NEW i \in DOMAIN executed', NEW j \in DOMAIN executed', i < j
        PROVE  Before(executed'[i], executed'[j])
    <3>1. i \in DOMAIN executed /\ executed'[i] = executed[i]
      <4>1. DOMAIN executed' = 1..Len(executed')
        BY <1>4
      <4> QED
        BY <1>4, <2>1, <2>3, <4>1
    <3>2. CASE j \in DOMAIN executed /\ executed'[j] = executed[j]
      BY <2>3, <3>1, <3>2 DEF OnceInOrder
    <3>3. CASE executed'[j] = e
      BY <2>2, <3>1, <3>3
    <3> QED
      BY <1>4, <3>2, <3>3
  <2> QED
    BY <2>3 DEF OnceInOrder, Before
<1>10. \A b \in DOMAIN batches : batches[b].source = source => 
         \/ b = Len(batches) /\ batches[b].lines = buffer
         \/ \A j \in DOMAIN batches[b].lines : batches[b].lines[j].line < buffer[k].line
  BY <1>1 DEF Settled, IsRunning
<1>11. NoneAfterBad'
  <2> SUFFICES ASSUME NEW b \in DOMAIN batches, NEW j \in DOMAIN batches[b].lines, NEW l \in DOMAIN batches[b].lines,
                      batches[b].lines[j].kind = "bad", j < l
               PROVE  ~Executed(batches[b].source, batches[b].lines[l].line)'
    BY DEF NoneAfterBad
  <2>1. ~Executed(batches[b].source, batches[b].lines[l].line)
    BY DEF NoneAfterBad
  <2>2. batches[b].source = source => batches[b].lines[l].line # buffer[k].line
    <3> SUFFICES ASSUME batches[b].source = source PROVE batches[b].lines[l].line # buffer[k].line
      OBVIOUS
    <3>1. CASE \A m \in DOMAIN batches[b].lines : batches[b].lines[m].line < buffer[k].line
      BY <1>1, <3>1
    <3>2. CASE batches[b].lines = buffer
      <4>1. k < j
        BY <3>2, StatementsAre DEF Settled, ReplType
      <4>2. j \in DOMAIN buffer /\ l \in DOMAIN buffer /\ DOMAIN buffer = 1..Len(buffer) /\ Len(buffer) \in Nat
        BY <3>2 DEF ReplType
      <4>3. k < l
        BY <1>1, <4>1, <4>2
      <4>4. buffer[k].line < buffer[l].line
        BY <1>1, <4>2, <4>3 DEF Ordered
      <4> QED
        BY <1>1, <3>2, <4>4
    <3> QED
      BY <1>10, <3>1, <3>2
  <2>3. ~Executed(batches[b].source, batches[b].lines[l].line)'
    BY <1>3, <1>4, <2>1, <2>2
  <2> QED
    BY <2>3
<1>12. ASSUME NEW b \in DOMAIN batches, NEW j \in DOMAIN batches[b].lines,
              batches[b].lines[j].kind \in {"stmt", "quit"}
       PROVE  \/ Executed(batches[b].source, batches[b].lines[j].line)'
              \/ StopExecuted(batches[b].source)'
              \/ IsRunning(b) /\ j \in todo \ {k}
              \/ \E l \in 1..j - 1 : batches[b].lines[l].kind \notin {"stmt", "quit"} \union Blank
  <2>1. CASE IsRunning(b) /\ j = k
    <3>1. batches[b].source = source /\ batches[b].lines = buffer
      BY <2>1 DEF Settled, IsRunning
    <3> QED
      BY <1>3, <1>4, <2>1, <3>1
  <2>2. CASE ~(IsRunning(b) /\ j = k)
    BY <1>4, <1>12, <2>2 DEF Accounted
  <2> QED
    BY <2>1, <2>2
<1> QED
  BY <1>3, <1>4, <1>5, <1>8, <1>9, <1>11, <1>12 DEF ExecutedWell

\* A batch goes on after a statement.
LEMMA GoesOnKeeps ==
  ASSUME IInv, source # "over", running, NEW k \in todo, ExecutedWell(k),
         executed' # <<>>, executed'[Len(executed')].how = "fail" <=> lastError' = "error",
         lastError' \in {"ok", "error"}, lastError' = "error" => source # "config",
         todo' = todo \ {k},
         UNCHANGED <<option, source, count, eof, buffer, running, exit, batches>>
  PROVE  IInv'
<1> USE DEF IInv
<1>1. ReplType'
  BY DEF ReplType, ExecutedWell
<1>2. Ordered' /\ Emptied' /\ OnceInOrder' /\ NoneAfterBad'
  BY DEF Ordered, Emptied, ExecutedWell
<1>3. Fresh'
  BY DEF Fresh, Pending, ExecutedWell
<1>4. Settled'
  BY DEF Settled, IsRunning
<1>5. Status'
  BY DEF Status, ExitIsLast
<1>6. Accounted'
  BY DEF Accounted, ExecutedWell, IsRunning
<1>7. Unread'
  BY DEF Unread, Unreadable
<1> QED
  BY <1>1, <1>2, <1>3, <1>4, <1>5, <1>6, <1>7

\* A source is over: the next one begins, or the process ends.
LEMMA SourceOverKeeps ==
  ASSUME IInv, source # "over", ~Unreadable, UNCHANGED <<option, batches>>, NEW status \in {"none", "ok", "error"}, SourceOver(status),
         executed' \in Seq(Execution), OnceInOrder', NoneAfterBad',
         \A i \in DOMAIN executed' : source = "config" => executed'[i].source = "config",
         status = "error" <=> executed' # <<>> /\ executed'[Len(executed')].how = "fail",
         \A b \in DOMAIN batches : \A j \in DOMAIN batches[b].lines :
           batches[b].lines[j].kind \in {"stmt", "quit"} =>
             \/ Executed(batches[b].source, batches[b].lines[j].line)'
             \/ StopExecuted(batches[b].source)'
             \/ \E l \in 1..j - 1 : batches[b].lines[l].kind \notin {"stmt", "quit"} \union Blank,
         buffer # <<>> => \A s : s = source => StopExecuted(s)'
  PROVE  IInv'
<1> USE DEF IInv
<1>1. Accounted'
  BY DEF Accounted
<1>2. source \in Sources
  BY DEF ReplType
<1>3. CASE source = "config" /\ status # "error"
  <2>1. /\ source' = "main" /\ count' = 0 /\ eof' = FALSE /\ buffer' = <<>> /\ todo' = {} /\ running' = FALSE
        /\ lastError' = "none" /\ exit' = exit
    BY <1>3 DEF SourceOver
  <2>2. ReplType'
    <3>1. buffer' \in Seq(Line)
      BY <2>1
    <3> QED
      BY <2>1, <3>1 DEF ReplType, Sources
  <2>3. Ordered' /\ Emptied'
    BY <2>1 DEF Ordered, Emptied
  <2>4. Fresh'
    BY <1>3, <2>1 DEF Fresh
  <2>5. Settled'
    BY <1>3, <2>1 DEF Settled
  <2>6. Status' /\ Unread'
    BY <1>3, <2>1 DEF Status, ExitIsLast, Unread
  <2> QED
    BY <1>1, <2>2, <2>3, <2>4, <2>5, <2>6
<1>4. CASE ~(source = "config" /\ status # "error")
  <2>1. /\ source' = "over" /\ exit' = (IF status = "error" THEN 1 ELSE 0) /\ running' = FALSE
        /\ lastError' = status /\ UNCHANGED <<count, eof, buffer, todo>>
    BY <1>4 DEF SourceOver
  <2>2. ReplType'
    BY <2>1 DEF ReplType
  <2>3. Ordered' /\ Fresh' /\ Settled'
    BY <2>1 DEF Ordered, Fresh, Settled
  <2>4. Emptied'
    BY <1>2, <2>1 DEF Emptied, Sources
  <2>5. Status' /\ Unread'
    <3>1. option.missing => source = "config"
      BY <1>2 DEF Unreadable, Sources
    <3> QED
      BY <1>4, <2>1, <3>1 DEF Status, ExitIsLast, Unread, Unreadable
  <2> QED
    BY <1>1, <2>2, <2>3, <2>4, <2>5
<1> QED
  BY <1>3, <1>4

-----------------------------------------------------------------------------
(***************************************************************************)
(* The theorems.                                                           *)
(***************************************************************************)

\* Every step of the shell keeps the invariant.
LEMMA IInvNext == IInv /\ [Next]_vars => IInv'
<1> SUFFICES ASSUME IInv, [Next]_vars PROVE IInv'
  OBVIOUS
<1>1. ASSUME NEW kind \in Kinds, ReadLine(kind) PROVE IInv'
  <2>1. kind \in AllKinds /\ count \in Nat /\ eof \in BOOLEAN
    BY ReplAssumption DEF IInv, ReplType
  <2>2. CASE UNCHANGED <<todo, running, batches>> /\ buffer' = buffer
    BY <1>1, <2>1, <2>2, CollectKeeps DEF ReadLine
  <2>3. CASE Flush /\ UNCHANGED buffer
    BY <1>1, <2>1, <2>3, FlushKeeps DEF ReadLine
  <2>4. CASE /\ buffer' = Collected(Append(buffer, [kind |-> kind, line |-> count']))
             /\ UNCHANGED <<todo, running, batches>>
    <3>1. count' = count + 1
      BY <1>1 DEF ReadLine
    <3>2. buffer' = <<>> \/ buffer' = Append(buffer, [kind |-> kind, line |-> count + 1])
      BY <2>4, <3>1 DEF Collected
    <3> QED
      BY <1>1, <2>1, <2>4, <3>1, <3>2, CollectKeeps DEF ReadLine
  <2> QED
    BY <1>1, <2>2, <2>3, <2>4 DEF ReadLine
<1>2. CASE EndOfInput
  <2>1. count \in Nat
    BY DEF IInv, ReplType
  <2> QED
    BY <1>2, <2>1, FlushKeeps DEF EndOfInput
<1>3. ASSUME NEW k \in todo, ExecuteSucceeds(k) \/ ExecuteQuit(k) \/ ExecuteFails(k) PROVE IInv'
  <2>1. source # "over" /\ ~Unreadable /\ running /\ UNCHANGED <<option, batches>> /\ IsNext(k)
    BY <1>3 DEF ExecuteSucceeds, ExecuteQuit, ExecuteFails, IInv, Emptied, Unread
  <2>2. CASE ExecuteSucceeds(k)
    <3>1. ExecutedWell(k) /\ executed' # <<>> /\ executed'[Len(executed')].how = "ok"
      BY <2>1, <2>2, ExecutesWell DEF ExecuteSucceeds
    <3>2. lastError' = "ok"
      BY <2>2 DEF ExecuteSucceeds, StatusAfterSuccess
    <3> QED
      BY <2>1, <2>2, <3>1, <3>2, GoesOnKeeps DEF ExecuteSucceeds
  <2>3. CASE ExecuteQuit(k)
    <3>1. /\ ExecutedWell(k) /\ executed' # <<>> /\ executed'[Len(executed')].how = "quit"
          /\ \A s : s = source => StopExecuted(s)'
      BY <2>1, <2>3, ExecutesWell DEF ExecuteQuit
    <3>2. SourceOver("ok")
      BY <2>3 DEF ExecuteQuit
    <3>3. \A b \in DOMAIN batches : IsRunning(b) => batches[b].source = source
      BY <2>1 DEF IInv, Settled, IsRunning
    <3> QED
      BY <2>1, <3>1, <3>2, <3>3, SourceOverKeeps DEF ExecutedWell
  <2>4. CASE ExecuteFails(k) /\ AbortOnError
    <3>1. /\ ExecutedWell(k) /\ executed' # <<>> /\ executed'[Len(executed')].how = "fail"
          /\ \A s : s = source => StopExecuted(s)'
      BY <2>1, <2>4, ExecutesWell DEF ExecuteFails
    <3>2. SourceOver("error")
      BY <2>4 DEF ExecuteFails, AfterFailure
    <3>3. \A b \in DOMAIN batches : IsRunning(b) => batches[b].source = source
      BY <2>1 DEF IInv, Settled, IsRunning
    <3> QED
      BY <2>1, <3>1, <3>2, <3>3, SourceOverKeeps DEF ExecutedWell
  <2>5. CASE ExecuteFails(k) /\ ~AbortOnError
    <3>1. ExecutedWell(k) /\ executed' # <<>> /\ executed'[Len(executed')].how = "fail"
      BY <2>1, <2>5, ExecutesWell DEF ExecuteFails
    <3>2. source # "config" /\ lastError' = "error"
      BY <2>5 DEF ExecuteFails, AfterFailure, AbortOnError
    <3> QED
      BY <2>1, <2>5, <3>1, <3>2, GoesOnKeeps DEF ExecuteFails, AfterFailure
  <2> QED
    BY <1>3, <2>2, <2>3, <2>4, <2>5
<1>4. CASE BatchEnds
  <2>1. /\ running /\ todo = {} /\ running' = FALSE /\ buffer' = <<>> /\ source # "over"
        /\ UNCHANGED <<option, source, count, eof, todo, lastError, exit, executed, batches>>
    BY <1>4 DEF BatchEnds, IInv, Emptied
  <2>2. ReplType'
    <3>1. buffer' \in Seq(Line)
      BY <2>1
    <3> QED
      BY <2>1, <3>1 DEF IInv, ReplType
  <2>3. Ordered' /\ Emptied'
    BY <2>1 DEF IInv, Ordered, Emptied
  <2>4. Fresh' /\ Settled'
    BY <2>1 DEF IInv, Fresh, Pending, Settled, IsRunning
  <2>5. OnceInOrder' /\ Status' /\ NoneAfterBad'
    BY <2>1 DEF IInv, OnceInOrder, Status, ExitIsLast, NoneAfterBad, Executed
  <2>6. Accounted'
    BY <2>1 DEF IInv, Accounted, Executed, StopExecuted
  <2>7. Unread'
    BY <2>1 DEF IInv, Unread, Unreadable
  <2> QED
    BY <2>2, <2>3, <2>4, <2>5, <2>6, <2>7 DEF IInv
<1>5. CASE SourceEnds
  <2>1. /\ source # "over" /\ ~Unreadable /\ eof /\ ~running
        /\ UNCHANGED <<option, executed, batches>> /\ SourceOver(lastError)
    BY <1>5 DEF SourceEnds, IInv, Unread
  <2>2. buffer = <<>> /\ lastError \in {"none", "ok", "error"} /\ executed' \in Seq(Execution)
    BY <2>1 DEF IInv, Emptied, ReplType
  <2>3. OnceInOrder' /\ NoneAfterBad'
    BY <2>1 DEF IInv, OnceInOrder, NoneAfterBad, Executed
  <2>4. \A i \in DOMAIN executed' : source = "config" => executed'[i].source = "config"
    BY <2>1 DEF IInv, Fresh
  <2>5. lastError = "error" <=> executed' # <<>> /\ executed'[Len(executed')].how = "fail"
    BY <2>1 DEF IInv, Status
  <2>6. \A b \in DOMAIN batches : \A j \in DOMAIN batches[b].lines :
          batches[b].lines[j].kind \in {"stmt", "quit"} =>
            \/ Executed(batches[b].source, batches[b].lines[j].line)'
            \/ StopExecuted(batches[b].source)'
            \/ \E l \in 1..j - 1 : batches[b].lines[l].kind \notin {"stmt", "quit"} \union Blank
    BY <2>1 DEF IInv, Accounted, IsRunning, Executed, StopExecuted
  <2> QED
    BY <2>1, <2>2, <2>3, <2>4, <2>5, <2>6, SourceOverKeeps
<1>6. CASE NoInputFile
  <2>1. /\ source = "main" /\ option.missing /\ source' = "over" /\ exit' = 1
        /\ UNCHANGED <<option, count, eof, buffer, todo, running, lastError, executed, batches>>
    BY <1>6 DEF NoInputFile, Unreadable
  <2>2. buffer = <<>> /\ running = FALSE
    BY <1>6 DEF NoInputFile, IInv, Unread, ReplType
  <2>3. ReplType' /\ Ordered' /\ Fresh' /\ Settled' /\ OnceInOrder'
    BY <2>1 DEF IInv, ReplType, Ordered, Fresh, Settled, OnceInOrder
  <2>4. Status' /\ Emptied' /\ Unread'
    BY <2>1, <2>2 DEF IInv, Status, ExitIsLast, Emptied, Unread, Unreadable
  <2>5. NoneAfterBad'
    BY <2>1 DEF IInv, NoneAfterBad, Executed
  <2>6. Accounted'
    BY <2>1, <2>2 DEF IInv, Accounted, Executed, StopExecuted, IsRunning
  <2> QED
    BY <2>3, <2>4, <2>5, <2>6 DEF IInv
<1>7. CASE UNCHANGED vars
  BY <1>7 DEF IInv, Unread, Unreadable, ReplType, Ordered, Fresh, Pending, Settled, OnceInOrder, Status, ExitIsLast, NoneAfterBad,
     Accounted, Emptied, IsRunning, Executed, StopExecuted
<1> QED
  BY <1>1, <1>2, <1>3, <1>4, <1>5, <1>6, <1>7 DEF Next

\* Hence the invariant holds in every run of the shell.
LEMMA IInvAlways == Spec => []IInv
<1> QED
  BY IInvInit, IInvNext, PTL DEF Spec

\* The statements of the config file and of the input are executed once and in
\* the order they were typed, however the lines fall into batches.
THEOREM OnceInOrderCorrect == Spec => []OnceInOrder
<1>1. IInv => OnceInOrder
  BY DEF IInv
<1> QED
  BY <1>1, IInvAlways, PTL

\* The exit code of the process is that of the last statement main() executed,
\* unless its input file cannot be read.
THEOREM ExitIsLastCorrect == Spec => []ExitIsLast
<1>1. IInv => ExitIsLast
  BY DEF IInv, Status
<1> QED
  BY <1>1, IInvAlways, PTL

\* run_source and run_batch_text skip no statement but those after a line that
\* does not parse or after the source was stopped, and run none after a bad line.
THEOREM NothingSkippedCorrect == Spec => []NothingSkipped
<1>1. IInv => NothingSkipped
  BY DEF IInv, NoneAfterBad, Accounted, Emptied, NothingSkipped
<1> QED
  BY <1>1, IInvAlways, PTL
=============================================================================
