------------------------- MODULE PreparedStatement -------------------------
(***************************************************************************)
(* Prepared statements (connection.cpp): bind() records values, expand()    *)
(* writes them into the text as literals, and exec() hands the text to the  *)
(* lexer, which must read each of them as the value that was bound.         *)
(*                                                                          *)
(* A text is a sequence of symbols.  A symbol is one character, or one of   *)
(* these words: "true", "false" and "null", which are name characters, and  *)
(* "T", which stands for the text of an ISO-8601 timestamp.                 *)
(***************************************************************************)
EXTENDS Integers, Sequences, SequencesExt, FiniteSetsExt

CONSTANTS Templates,  \* the texts prepared
          Values,     \* the values bound
          Names,      \* the names they are bound to
          MaxIndex,   \* bound: the largest positional index used
          MaxBinds    \* bound: calls of bind()

Quote == "\""
Digits == {"1", "2"}
NameChars == Digits \union {"a", "b", "_", "true", "false", "null"}

ASSUME PreparedAssumption ==
  /\ \A n \in Names : n # <<>> /\ ToSet(n) \subseteq NameChars /\ n[1] \notin Digits
  /\ MaxIndex \in Nat /\ MaxBinds \in Nat

VARIABLES
  sql,        \* the text, fixed
  positional, \* positional_: the values by index
  named,      \* named_: pairs of a name and a value
  bind_error, \* bind_error_: has bind() been misused?
  result,     \* what expand() returned last, or NoResult
  binds       \* history: the calls of bind()

statementVars == <<sql, positional, named, bind_error, result, binds>>

NoResult == [ok |-> FALSE, out |-> <<>>, asked |-> FALSE]
Failure == [ok |-> FALSE, out |-> <<>>, asked |-> TRUE]

Null == [type |-> "NUL"]

InitStatement ==
  /\ sql \in Templates
  /\ positional = <<>> /\ named = <<>> /\ bind_error = FALSE
  /\ result = NoResult /\ binds = <<>>

-----------------------------------------------------------------------------
(***************************************************************************)
(* render_literal.                                                         *)
(***************************************************************************)

Joined(parts) ==
  FlattenSeq([i \in DOMAIN parts |-> IF i = 1 THEN parts[i] ELSE <<",", " ">> \o parts[i]])

\* Faulty variant: a quote inside a string is written as it is.
Unescaped(s) == s

\* A quote inside a string is doubled.
escaped(s) == FlattenSeq([i \in DOMAIN s |-> IF s[i] = Quote THEN <<Quote, Quote>> ELSE <<s[i]>>])

\* Binary values and sets have no literal.
RECURSIVE has_literal(_)
has_literal(v) ==
  CASE v.type \in {"B", "SS", "NS", "BS"} -> FALSE
    [] v.type = "L" -> \A i \in DOMAIN v.list : has_literal(v.list[i])
    [] v.type = "M" -> \A i \in DOMAIN v.map : has_literal(v.map[i].value)
    [] OTHER -> TRUE

RECURSIVE render_literal(_)
render_literal(v) ==
  CASE v.type = "S" -> <<Quote>> \o escaped(v.s) \o <<Quote>>
    [] v.type = "N" -> v.s
    [] v.type = "BOOL" -> <<IF v.boolean THEN "true" ELSE "false">>
    [] v.type = "NUL" -> <<"null">>
    [] v.type = "L" ->
         <<"[">> \o Joined([i \in DOMAIN v.list |-> render_literal(v.list[i])]) \o <<"]">>
    [] v.type = "M" ->
         <<"{">> \o Joined([i \in DOMAIN v.map |->
                              <<Quote>> \o escaped(v.map[i].name) \o <<Quote, ":">>
                                \o render_literal(v.map[i].value)]) \o <<"}">>

-----------------------------------------------------------------------------
(***************************************************************************)
(* bind and expand.                                                        *)
(***************************************************************************)

\* positional_ grows to the index; the values in between are null.
BindAt(index, v) ==
  /\ Len(binds) < MaxBinds
  /\ binds' = Append(binds, [by |-> "index", key |-> index, value |-> v])
  /\ IF index < 1 THEN bind_error' = TRUE /\ UNCHANGED positional
     ELSE /\ positional' = [i \in 1 .. Max({index, Len(positional)}) |->
                              IF i = index THEN v
                              ELSE IF i <= Len(positional) THEN positional[i] ELSE Null]
          /\ UNCHANGED bind_error
  /\ result' = NoResult
  /\ UNCHANGED <<sql, named>>

\* A name that is bound again keeps its place.
Rebound(name, v) ==
  IF \E k \in DOMAIN named : named[k].name = name
  THEN [k \in DOMAIN named |-> IF named[k].name = name THEN [named[k] EXCEPT !.value = v]
                               ELSE named[k]]
  ELSE Append(named, [name |-> name, value |-> v])

BindNamed(name, v) ==
  /\ Len(binds) < MaxBinds
  /\ binds' = Append(binds, [by |-> "name", key |-> name, value |-> v])
  /\ named' = Rebound(name, v)
  /\ result' = NoResult
  /\ UNCHANGED <<sql, positional, bind_error>>

\* The symbol at i, "end" behind the text.
At(i) == IF i <= Len(sql) THEN sql[i] ELSE "end"

\* A name that starts at i, as expand() delimits it.
NameAt(i) ==
  LET ends == {j \in i .. Len(sql) + 1 : At(j) \notin NameChars}
  IN  SubSeq(sql, i, Min(ends) - 1)

Bindings(name) == {k \in DOMAIN named : named[k].name = name}

\* The loop of expand() from the symbol at s.i on.  It ends with s.ok FALSE
\* when a placeholder has no value, or a value no literal.
RECURSIVE Scan(_)
Scan(s) ==
  LET c == At(s.i)
      Copy(n) == [s EXCEPT !.out = @ \o SubSeq(sql, s.i, s.i + n - 1), !.i = @ + n]
      Fill(v, n) == [s EXCEPT !.out = @ \o render_literal(v), !.i = @ + n]
      stop == [s EXCEPT !.ok = FALSE]
      name == NameAt(s.i + 1)
      ks == Bindings(name)
      v == named[Min(ks)].value
  IN  CASE c = "end" -> s
        [] c # "end" /\ s.in_string ->
             IF c # Quote THEN Scan(Copy(1))
             ELSE IF At(s.i + 1) = Quote THEN Scan(Copy(2))
             ELSE Scan([Copy(1) EXCEPT !.in_string = FALSE])
        [] ~s.in_string /\ c = Quote -> Scan([Copy(1) EXCEPT !.in_string = TRUE])
        [] ~s.in_string /\ c = "?" ->
             IF s.next >= Len(positional) \/ ~has_literal(positional[s.next + 1]) THEN stop
             ELSE Scan([Fill(positional[s.next + 1], 1) EXCEPT !.next = @ + 1])
        [] ~s.in_string /\ c = ":" /\ At(s.i + 1) \in NameChars \ Digits /\ ks # {} ->
             IF ~has_literal(v) THEN stop
             ELSE Scan([Fill(v, Len(name) + 1) EXCEPT !.used = @ \union {Min(ks)}])
        [] OTHER -> Scan(Copy(1))

\* Faulty variant: only the positional values are counted.
AllUsedPositional(s) == s.next = Len(positional)

AllUsed(s) == s.next = Len(positional) /\ s.used = DOMAIN named

\* expand(), which exec() and query() call first.
Expand ==
  /\ ~result.asked
  /\ result' =
       IF bind_error THEN Failure
       ELSE LET s == Scan([i |-> 1, in_string |-> FALSE, out |-> <<>>, next |-> 0, used |-> {},
                           ok |-> TRUE])
            IN  IF s.ok /\ AllUsed(s) THEN [ok |-> TRUE, out |-> s.out, asked |-> TRUE]
                ELSE Failure
  /\ UNCHANGED <<sql, positional, named, bind_error, binds>>

NextStatement ==
  \/ \E v \in Values : \/ \E index \in 0 .. MaxIndex : BindAt(index, v)
                       \/ \E name \in Names : BindNamed(name, v)
  \/ Expand

StatementSpec == InitStatement /\ [][NextStatement]_statementVars

-----------------------------------------------------------------------------
(***************************************************************************)
(* The lexer, by the longest match of its rules.                           *)
(***************************************************************************)

\* How far a run of symbols of the set reaches from i on.
RunEnd(t, i, set) ==
  Max({j \in i - 1 .. Len(t) : \A m \in i .. j : t[m] \in set})

\* The quotes inside a string come in pairs.
Paired(t) ==
  \A i, j \in DOMAIN t :
    /\ i <= j /\ \A m \in i .. j : t[m] = Quote
    /\ i = 1 \/ t[i - 1] # Quote
    /\ j = Len(t) \/ t[j + 1] # Quote
    => (j - i) % 2 = 1

StringEnds(t, i) ==
  {j \in i + 1 .. Len(t) : t[j] = Quote /\ Paired(SubSeq(t, i + 1, j - 1))}

\* unquote strips the outer quotes of a string and leaves the doubled ones.
\* Each token keeps where it starts.
TokenAt(t, i) ==
  LET next == IF i < Len(t) THEN t[i + 1] ELSE "end"
      number == CASE t[i] \in Digits -> RunEnd(t, i, Digits)
                  [] t[i] = "-" /\ next \in Digits -> RunEnd(t, i + 1, Digits)
                  [] OTHER -> 0
      word == IF t[i] \in NameChars THEN RunEnd(t, i, NameChars \union {"-"}) ELSE 0
      Token(kind, from, to, end) ==
        [kind |-> kind, text |-> SubSeq(t, from, to), at |-> i, end |-> end]
  IN  CASE t[i] = " " -> Token("blank", i, i, i)
        [] t[i] = "-" /\ next = "-" -> Token("comment", i, Len(t), Len(t))
        [] t[i] = Quote /\ StringEnds(t, i) # {} ->
             LET j == Max(StringEnds(t, i))
             IN  Token(IF SubSeq(t, i + 1, j - 1) = <<"T">> THEN "timestamp" ELSE "string",
                       i + 1, j - 1, j)
        [] number > 0 /\ number >= word -> Token("number", i, number, number)
        [] word > number -> Token("word", i, word, word)
        [] OTHER -> Token("raw", i, i, i)

RECURSIVE Lex(_, _)
Lex(t, i) ==
  IF i > Len(t) THEN <<>> ELSE <<TokenAt(t, i)>> \o Lex(t, TokenAt(t, i).end + 1)

-----------------------------------------------------------------------------
(***************************************************************************)
(* Properties.                                                             *)
(***************************************************************************)

\* Tokens as the grammar sees them.
Read(tokens) ==
  LET seen == SelectSeq(tokens, LAMBDA k : k.kind \notin {"blank", "comment"})
  IN  [i \in DOMAIN seen |-> [kind |-> seen[i].kind, text |-> seen[i].text]]

Raw(c) == [kind |-> "raw", text |-> <<c>>]

\* A string value, as a token to compare with what was read.
StringToken(s) == [kind |-> "bound string", text |-> s]

\* The tokens a value is to be read as.
RECURSIVE TokensOf(_)
TokensOf(v) ==
  LET Word(w) == [kind |-> "word", text |-> <<w>>]
      Listed(parts) ==
        FlattenSeq([i \in DOMAIN parts |-> IF i = 1 THEN parts[i] ELSE <<Raw(",")>> \o parts[i]])
  IN  CASE v.type = "S" -> <<StringToken(v.s)>>
        [] v.type = "N" -> <<[kind |-> "number", text |-> v.s]>>
        [] v.type = "BOOL" -> <<Word(IF v.boolean THEN "true" ELSE "false")>>
        [] v.type = "NUL" -> <<Word("null")>>
        [] v.type = "L" ->
             <<Raw("[")>> \o Listed([i \in DOMAIN v.list |-> TokensOf(v.list[i])]) \o <<Raw("]")>>
        [] v.type = "M" ->
             <<Raw("{")>> \o Listed([i \in DOMAIN v.map |->
                                       <<StringToken(v.map[i].name), Raw(":")>>
                                         \o TokensOf(v.map[i].value)]) \o <<Raw("}")>>

\* The value the calls of bind() gave a key last, null for an index passed over.
Bound(by, key) ==
  LET given == {n \in DOMAIN binds : binds[n].by = by /\ binds[n].key = key}
  IN  IF given = {} THEN Null ELSE binds[Max(given)].value

Keys(by) == {binds[n].key : n \in {m \in DOMAIN binds : binds[m].by = by}}

\* The placeholders of the text, among its tokens: a question mark, or a colon
\* with a bound name right behind it.
PositionalIn(ts) == {k \in DOMAIN ts : ts[k].kind = "raw" /\ ts[k].text = <<"?">>}
NamedIn(ts) ==
  {k \in DOMAIN ts : /\ ts[k].kind = "raw" /\ ts[k].text = <<":">> /\ k < Len(ts)
                     /\ ts[k + 1].kind = "word" /\ ts[k + 1].text \in Keys("name")}

\* The text with every placeholder replaced by what was bound to it.
Substituted(ts) ==
  FlattenSeq([k \in DOMAIN ts |->
    CASE k \in PositionalIn(ts) ->
           TokensOf(Bound("index", Cardinality({m \in PositionalIn(ts) : m <= k})))
      [] k \in NamedIn(ts) -> TokensOf(Bound("name", ts[k + 1].text))
      [] k - 1 \in NamedIn(ts) -> <<>>
      [] OTHER -> Read(<<ts[k]>>)])

\* A text whose strings end and that has no comment, with a blank, an equals
\* sign or nothing on both sides of its placeholders.
Clean(ts) ==
  /\ \A k \in DOMAIN ts : ts[k].kind # "comment" /\ ts[k].text # <<Quote>>
  /\ \A k \in DOMAIN ts :
       \/ k \in PositionalIn(ts)
       \/ ts[k].kind = "raw" /\ ts[k].text = <<":">> /\ NameAt(ts[k].at + 1) \in Keys("name")
       =>
         LET behind == IF ts[k].text = <<"?">> THEN ts[k].at + 1
                       ELSE ts[k].at + 1 + Len(NameAt(ts[k].at + 1))
         IN  /\ ts[k].at = 1 \/ At(ts[k].at - 1) \in {" ", "="}
             /\ At(behind) \in {" ", "=", "end"}

\* A string whose quotes the lexer does not leave doubled, and that it does not
\* take for a timestamp.
PlainString(t) == Quote \notin ToSet(t) /\ t # <<"T">>

\* Tokens read where others were meant; of a bound string that is not plain
\* only that it is one literal.
ReadAs(got, meant) ==
  /\ Len(got) = Len(meant)
  /\ \A i \in DOMAIN got :
       CASE meant[i].kind # "bound string" -> got[i] = meant[i]
         [] meant[i].kind = "bound string" /\ PlainString(meant[i].text) ->
              got[i] = [kind |-> "string", text |-> meant[i].text]
         [] OTHER -> got[i].kind \in {"string", "timestamp"}

\* In a clean text the lexer reads every placeholder as the value bound to it
\* last, and everything else as it stands, strings that hold placeholders
\* included.  A string value that holds quotes or looks like a timestamp is read
\* as one literal, whatever question marks and colons are in it; what that
\* literal says is left out here: see QuotesReparse and TimestampsReparse.
ExpandedIsBound ==
  result.ok /\ Clean(Lex(sql, 1)) =>
    ReadAs(Read(Lex(result.out, 1)), Substituted(Lex(sql, 1)))

\* Bound strings of one kind are read as they are.
StringsReparse(ofKind(_)) ==
  result.ok /\ Clean(Lex(sql, 1)) =>
    LET got == Read(Lex(result.out, 1))
        meant == Substituted(Lex(sql, 1))
    IN  /\ Len(got) = Len(meant)
        /\ \A i \in DOMAIN meant :
             meant[i].kind = "bound string" /\ ofKind(meant[i].text) =>
               got[i] = [meant[i] EXCEPT !.kind = "string"]

\* `The ddbsh source literal that re-parses to it (the inverse of the lexer's
\* literal rules)' (connection.cpp:42), for strings with a quote: unquote leaves
\* the quotes doubled.
QuotesReparse == StringsReparse(LAMBDA s : Quote \in ToSet(s))

\* The same for strings like a timestamp, which the lexer takes for one.
TimestampsReparse == StringsReparse(LAMBDA s : s = <<"T">>)

\* Named placeholders without a value: a colon with a name right behind it, but
\* for the colon behind the quoted name of a map literal.
Unknown(ts) ==
  {k \in DOMAIN ts :
     /\ ts[k].kind = "raw" /\ ts[k].text = <<":">> /\ k < Len(ts)
     /\ ts[k + 1].kind = "word" /\ ts[k + 1].text \notin Keys("name")
     /\ k > 1 => ts[k - 1].kind # "string"}

\* expand() fails exactly when a call used an index below one, the placeholders
\* and the indexes do not match, a bound name does not occur, or a value has no
\* literal.  Texts with a named placeholder that has no value are left out: see
\* UnknownIsAnError.
FailsForACause ==
  result.asked /\ Clean(Lex(sql, 1)) /\ Unknown(Lex(sql, 1)) = {} =>
    LET ts == Lex(sql, 1)
    IN  result.ok <=>
          /\ 0 \notin Keys("index")
          /\ Cardinality(PositionalIn(ts)) = Max(Keys("index") \union {0})
          /\ Keys("name") = {ts[k + 1].text : k \in NamedIn(ts)}
          /\ \A by \in {"index", "name"} : \A key \in Keys(by) : has_literal(Bound(by, key))

\* `An unknown placeholder ... is an Errc::invalid_argument error'
\* (connection.hpp:300): expand() fails on a named placeholder nobody bound.  It
\* leaves it in the text.
UnknownIsAnError ==
  result.asked /\ Clean(Lex(sql, 1)) /\ Unknown(Lex(sql, 1)) # {} => ~result.ok

\* The three claims together.  The formula is weaker than each of them, so the one
\* statement that breaks it refutes them all.
ALiteralClaimHolds == QuotesReparse \/ TimestampsReparse \/ UnknownIsAnError
=============================================================================
