----------------------------- MODULE WherePlan -----------------------------
(***************************************************************************)
(* From the text of a WHERE clause to the requests that carry it           *)
(* (parser/grammar.yy, expressions/*.hpp).                                 *)
(*                                                                         *)
(* The state is the parser's stack of logical expressions, and an action   *)
(* is a reduction of the grammar.  Each entry carries the tree the code    *)
(* builds and, beside it, what the text reduced so far means: the set of   *)
(* items it is true of.  A complete clause is then planned the way SELECT, *)
(* UPDATE and DELETE plan it, and the requests are compared with the       *)
(* meaning.                                                                *)
(*                                                                         *)
(* Expression strings are modelled as trees.  What the code leaves out of  *)
(* a string is left out of the tree, a string that stays empty is Nothing, *)
(* and "()" is a conjunction of no parts, which the service rejects.       *)
(***************************************************************************)
EXTENDS Integers, Sequences, FiniteSets, SequencesExt

CONSTANTS Texts,       \* the elementary predicates considered
          Rare,        \* those of them that count twice against MaxTexts
          MaxTexts,    \* bound: predicates in a clause
          MaxMarks     \* bound: NOTs and pairs of parentheses in a clause

VARIABLE stack         \* what the parser has reduced so far

Missing == -1
Null == 0
Domain == 1..2

\* Items of a table with key attributes p and r, and one other attribute.
Items == [p: Domain, r: Domain, a: Domain \union {Missing, Null}]

\* The key schemas a clause is planned against: a table with a sort key, one
\* without, and an index whose sort key is made of two attributes.
Hash == [pk |-> <<"p">>, rk |-> <<>>]
HashRange == [pk |-> <<"p">>, rk |-> <<"r">>]
Composite == [pk |-> <<"p">>, rk |-> <<"r", "a">>]
Tables == {Hash, HashRange}
Schemas == {Hash, HashRange, Composite}

KeyOf(ks) == Range(ks.pk \o ks.rk)

\* An index lists only the items that have its key attributes.
InIndex(i, ks) == \A n \in KeyOf(ks) : i[n] \notin {Missing, Null}

-----------------------------------------------------------------------------
(***************************************************************************)
(* Expression trees.                                                       *)
(***************************************************************************)

\* lhs op v.
Comparison(lhs, op, v) ==
  [type |-> "comparison", lhs |-> lhs, op |-> op, v |-> v, neg |-> FALSE,
   paren |-> FALSE]

\* BETWEEN and begins_with.
RangePredicate(lhs, lo, hi) ==
  [type |-> "range", lhs |-> lhs, lo |-> lo, hi |-> hi, neg |-> FALSE, paren |-> FALSE]

\* IN, contains, attribute_type and attribute_exists.
FilterPredicate(lhs) ==
  [type |-> "filter", lhs |-> lhs, neg |-> FALSE, paren |-> FALSE]

Node(type, kids) == [type |-> type, kids |-> kids, neg |-> FALSE, paren |-> FALSE]

Negate(e) == [e EXCEPT !.neg = ~@]

SetParenGroup(e) == [e EXCEPT !.paren = TRUE]

IsNode(e) == e.type \in {"and", "or"}

\* Faulty variant: a negated first node takes the second as one more child.
CombineNegated(type, e1, e2) ==
  IF e1.type = type THEN [e1 EXCEPT !.kids = Append(@, e2)] ELSE Node(type, <<e1, e2>>)

\* make_and and make_or: children of the second expression are spliced into the
\* first when both are such nodes with the same negation and no parentheses; a
\* non-negated first node takes the second as one more child.
Combine(type, e1, e2) ==
  IF /\ e1.neg = e2.neg /\ e1.type = type /\ e2.type = type
     /\ ~e1.paren /\ ~e2.paren
  THEN [e1 EXCEPT !.kids = @ \o e2.kids]
  ELSE IF ~e1.neg /\ e1.type = type
  THEN [e1 EXCEPT !.kids = Append(@, e2)]
  ELSE Node(type, <<e1, e2>>)

\* Faulty variant: `!=' is built as `='.
ElementUnnegated(t) ==
  IF t.op = "is not null" THEN FilterPredicate(t.lhs)
  ELSE IF t.op \in {"exists", "not exists"} THEN FilterPredicate(t.lhs)
  ELSE Comparison(t.lhs, "=", t.v)

\* logical_expression_element: `!=' is a negated `=', IS NULL compares with null,
\* IS NOT NULL is two predicates joined by make_and, attribute_not_exists is a
\* negated attribute_exists.
Element(t) ==
  CASE t.op \in {"=", ">"} -> Comparison(t.lhs, t.op, t.v)
    [] t.op = "!=" -> Negate(Comparison(t.lhs, "=", t.v))
    [] t.op = "between" -> RangePredicate(t.lhs, t.v, t.v)
    [] t.op = "exists" -> FilterPredicate(t.lhs)
    [] t.op = "not exists" -> Negate(FilterPredicate(t.lhs))
    [] t.op = "is null" -> Comparison(t.lhs, "=", Null)
    [] t.op = "is not null" ->
         Combine("and", Negate(Comparison(t.lhs, "=", Null)), FilterPredicate(t.lhs))

\* What the service makes of an expression.  A comparison with an attribute that
\* is missing, or of another type, is false.
LeafHolds(e, i) ==
  CASE e.type = "comparison" /\ e.op = "=" -> i[e.lhs] = e.v
    [] e.type = "comparison" /\ e.op = ">" -> i[e.lhs] > e.v
    [] e.type = "range" -> i[e.lhs] \in e.lo..e.hi
    [] e.type = "filter" -> i[e.lhs] # Missing

RECURSIVE Holds(_, _)
Holds(e, i) ==
  e.neg # (CASE e.type = "and" -> \A n \in DOMAIN e.kids : Holds(e.kids[n], i)
             [] e.type = "or" -> \E n \in DOMAIN e.kids : Holds(e.kids[n], i)
             [] OTHER -> LeafHolds(e, i))

-----------------------------------------------------------------------------
(***************************************************************************)
(* Probes and fragments.                                                   *)
(***************************************************************************)

RECURSIVE Count(_)
Count(e) ==
  IF IsNode(e) THEN FoldSeq(LAMBDA k, n : n + Count(k), 0, e.kids) ELSE 1

RECURSIVE CountOf(_, _)
CountOf(e, lhs) ==
  IF IsNode(e) THEN FoldSeq(LAMBDA k, n : n + CountOf(k, lhs), 0, e.kids)
  ELSE IF e.lhs = lhs THEN 1 ELSE 0

\* Non-negated equalities on lhs, outside any OR.  A conjunction adds up its
\* children whether it is negated itself or not.
RECURSIVE CountGudKey(_, _)
CountGudKey(e, lhs) ==
  CASE e.type = "and" -> FoldSeq(LAMBDA k, n : n + CountGudKey(k, lhs), 0, e.kids)
    [] e.type = "comparison" /\ e.op = "=" /\ ~e.neg /\ e.lhs = lhs -> 1
    [] OTHER -> 0

\* The values such equalities give lhs; the code keeps one of them.
RECURSIVE GudValues(_, _)
GudValues(e, lhs) ==
  CASE e.type = "and" -> UNION {GudValues(k, lhs) : k \in Range(e.kids)}
    [] e.type = "comparison" /\ CountGudKey(e, lhs) = 1 -> {e.v}
    [] OTHER -> {}

RECURSIVE QuerySafe(_, _, _)
QuerySafe(e, pk, sk) ==
  CASE e.type = "and" -> \A k \in Range(e.kids) : QuerySafe(k, pk, sk)
    [] e.type = "or" -> /\ \A n \in pk \union sk : CountOf(e, n) = 0
                        /\ \A k \in Range(e.kids) : QuerySafe(k, pk, sk)
    [] e.type = "comparison" -> /\ e.lhs \in pk => e.op = "=" /\ ~e.neg
                                /\ e.lhs \in sk => ~(e.op = "=" /\ e.neg)
    [] e.type = "range" -> e.lhs \in pk \union sk => e.lhs \in sk /\ ~e.neg
    [] e.type = "filter" -> e.lhs \notin pk \union sk

Nothing == [type |-> "nothing"]

\* The " AND " join of the children's fragments that are not empty, put in
\* parentheses for a paren group whether or not anything is left in it.
Join(e, parts) ==
  LET left == SelectSeq(parts, LAMBDA part : part # Nothing)
  IN  IF left = <<>> /\ ~e.paren THEN Nothing ELSE [e EXCEPT !.kids = left]

RECURSIVE KeyCondition(_, _, _)
KeyCondition(e, pk, sk) ==
  CASE e.type = "and" ->
         Join(e, [n \in DOMAIN e.kids |-> KeyCondition(e.kids[n], pk, sk)])
    [] e.type = "comparison" /\ e.lhs \in pk \union sk -> e
    [] e.type = "range" /\ e.lhs \in sk /\ ~e.neg -> e
    [] OTHER -> Nothing

RECURSIVE FilterOf(_, _, _)
FilterOf(e, pk, sk) ==
  CASE e.type = "and" ->
         Join(e, [n \in DOMAIN e.kids |-> FilterOf(e.kids[n], pk, sk)])
    [] e.type = "comparison" /\ e.lhs \in pk \union sk -> Nothing
    [] e.type = "range" /\ e.lhs \in sk -> Nothing
    [] OTHER -> e

\* The residual condition of a write: at the top, and under ANDs, predicates on
\* a key attribute that are not negated are left out.
RECURSIVE ConditionCheck(_, _, _)
ConditionCheck(e, key, top) ==
  CASE e.type = "and" ->
         Join(e, [n \in DOMAIN e.kids |-> ConditionCheck(e.kids[n], key, top)])
    [] e.type = "or" ->
         Join(e, [n \in DOMAIN e.kids |-> ConditionCheck(e.kids[n], key, FALSE)])
    [] e.type \in {"comparison", "range"} /\ top /\ ~e.neg /\ e.lhs \in key -> Nothing
    [] OTHER -> e

-----------------------------------------------------------------------------
(***************************************************************************)
(* class Where.                                                            *)
(***************************************************************************)


\* can_update_item and can_delete_item.
CanUpdateItem(e, ks) ==
  \A n \in KeyOf(ks) : CountGudKey(e, n) = 1

\* Faulty variant: predicates beside the key are tolerated.
CanGetFiltered(e, ks) == CanUpdateItem(e, ks)

CanGetItem(e, ks) == Count(e) = Len(ks.pk \o ks.rk) /\ CanUpdateItem(e, ks)

\* The sort keys the clause mentions, and whether they form a gap-free prefix.
SortPrefix(e, ks) == SelectSeq(ks.rk, LAMBDA n : CountOf(e, n) > 0)

\* Faulty variant: predicates that no key condition can hold do not matter.
PlansUnsafeQuery(e, ks) ==
  \A n \in Range(ks.pk) : CountGudKey(e, n) = 1 /\ CountOf(e, n) = 1

PlansQuery(e, ks) ==
  LET prefix == SortPrefix(e, ks)
  IN  /\ \A n \in Range(ks.pk) : CountGudKey(e, n) = 1 /\ CountOf(e, n) = 1
      /\ prefix = SubSeq(ks.rk, 1, Len(prefix))
      /\ \A n \in 1..(Len(prefix) - 1) :
           CountGudKey(e, prefix[n]) = 1 /\ CountOf(e, prefix[n]) = 1
      /\ QuerySafe(e, Range(ks.pk), Range(prefix))

QueryKeyCondition(e, ks) == KeyCondition(e, Range(ks.pk), Range(SortPrefix(e, ks)))

QueryFilter(e, ks) == FilterOf(e, Range(ks.pk), Range(SortPrefix(e, ks)))

WriteCondition(e, ks) == ConditionCheck(e, KeyOf(ks), TRUE)

True(e, i) == e = Nothing \/ Holds(e, i)

\* The items under the key that get_gud_key takes from the clause.
HasGudKey(e, i, ks) == \A n \in KeyOf(ks) : i[n] \in GudValues(e, n)

\* The items that the Query or Scan planned for the clause lists.
Lists(e, ks) ==
  {i \in Items : /\ InIndex(i, ks)
                 /\ IF PlansQuery(e, ks)
                    THEN /\ True(QueryKeyCondition(e, ks), i)
                         /\ True(QueryFilter(e, ks), i)
                    ELSE Holds(e, i)}

\* The items a SELECT returns; only a base table has GetItem.
Selects(e, ks) ==
  IF ks \in Tables /\ CanGetItem(e, ks)
  THEN {i \in Items : HasGudKey(e, i, ks)}
  ELSE Lists(e, ks)

-----------------------------------------------------------------------------
(***************************************************************************)
(* The parser.  An entry of the stack is a reduced logical_expression: the *)
(* tree, the items its text is true of, how tightly its last operator      *)
(* binds, and the number of predicates and of NOTs and parentheses in it.  *)
(***************************************************************************)

\* What a predicate says of an item, as SQL readers read it.
Says(t, i) ==
  CASE t.op = "=" -> i[t.lhs] = t.v
    [] t.op = ">" -> i[t.lhs] > t.v
    [] t.op = "!=" -> i[t.lhs] # t.v
    [] t.op = "between" -> i[t.lhs] = t.v
    [] t.op = "exists" -> i[t.lhs] # Missing
    [] t.op = "not exists" -> i[t.lhs] = Missing
    [] t.op = "is null" -> i[t.lhs] = Null
    [] t.op = "is not null" -> i[t.lhs] \notin {Missing, Null}

Sum(field(_)) == FoldSeq(LAMBDA entry, n : n + field(entry), 0, stack)
TextsRead == Sum(LAMBDA entry : entry.texts)
MarksRead == Sum(LAMBDA entry : entry.marks)

InitParser == stack = <<>>

Weight(t) == IF t \in Rare THEN 2 ELSE 1

ReduceElement(t) ==
  /\ TextsRead + Weight(t) <= MaxTexts
  /\ stack' = Append(stack, [expr |-> Element(t), means |-> {i \in Items : Says(t, i)},
                            binds |-> "atom", texts |-> Weight(t), marks |-> 0])

\* Replace the last n entries by one.
Reduce(n, entry) ==
  stack' = Append(SubSeq(stack, 1, Len(stack) - n), entry)

ReduceNot ==
  /\ stack # <<>> /\ MarksRead < MaxMarks
  /\ LET e == Last(stack)
     IN  /\ e.binds \in {"atom", "not"}
         /\ Reduce(1, [e EXCEPT !.expr = Negate(@), !.means = Items \ @,
                                !.binds = "not", !.marks = @ + 1])

ReduceParen ==
  /\ stack # <<>> /\ MarksRead < MaxMarks
  /\ LET e == Last(stack)
     IN  Reduce(1, [e EXCEPT !.expr = SetParenGroup(@), !.binds = "atom",
                            !.marks = @ + 1])

\* AND binds tighter than OR, both associate to the left.
ReduceBinary(type, left, right, meaning(_, _)) ==
  /\ Len(stack) >= 2
  /\ LET e2 == Last(stack)
         e1 == stack[Len(stack) - 1]
     IN  /\ e1.binds \in left /\ e2.binds \in right
         /\ Reduce(2, [expr |-> Combine(type, e1.expr, e2.expr),
                       means |-> meaning(e1.means, e2.means), binds |-> type,
                       texts |-> e1.texts + e2.texts, marks |-> e1.marks + e2.marks])

ReduceAnd ==
  ReduceBinary("and", {"atom", "not", "and"}, {"atom", "not"},
               LAMBDA x, y : x \intersect y)

ReduceOr ==
  ReduceBinary("or", {"atom", "not", "and", "or"}, {"atom", "not", "and"},
               LAMBDA x, y : x \union y)

NextReduction ==
  \/ \E t \in Texts : ReduceElement(t)
  \/ ReduceNot \/ ReduceParen \/ ReduceAnd \/ ReduceOr

ParserSpec == InitParser /\ [][NextReduction]_stack

-----------------------------------------------------------------------------
(***************************************************************************)
(* What the service accepts.                                               *)
(***************************************************************************)

Complete == Len(stack) = 1
Tree == stack[1].expr
Meaning == stack[1].means

RECURSIVE NodesOf(_)
NodesOf(e) ==
  {e} \union (IF IsNode(e) THEN UNION {NodesOf(k) : k \in Range(e.kids)} ELSE {})

SameKey(i, j, ks) == \A n \in KeyOf(ks) : i[n] = j[n]

\* Strings the service can parse.
NoEmptyGroup(e) == e = Nothing \/ \A k \in NodesOf(e) : IsNode(k) => k.kids # <<>>

\* A KeyConditionExpression it accepts: predicates joined by AND, one equality
\* for each partition key and at most one predicate for each sort key.
LegalKeyCondition(e, ks) ==
  /\ \A k \in NodesOf(e) : ~k.neg /\ k.type # "or"
  /\ \A n \in Range(ks.pk) : CountOf(e, n) = 1 /\ CountGudKey(e, n) = 1
  /\ \A n \in Range(ks.rk) : CountOf(e, n) <= 1

\* A FilterExpression it accepts: nothing about the key of what is read.
LegalFilter(e, ks) == e = Nothing \/ \A n \in KeyOf(ks) : CountOf(e, n) = 0

(***************************************************************************)
(* Forms of clauses that the properties set apart.                         *)
(***************************************************************************)

\* The conjunctions that are not below an OR.
RECURSIVE Conjunctions(_)
Conjunctions(e) ==
  IF e.type = "and" THEN {e} \union UNION {Conjunctions(k) : k \in Range(e.kids)} ELSE {}

\* NOT (p = 1 AND r = 1): count_gud_key does not look at the NOT.
NegatesConjunction(e) == \E k \in Conjunctions(e) : k.neg

\* NOT (a IS NOT NULL): make_and splices the two predicates of IS NOT NULL.
NegatesIsNotNull(e) ==
  \E k \in NodesOf(e) :
    /\ k.type = "and" /\ k.neg
    /\ \E kid \in Range(k.kids) : kid.type = "comparison" /\ kid.v = Null /\ kid.neg

\* r > 1 AND r < 5: two predicates on one key attribute.
RepeatsKey(e, ks) == \E n \in KeyOf(ks) : CountOf(e, n) > 1

\* NOT r > 1.
NegatesKeyComparison(e, ks) ==
  \E k \in NodesOf(e) : k.type = "comparison" /\ k.neg /\ k.lhs \in KeyOf(ks)

-----------------------------------------------------------------------------
(***************************************************************************)
(* Properties of a complete clause.                                        *)
(***************************************************************************)

TreeIsText == {i \in Items : Holds(Tree, i)} = Meaning

\* Parsing keeps the meaning: NOT, parentheses, precedence, the desugaring of
\* predicates and the flattening of nested ANDs and ORs together leave a tree
\* that is true of the items the text is true of (unless it negates an IS NOT
\* NULL, which make_and splices).
TreeFaithful == Complete /\ ~NegatesIsNotNull(Tree) => TreeIsText

\* Whichever request plan_select chooses, a SELECT whose request the service
\* accepts returns the items of the table or index that its WHERE is true of: the
\* key, the key condition and the filter it is divided into lose nothing and add
\* nothing.  Two forms are excepted: the NOT of an IS NOT NULL (see
\* TreeFaithful), and the NOT of a conjunction outside any OR (see KeyIsText).
SelectFaithful ==
  Complete /\ ~NegatesIsNotNull(Tree) /\ ~NegatesConjunction(Tree) =>
    \A ks \in Schemas :
      Selects(Tree, ks) = {i \in Meaning : InIndex(i, ks)}

SingleWriteIsText(ks) ==
  CanUpdateItem(Tree, ks) =>
    {i \in Items : HasGudKey(Tree, i, ks) /\ True(WriteCondition(Tree, ks), i)} = Meaning

BulkWriteIsText(ks) ==
  ~CanUpdateItem(Tree, ks) =>
    \A read \in Schemas : \A i \in Lists(Tree, read) :
      /\ True(WriteCondition(Tree, ks), i)
      /\ \A j \in Items : SameKey(i, j, ks) /\ True(WriteCondition(Tree, ks), j)
                           => j \in Meaning


\* Where plan_query chooses a Query, no attribute of the key that is queried is
\* in its filter, and its key condition is one equality for each partition key
\* and at most one predicate for each sort key, joined by AND; the exceptions
\* for the key condition are a sort key with two predicates and a NOT over a key
\* predicate (see QuerySafeIsLegal).
RequestsLegal ==
  Complete => \A ks \in Schemas : PlansQuery(Tree, ks) =>
    /\ LegalFilter(QueryFilter(Tree, ks), ks)
    /\ \/ RepeatsKey(Tree, ks)
       \/ NegatesKeyComparison(Tree, ks)
       \/ NegatesConjunction(Tree)
       \/ LegalKeyCondition(QueryKeyCondition(Tree, ks), ks)

(***************************************************************************)
(* What comments of the code say of every clause.  None of them is true.   *)
(***************************************************************************)

\* logical_comparison.hpp:10: "A non-negated `=` on the partition/sort key is the
\* only form that counts toward a GetItem/Update/Delete key."  So where SELECT
\* becomes a GetItem, the item under the key is the one the WHERE is true of.
KeyIsText ==
  Complete => \A ks \in Tables : CanGetItem(Tree, ks) => Selects(Tree, ks) = Meaning

\* where.hpp:13: can_update_item needs the "full PK present; extra predicates are
\* tolerated (they become the ConditionExpression)."  So the single write takes
\* effect on the item the WHERE is true of and on no other.
ExtrasAreKept == Complete => \A ks \in Tables : SingleWriteIsText(ks)

\* logical_expression.hpp:130: query_safe is "True if the whole subtree is legal
\* inside a Query for the given key schema", and plan_query asks it.  So the key
\* condition of a planned Query is legal.
QuerySafeIsLegal ==
  Complete => \A ks \in Schemas :
    PlansQuery(Tree, ks) => LegalKeyCondition(QueryKeyCondition(Tree, ks), ks)

\* logical_and.hpp:13: "an AND joins its children's non-empty
\* KeyConditionExpression / FilterExpression / condition-check fragments".  So no
\* string that is sent holds an empty pair of parentheses.
GroupsHoldFragments ==
  Complete =>
    /\ \A ks \in Schemas : PlansQuery(Tree, ks) =>
         NoEmptyGroup(QueryKeyCondition(Tree, ks)) /\ NoEmptyGroup(QueryFilter(Tree, ks))
    /\ \A ks \in Tables : NoEmptyGroup(WriteCondition(Tree, ks))

\* The four claims together.  The formula is weaker than each of them, so the one
\* clause that breaks it, NOT (p = 1 AND r = 1), refutes them all.
AClauseClaimHolds == KeyIsText \/ ExtrasAreKept \/ QuerySafeIsLegal \/ GroupsHoldFragments
=============================================================================
