--------------------------- MODULE TransactionText ---------------------------
(***************************************************************************)
(* The statements of a transaction and what each of them means for an item. *)
(***************************************************************************)
EXTENDS Integers, Sequences, FiniteSets

CONSTANTS Keys,          \* primary keys
          Contents,      \* what an item's other attributes can be
          Absent,        \* no item under this key
          Having,        \* the contents that have the attribute a SELECT names
          Transactions   \* the transactions considered

Values == Contents \union {Absent}

Writers == {"insert", "replace", "update", "upsert", "delete"}
Checks == {"exists", "not_exists"}

(***************************************************************************)
(* A statement: the keys it names (one for every row of an INSERT or        *)
(* REPLACE), the values that satisfy the predicates of its WHERE that are   *)
(* not on the key, what SET or VALUES makes of a value, what its WHERE says *)
(* of the key, how many attributes it selects (0 stands for `*'), and       *)
(* whether its rows have a value for each column.                           *)
(***************************************************************************)
Statement ==
  [verb: Writers \union Checks \union {"select"}, keys: Seq(Keys),
   where: {"none", "partial", "full", "exact"}, residual: SUBSET Values,
   assign: [Values -> Contents], selects: Nat, fits: BOOLEAN]

ASSUME TransactionAssumption ==
  /\ Absent \notin Contents /\ Having \subseteq Contents
  /\ \A t \in Transactions :
       /\ t \in [access: {"read", "write"}, rollback: BOOLEAN, explain: BOOLEAN,
                 statements: Seq(Statement)]
       /\ \A i \in DOMAIN t.statements : LET s == t.statements[i] IN
            /\ s.verb = "select" <=> t.access = "read"
            /\ s.verb \notin {"insert", "replace"} => Len(s.keys) = 1
            /\ s.where = "exact" => s.residual = Values

\* The item, or the attribute that the SELECT of a check names, is there.
There(s, v) == IF s.selects = 0 THEN v # Absent ELSE v \in Having

\* May the statement take effect on an item of this value?
May(s, v) ==
  /\ s.verb = "insert" => v = Absent
  /\ s.verb = "update" => v # Absent
  /\ s.verb \in {"update", "upsert", "delete"} => v \in s.residual
  /\ s.verb = "exists" => There(s, v) /\ v \in s.residual
  /\ s.verb = "not_exists" => ~(There(s, v) /\ v \in s.residual)

\* What it makes of the item.
Makes(s, v) ==
  CASE s.verb \in {"insert", "replace"} -> s.assign[Absent]
    [] s.verb \in {"update", "upsert"} -> s.assign[v]
    [] s.verb = "delete" -> Absent
    [] OTHER -> v

On(s, k) == k \in {s.keys[j] : j \in DOMAIN s.keys}
=============================================================================
