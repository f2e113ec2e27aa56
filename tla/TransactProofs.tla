--------------------------- MODULE TransactProofs ---------------------------
(***************************************************************************)
(* Proofs about Transact for every transaction, table and number of writes  *)
(* by other clients; the last one shows that it implements Transaction.     *)
(***************************************************************************)
EXTENDS Transact, SequenceTheorems, TLAPS

USE DEF executor, vars

-----------------------------------------------------------------------------
(***************************************************************************)
(* The inductive invariant.                                                *)
(***************************************************************************)

Part == [key: Keys, whole: BOOLEAN, legal: BOOLEAN, of: Statement]

\* The types of the request and of the place in the transaction.
TransactType ==
  /\ txn \in Transactions
  /\ next \in 1..(Len(txn.statements) + 1)
  /\ built \in Seq(Part)
  /\ aborted \in BOOLEAN /\ error \in BOOLEAN

\* A request is sent once, after all statements were built and none aborted;
\* an ABORT without an Error comes from ROLLBACK or from such a statement.
Control ==
  /\ pc \in {"build", "send", "done"}
  /\ pc # "done" => token = "none" /\ ~error /\ sent = <<>>
  /\ pc = "send" => ~aborted /\ next = Len(txn.statements) + 1
  /\ txn.rollback => aborted
  /\ aborted => txn.rollback \/ \E i \in 1..(next - 1) : ~Reducible(txn.statements[i])
  /\ token = "ABORT" /\ ~error => aborted /\ sent = <<>>
  /\ sent # <<>> => /\ sent = built /\ ~aborted /\ ~txn.explain
                    /\ next = Len(txn.statements) + 1

\* Unless the transaction is aborted, the request so far has the rows of the
\* statements so far: no others, all of them, one after the other, and one for
\* each SELECT.
PartOf(p, i, j) ==
  p.of = txn.statements[i] /\ p.key = txn.statements[i].keys[j]

BuiltIs ==
  ~aborted =>
    /\ \A p \in 1..Len(built) : \E i \in 1..(next - 1) :
         \E j \in 1..Len(txn.statements[i].keys) : PartOf(built[p], i, j)
    /\ \A i \in 1..(next - 1) : \A j \in 1..Len(txn.statements[i].keys) :
         \E p \in 1..Len(built) : PartOf(built[p], i, j)
    /\ Concatenated(built, next - 1)
    /\ txn.access = "read" =>
         /\ Len(built) = next - 1
         /\ \A i \in 1..(next - 1) : built[i].key = txn.statements[i].keys[1]

IInv == TransactType /\ Control /\ BuiltIs

\* What the assumption says of the transaction.
LEMMA TxnType ==
  ASSUME TransactType
  PROVE  /\ txn.rollback \in BOOLEAN /\ txn.explain \in BOOLEAN /\ txn.access \in {"read", "write"}
         /\ txn.statements \in Seq(Statement) /\ Len(txn.statements) \in Nat
         /\ DOMAIN txn.statements = 1..Len(txn.statements)
         /\ \A i \in 1..Len(txn.statements) :
              /\ txn.statements[i] \in Statement
              /\ txn.statements[i].keys \in Seq(Keys)
              /\ Len(txn.statements[i].keys) \in Nat
              /\ DOMAIN txn.statements[i].keys = 1..Len(txn.statements[i].keys)
              /\ \A j \in 1..Len(txn.statements[i].keys) : txn.statements[i].keys[j] \in Keys
              /\ txn.access = "read" => Len(txn.statements[i].keys) = 1
<1>1. /\ txn.rollback \in BOOLEAN /\ txn.explain \in BOOLEAN /\ txn.access \in {"read", "write"}
      /\ txn.statements \in Seq(Statement)
  <2> HIDE DEF Statement
  <2>1. txn \in [access: {"read", "write"}, rollback: BOOLEAN, explain: BOOLEAN,
                 statements: Seq(Statement)]
    BY TransactionAssumption DEF TransactType
  <2> QED
    BY <2>1
<1>2. Len(txn.statements) \in Nat /\ DOMAIN txn.statements = 1..Len(txn.statements)
  BY <1>1
<1>3. \A i \in 1..Len(txn.statements) : txn.statements[i] \in Statement
  BY <1>1
<1>4. ASSUME NEW i \in 1..Len(txn.statements)
      PROVE  /\ txn.statements[i].keys \in Seq(Keys)
             /\ txn.access = "read" => Len(txn.statements[i].keys) = 1
  <2>1. /\ txn.statements[i].verb = "select" <=> txn.access = "read"
        /\ txn.statements[i].verb \notin {"insert", "replace"} => Len(txn.statements[i].keys) = 1
    BY <1>2, TransactionAssumption DEF TransactType
  <2> QED
    BY <1>3, <2>1 DEF Statement
<1> QED
  BY <1>1, <1>2, <1>3, <1>4

\* A transaction starts with the invariant.
LEMMA IInvInit == Init => IInv
<1> SUFFICES ASSUME Init PROVE IInv
  OBVIOUS
<1>1. txn \in Transactions /\ built = <<>> /\ next = 1 /\ error = FALSE /\ sent = <<>>
  BY DEF Init
<1>2. txn.rollback \in BOOLEAN /\ Len(txn.statements) \in Nat
  BY <1>1, TransactionAssumption
<1>3. TransactType
  <2>1. aborted \in BOOLEAN
    BY <1>2 DEF Init
  <2>2. next \in 1..(Len(txn.statements) + 1) /\ built \in Seq(Part)
    BY <1>1, <1>2
  <2> QED
    BY <1>1, <2>1, <2>2 DEF TransactType
<1>4. Control
  BY <1>3, TxnType DEF Init, Control
<1>5. Concatenated(built, next - 1)
  <2>1. Len(built) = 0 /\ next - 1 = 0
    BY <1>1
  <2> DEFINE start == [i \in 1..(0 + 1) |-> 0]
  <2>2. start \in [1..(0 + 1) -> 0..0] /\ start[1] = 0 /\ start[0 + 1] = 0
    OBVIOUS
  <2> HIDE DEF start
  <2> QED
    BY <2>1, <2>2 DEF Concatenated
<1>6. BuiltIs
  BY <1>1, <1>5 DEF BuiltIs
<1> QED
  BY <1>3, <1>4, <1>6 DEF IInv

-----------------------------------------------------------------------------
(***************************************************************************)
(* Building the request.                                                   *)
(***************************************************************************)

\* The parts of a statement are one for each of its rows.
LEMMA PartsType ==
  ASSUME TransactType, next <= Len(txn.statements)
  PROVE  /\ Parts(Upcoming) \in Seq(Part) /\ Len(Parts(Upcoming)) = Len(Upcoming.keys)
         /\ \A j \in 1..Len(Upcoming.keys) : PartOf(Parts(Upcoming)[j], next, j)
<1>1. next \in 1..Len(txn.statements)
  BY TxnType DEF TransactType
<1>2. /\ Upcoming \in Statement /\ Len(Upcoming.keys) \in Nat
      /\ DOMAIN Upcoming.keys = 1..Len(Upcoming.keys)
      /\ \A j \in 1..Len(Upcoming.keys) : Upcoming.keys[j] \in Keys
  BY <1>1, TxnType DEF Upcoming
<1>3. \A j \in 1..Len(Upcoming.keys) :
        /\ Parts(Upcoming)[j] \in Part
        /\ Parts(Upcoming)[j].of = Upcoming /\ Parts(Upcoming)[j].key = Upcoming.keys[j]
  <2> TAKE j \in 1..Len(Upcoming.keys)
  <2> DEFINE whole == Upcoming.verb \in Checks => Upcoming.where \in {"full", "exact"}
             legal == Upcoming.verb \in Checks => Upcoming.selects <= 1
  <2>1. whole \in BOOLEAN /\ legal \in BOOLEAN
    BY Zenon
  <2> HIDE DEF whole, legal
  <2>2. Parts(Upcoming)[j] = [key |-> Upcoming.keys[j], whole |-> whole, legal |-> legal, of |-> Upcoming]
    BY <1>2 DEF Parts, whole, legal
  <2> QED
    BY <1>2, <2>1, <2>2 DEF Part
<1>4. Parts(Upcoming) = [j \in 1..Len(Upcoming.keys) |-> Parts(Upcoming)[j]]
  BY <1>2 DEF Parts
<1>5. Parts(Upcoming) \in Seq(Part) /\ Len(Parts(Upcoming)) = Len(Upcoming.keys)
  <2> DEFINE parts == Parts(Upcoming)
             n == Len(Upcoming.keys)
  <2>1. parts = [j \in 1..n |-> parts[j]] /\ n \in Nat /\ \A j \in 1..n : parts[j] \in Part
    BY <1>2, <1>3, <1>4
  <2> HIDE DEF parts, n
  <2>2. parts \in [1..n -> Part]
    BY <2>1
  <2>3. parts \in Seq(Part) /\ Len(parts) = n
    BY <2>1, <2>2
  <2> QED
    BY <2>3 DEF parts, n
<1> QED
  BY <1>3, <1>5 DEF PartOf, Upcoming

\* A statement that is built adds its rows behind those of the earlier ones.
LEMMA BuildKeeps ==
  ASSUME IInv, Build
  PROVE  built' \in Seq(Part) /\ BuiltIs'
<1> DEFINE n == Len(built)
           keys == txn.statements[next].keys
           m == Len(keys)
           parts == Parts(Upcoming)
<1>1. /\ next \in 1..Len(txn.statements) /\ built' = built \o parts
      /\ UNCHANGED <<txn, aborted>> /\ next' = next + 1 /\ built \in Seq(Part)
  BY TxnType DEF Build, Elsewhere, IInv, TransactType
<1>2. parts \in Seq(Part) /\ Len(parts) = m /\ \A j \in 1..m : PartOf(parts[j], next, j)
  BY <1>1, PartsType DEF IInv, Upcoming
<1>3. m \in Nat /\ n \in Nat /\ keys \in Seq(Keys) /\ DOMAIN keys = 1..m /\ (txn.access = "read" => m = 1)
  BY <1>1, TxnType DEF IInv
<1>4. /\ built' \in Seq(Part) /\ Len(built') = n + m
      /\ \A p \in 1..n : built'[p] = built[p]
      /\ \A j \in 1..m : built'[n + j] = parts[j]
  <2> HIDE DEF parts, n, m
  <2>1. /\ built \o parts \in Seq(Part) /\ Len(built \o parts) = Len(built) + Len(parts)
        /\ \A i \in 1..(Len(built) + Len(parts)) :
             (built \o parts)[i] = IF i <= Len(built) THEN built[i] ELSE parts[i - Len(built)]
    BY <1>1, <1>2, ConcatProperties
  <2>2. \A p \in 1..n : p \in 1..(n + m) /\ p <= n
    BY <1>3
  <2>3. \A j \in 1..m : n + j \in 1..(n + m) /\ ~(n + j <= n) /\ (n + j) - n = j
    BY <1>3
  <2> QED
    BY <1>1, <1>2, <2>1, <2>2, <2>3 DEF n
<1>5. \A q, i, j : PartOf(q, i, j)' <=> PartOf(q, i, j)
  BY <1>1 DEF PartOf
<1>6. SUFFICES ASSUME ~aborted PROVE BuiltIs'
  BY <1>1, <1>4 DEF BuiltIs
<1> HIDE DEF n, keys, m, parts
<1>7. ASSUME NEW p \in 1..Len(built')
      PROVE  \E i \in 1..next : \E j \in 1..Len(txn.statements[i].keys) : PartOf(built'[p], i, j)
  <2>1. CASE p <= n
    <3>1. p \in 1..n
      BY <1>3, <2>1
    <3>2. PICK i \in 1..(next - 1) : \E j \in 1..Len(txn.statements[i].keys) : PartOf(built[p], i, j)
      BY <1>6, <3>1 DEF IInv, BuiltIs, n
    <3>3. i \in 1..next
      BY <1>1
    <3> QED
      BY <1>4, <3>1, <3>2, <3>3
  <2>2. CASE p > n
    <3>1. p - n \in 1..m /\ n + (p - n) = p
      BY <1>3, <1>4, <2>2
    <3>2. PartOf(built'[p], next, p - n)
      BY <1>2, <1>4, <3>1
    <3> QED
      BY <1>1, <3>1, <3>2 DEF m, keys
  <2>3. p <= n \/ p > n
    BY <1>3, <1>4
  <2> QED
    BY <2>1, <2>2, <2>3
<1>8. ASSUME NEW i \in 1..next, NEW j \in 1..Len(txn.statements[i].keys)
      PROVE  \E p \in 1..Len(built') : PartOf(built'[p], i, j)
  <2>1. CASE i # next
    <3>1. i \in 1..(next - 1)
      BY <1>1, <2>1
    <3>2. PICK p \in 1..n : PartOf(built[p], i, j)
      BY <1>6, <3>1 DEF IInv, BuiltIs, n
    <3> QED
      BY <1>3, <1>4, <3>2
  <2>2. CASE i = next
    <3>1. j \in 1..m
      BY <2>2 DEF m, keys
    <3>2. PartOf(built'[n + j], i, j) /\ n + j \in 1..Len(built')
      BY <1>2, <1>3, <1>4, <2>2, <3>1
    <3> QED
      BY <3>2
  <2> QED
    BY <2>1, <2>2
<1>9. Concatenated(built, next - 1)'
  <2>1. PICK start \in [1..next -> 0..n] :
          /\ start[1] = 0 /\ start[next] = n
          /\ \A i \in 1..(next - 1) :
               /\ start[i + 1] = start[i] + Len(txn.statements[i].keys)
               /\ \A j \in DOMAIN txn.statements[i].keys :
                    built[start[i] + j].key = txn.statements[i].keys[j]
    <3> DEFINE k == next - 1
    <3>1. Concatenated(built, k)
      BY <1>6 DEF IInv, BuiltIs
    <3>2. k + 1 = next
      BY <1>1
    <3> HIDE DEF k
    <3>3. \E start \in [1..(k + 1) -> 0..n] :
          /\ start[1] = 0 /\ start[k + 1] = n
          /\ \A i \in 1..k :
               /\ start[i + 1] = start[i] + Len(txn.statements[i].keys)
               /\ \A j \in DOMAIN txn.statements[i].keys :
                    built[start[i] + j].key = txn.statements[i].keys[j]
      BY <3>1 DEF Concatenated, n
    <3>4. \E start \in [1..next -> 0..n] :
          /\ start[1] = 0 /\ start[next] = n
          /\ \A i \in 1..k :
               /\ start[i + 1] = start[i] + Len(txn.statements[i].keys)
               /\ \A j \in DOMAIN txn.statements[i].keys :
                    built[start[i] + j].key = txn.statements[i].keys[j]
      BY <3>2, <3>3, Zenon
    <3> QED
      BY <3>4, Zenon DEF k
  <2> DEFINE longer == [i \in 1..(next + 1) |-> IF i = next + 1 THEN n + m ELSE start[i]]
  <2>2. longer \in [1..(next + 1) -> 0..Len(built')]
    BY <1>1, <1>3, <1>4, <2>1
  <2>3. longer[1] = 0 /\ longer[next + 1] = Len(built')
    BY <1>1, <1>4, <2>1
  <2>4. ASSUME NEW i \in 1..next
        PROVE  /\ longer[i + 1] = longer[i] + Len(txn.statements[i].keys)
               /\ \A j \in DOMAIN txn.statements[i].keys :
                    built'[longer[i] + j].key = txn.statements[i].keys[j]
    <3>1. DOMAIN txn.statements[i].keys = 1..Len(txn.statements[i].keys)
          /\ Len(txn.statements[i].keys) \in Nat
      BY <1>1, TxnType DEF IInv
    <3>2. longer[i] = start[i] /\ start[i] \in 0..n
      BY <1>1, <2>1
    <3>3. CASE i = next
      <4>1. longer[i] = n /\ longer[i + 1] = n + m
        BY <1>1, <2>1, <3>3
      <4>2. \A j \in 1..m : built'[n + j].key = keys[j]
        BY <1>2, <1>4 DEF PartOf, keys
      <4> QED
        BY <3>1, <3>3, <4>1, <4>2 DEF m, keys
    <3>4. CASE i # next
      <4>1. i \in 1..(next - 1) /\ i + 1 \in 1..next
        BY <1>1, <3>4
      <4>2. longer[i + 1] = start[i + 1] /\ start[i + 1] \in 0..n
        BY <1>1, <2>1, <4>1
      <4>3. start[i + 1] = start[i] + Len(txn.statements[i].keys)
        BY <2>1, <4>1
      <4>4. ASSUME NEW j \in 1..Len(txn.statements[i].keys)
            PROVE  built'[start[i] + j].key = txn.statements[i].keys[j]
        <5>1. start[i] + j \in 1..n
          BY <1>3, <3>1, <3>2, <4>2, <4>3
        <5>2. built[start[i] + j].key = txn.statements[i].keys[j]
          BY <2>1, <3>1, <4>1
        <5>3. built'[start[i] + j] = built[start[i] + j]
          BY <1>4, <5>1
        <5> QED
          BY <5>2, <5>3
      <4> QED
        BY <3>1, <3>2, <4>2, <4>3, <4>4
    <3> QED
      BY <3>3, <3>4
  <2> HIDE DEF longer
  <2> DEFINE k == next' - 1
  <2>5. k = next
    BY <1>1
  <2> HIDE DEF k
  <2>6. \E begin \in [1..(k + 1) -> 0..Len(built')] :
          /\ begin[1] = 0 /\ begin[k + 1] = Len(built')
          /\ \A i \in 1..k :
               /\ begin[i + 1] = begin[i] + Len(txn.statements[i].keys)
               /\ \A j \in DOMAIN txn.statements[i].keys :
                    built'[begin[i] + j].key = txn.statements[i].keys[j]
    BY <2>2, <2>3, <2>4, <2>5
  <2> QED
    BY <1>1, <2>6 DEF Concatenated, k
<1>10. ASSUME txn.access = "read"
       PROVE  Len(built') = next /\ \A i \in 1..next : built'[i].key = txn.statements[i].keys[1]
  <2>1. n = next - 1 /\ m = 1 /\ \A i \in 1..(next - 1) : built[i].key = txn.statements[i].keys[1]
    BY <1>3, <1>6, <1>10 DEF IInv, BuiltIs, n
  <2>2. Len(built') = next /\ built'[next].key = keys[1]
    <3>1. 1 \in 1..m /\ n + 1 = next
      BY <1>1, <2>1
    <3> QED
      BY <1>1, <1>2, <1>4, <2>1, <3>1 DEF PartOf, keys
  <2>3. \A i \in 1..next : i = next \/ (i \in 1..(next - 1) /\ i \in 1..n)
    BY <1>1, <2>1
  <2> QED
    BY <1>4, <2>1, <2>2, <2>3 DEF keys
<1>11. next' - 1 = next /\ 1..(next' - 1) = 1..next
  BY <1>1
<1> QED
  BY <1>1, <1>5, <1>7, <1>8, <1>9, <1>10, <1>11, Zenon DEF BuiltIs

\* Every step keeps the invariant.
LEMMA IInvNext == IInv /\ [Next]_vars => IInv'
<1> SUFFICES ASSUME IInv, [Next]_vars PROVE IInv'
  OBVIOUS
<1> USE TxnType DEF IInv
<1>1. ASSUME UNCHANGED <<txn, next, built, aborted>> PROVE BuiltIs'
  BY <1>1 DEF BuiltIs, PartOf, Concatenated
<1>2. CASE Build
  <2>1. TransactType'
    BY <1>2, BuildKeeps DEF Build, Elsewhere, TransactType
  <2>2. Control'
    BY <1>2 DEF Build, Elsewhere, NotSent, TransactType, Control
  <2> QED
    BY <1>2, <2>1, <2>2, BuildKeeps
<1>3. CASE BuildAborts
  <2>1. TransactType'
    BY <1>3 DEF BuildAborts, Elsewhere, TransactType
  <2>2. aborted' /\ ~Reducible(txn.statements[next]) /\ next \in 1..(next' - 1) /\ txn' = txn
    BY <1>3 DEF BuildAborts, Elsewhere, TransactType, Upcoming
  <2>3. Control'
    BY <1>3, <2>2 DEF BuildAborts, Elsewhere, NotSent, TransactType, Control
  <2> QED
    BY <2>1, <2>2, <2>3 DEF BuiltIs
<1>4. CASE Empty \/ BuildFails \/ BuildEnds \/ Explain
  <2> USE DEF Empty, BuildFails, BuildEnds, Explain, Stops, Emit, Fail, Elsewhere, NotSent
  <2>1. TransactType'
    BY <1>4 DEF TransactType
  <2>2. Control'
    BY <1>4 DEF TransactType, Control
  <2> QED
    BY <1>1, <1>4, <2>1, <2>2
<1>5. CASE CommitHeard \/ CommitLost \/ RequestFails \/ Get
  <2> USE DEF CommitHeard, CommitLost, RequestFails, Get, Request, Failed, Emit, Elsewhere
  <2>1. TransactType'
    BY <1>5 DEF TransactType
  <2>2. Control'
    BY <1>5 DEF TransactType, Control
  <2> QED
    BY <1>1, <1>5, <2>1, <2>2
<1>6. CASE (\E k \in Keys, v \in Values : OtherWrite(k, v)) \/ UNCHANGED vars
  BY <1>1, <1>6 DEF OtherWrite, TransactType, Control
<1> QED
  BY <1>2, <1>3, <1>4, <1>5, <1>6 DEF Next, Executor

\* The invariant holds throughout a transaction.
LEMMA IInvAlways == Spec => []IInv
BY IInvInit, IInvNext, PTL DEF Spec

\* A request that is sent has the parts of all statements in their order, and
\* ROLLBACK, EXPLAIN or an ABORT of the executor means that none was.
THEOREM WholeRequestCorrect == Spec => []WholeRequest
<1>1. IInv => WholeRequest
  <2> SUFFICES ASSUME IInv PROVE WholeRequest
    OBVIOUS
  <2>1. ASSUME sent # <<>>
        PROVE  ~txn.rollback /\ ~txn.explain /\ Concatenated(sent, Len(txn.statements))
    <3>1. sent = built /\ ~aborted /\ ~txn.explain /\ next = Len(txn.statements) + 1
      BY <2>1 DEF IInv, Control
    <3>2. next - 1 = Len(txn.statements)
      BY <3>1, TxnType DEF IInv
    <3>3. Concatenated(built, next - 1)
      BY <3>1 DEF IInv, BuiltIs
    <3> QED
      BY <3>1, <3>2, <3>3 DEF IInv, Control
  <2> QED
    BY <2>1 DEF IInv, Control, WholeRequest
<1> QED
  BY <1>1, IInvAlways, PTL

\* An ABORT without an Error has one of the causes that transact_build has for
\* not_reducible_to_getitem, or is a ROLLBACK.
THEOREM NotGivenUpCorrect == Spec => []NotGivenUp
<1>1. IInv => NotGivenUp
  <2> SUFFICES ASSUME IInv, token = "ABORT", ~error, ~txn.rollback
               PROVE  \E i \in DOMAIN txn.statements : LET s == txn.statements[i] IN
                        \/ s.verb = "select" /\ s.where # "exact"
                        \/ s.verb \in {"update", "upsert", "delete"} /\ s.where \in {"none", "partial"}
                        \/ s.where = "none"
    BY DEF NotGivenUp
  <2>1. PICK i \in 1..(next - 1) : ~Reducible(txn.statements[i])
    BY DEF IInv, Control
  <2>2. i \in DOMAIN txn.statements /\ txn.statements[i] \in Statement
    BY TxnType DEF IInv, TransactType
  <2>3. txn.statements[i].where \in {"none", "partial", "full", "exact"}
    BY <2>2 DEF Statement
  <2> QED
    BY <2>1, <2>2, <2>3 DEF Reducible
<1> QED
  BY <1>1, IInvAlways, PTL

-----------------------------------------------------------------------------
(***************************************************************************)
(* Transact implements Transaction.                                        *)
(***************************************************************************)

\* The two modules mean the same by a statement.
LEMMA SameMeaning ==
  ASSUME NEW s, NEW v, NEW k
  PROVE  /\ Promise!Makes(s, v) = Makes(s, v)
         /\ Promise!May(s, v) <=> May(s, v)
         /\ Promise!On(s, k) <=> On(s, k)
<1>1. Promise!Makes(s, v) = Makes(s, v)
  BY DEF Promise!Makes, Makes
<1>2. Promise!May(s, v) <=> May(s, v)
  BY DEF Promise!May, May, Promise!There, There
<1>3. Promise!On(s, k) <=> On(s, k)
  BY DEF Promise!On, On
<1> QED
  BY <1>1, <1>2, <1>3

\* The condition a part is sent with is enough for its statement.
LEMMA ConditionSuffices ==
  ASSUME NEW s \in Statement, NEW v, ConditionHolds(s, v)
  PROVE  May(s, v)
BY DEF Statement, ConditionHolds, CheckHolds, May, Checks, Writers

\* What the user has learned is nothing before the end.
LEMMA ReportIsNone == IInv /\ pc # "done" => Report = "none"
BY DEF IInv, Control, Report

\* TransactWriteItems applied to the request is all statements taking effect at
\* once: a key that two of them name is refused, so that each item has one.
LEMMA AppliedIsEffect ==
  ASSUME IInv, Request, txn.access = "write", Accepted, table' = Applied
  PROVE  Promise!TakeEffect
<1>1. ~aborted /\ ~txn.explain /\ ~txn.rollback /\ next - 1 = Len(txn.statements)
  BY TxnType DEF Request, IInv, Control
<1>2. DOMAIN built = 1..Len(built)
  BY DEF IInv, TransactType
<1>3. ASSUME NEW s \in Promise!Statements, NEW k, On(s, k)
      PROVE  \E p \in DOMAIN built : built[p].of = s /\ built[p].key = k
  <2>1. PICK i \in 1..Len(txn.statements) : s = txn.statements[i]
    BY TxnType DEF IInv, Promise!Statements
  <2>2. PICK j \in 1..Len(txn.statements[i].keys) : k = txn.statements[i].keys[j]
    BY <1>3, <2>1, TxnType DEF IInv, On
  <2>3. \E p \in 1..Len(built) : PartOf(built[p], i, j)
    BY <1>1 DEF IInv, BuiltIs
  <2> QED
    BY <1>2, <2>1, <2>2, <2>3 DEF PartOf
<1>4. ASSUME NEW p \in DOMAIN built
      PROVE  built[p].of \in Promise!Statements /\ On(built[p].of, built[p].key)
  <2>1. PICK i \in 1..Len(txn.statements) : \E j \in 1..Len(txn.statements[i].keys) : PartOf(built[p], i, j)
    BY <1>1, <1>2 DEF IInv, BuiltIs
  <2> QED
    BY <2>1, TxnType DEF IInv, PartOf, On, Promise!Statements
<1>5. ASSUME NEW s \in Promise!Statements, NEW k \in Keys, On(s, k) PROVE May(s, table[k])
  <2>1. PICK p \in DOMAIN built : built[p].of = s /\ built[p].key = k
    BY <1>3, <1>5
  <2>2. s \in Statement
    BY TxnType DEF IInv, Promise!Statements
  <2>3. ConditionHolds(s, table[k])
    BY <2>1 DEF Accepted
  <2> QED
    BY <2>2, <2>3, ConditionSuffices
<1>6. ASSUME NEW k \in Keys
      PROVE  (IF \E i \in DOMAIN built : built[i].key = k
              THEN Makes(built[CHOOSE i \in DOMAIN built : built[i].key = k].of, table[k])
              ELSE table[k])
             = IF \E s \in Promise!Statements : On(s, k)
               THEN Makes(CHOOSE s \in Promise!Statements : On(s, k), table[k]) ELSE table[k]
  <2>1. CASE \E i \in DOMAIN built : built[i].key = k
    <3> DEFINE p == CHOOSE i \in DOMAIN built : built[i].key = k
               s == CHOOSE t \in Promise!Statements : On(t, k)
    <3>1. p \in DOMAIN built /\ built[p].key = k
      BY <2>1
    <3>2. built[p].of \in Promise!Statements /\ On(built[p].of, k)
      BY <1>4, <3>1
    <3>3. s \in Promise!Statements /\ On(s, k)
      BY <3>2
    <3>4. PICK q \in DOMAIN built : built[q].of = s /\ built[q].key = k
      BY <1>3, <3>3
    <3>5. q = p
      BY <3>1, <3>4 DEF Accepted
    <3> QED
      BY <2>1, <3>2, <3>4, <3>5
  <2>2. CASE ~\E i \in DOMAIN built : built[i].key = k
    <3>1. ~\E s \in Promise!Statements : On(s, k)
      BY <1>3, <2>2
    <3> QED
      BY <2>2, <3>1
  <2> QED
    BY <2>1, <2>2
<1>7. table' = [k \in Keys |->
                  IF \E s \in Promise!Statements : On(s, k)
                  THEN Makes(CHOOSE s \in Promise!Statements : On(s, k), table[k]) ELSE table[k]]
  BY <1>6 DEF Applied
<1>8. table' = [k \in Keys |->
                  IF \E s \in Promise!Statements : Promise!On(s, k)
                  THEN Promise!Makes(CHOOSE s \in Promise!Statements : Promise!On(s, k), table[k])
                  ELSE table[k]]
  BY <1>7, Zenon DEF On, Promise!On, Makes, Promise!Makes
<1> QED
  BY <1>1, <1>5, <1>8, SameMeaning, Zenon DEF Promise!TakeEffect

\* Every step of the executor is one of the promise, or none.
LEMMA StepKeepsPromise == IInv /\ [Next]_vars => [Promise!Next]_(Promise!vars)
<1> SUFFICES ASSUME IInv, [Next]_vars PROVE [Promise!Next]_(Promise!vars)
  OBVIOUS
<1> USE DEF Promise!Next, Promise!vars
<1>1. CASE Build \/ BuildAborts
  BY <1>1 DEF Build, BuildAborts, Elsewhere, NotSent, Report
<1>2. CASE BuildEnds /\ pc' = "send"
  BY <1>2 DEF BuildEnds, Emit, Elsewhere, NotSent, Report, IInv, Control
<1>3. CASE \/ Empty \/ BuildFails \/ Explain \/ RequestFails
           \/ (BuildEnds /\ pc' # "send")
  <2>1. Report = "none" /\ Report' \in {"nothing", "failed"} /\ UNCHANGED <<txn, table, rows>>
    BY <1>3, ReportIsNone DEF Empty, BuildFails, Explain, Request, RequestFails, BuildEnds, Emit, Fail,
       Failed, Elsewhere, NotSent, Report, IInv, Control
  <2> QED
    BY <2>1 DEF Promise!GiveUp
<1>4. CASE CommitHeard
  <2>1. Report = "none" /\ Report' = "commit" /\ UNCHANGED <<txn, rows>>
    BY <1>4, ReportIsNone DEF CommitHeard, Request, Emit, Elsewhere, Report
  <2> QED
    BY <1>4, <2>1, AppliedIsEffect DEF CommitHeard, Promise!Commit
<1>5. CASE CommitLost
  <2>1. Report = "none" /\ Report' = "failed" /\ UNCHANGED <<txn, rows>>
    BY <1>5, ReportIsNone DEF CommitLost, Request, Failed, Elsewhere, Report
  <2> QED
    BY <1>5, <2>1, AppliedIsEffect DEF CommitLost, Promise!CommitUnheard
<1>6. CASE Get
  <2>1. Report = "none" /\ Report' = "rows" /\ UNCHANGED <<txn, table>> /\ txn.access = "read"
    BY <1>6, ReportIsNone DEF Get, Request, Emit, Elsewhere, Report
  <2>2. ~aborted /\ ~txn.explain /\ ~txn.rollback /\ next - 1 = Len(txn.statements)
    BY <1>6, TxnType DEF Get, Request, IInv, Control
  <2>3. /\ Len(built) = Len(txn.statements)
        /\ \A i \in 1..Len(txn.statements) : built[i].key = txn.statements[i].keys[1]
    BY <2>1, <2>2 DEF IInv, BuiltIs
  <2>4. DOMAIN built = DOMAIN txn.statements /\ DOMAIN txn.statements = 1..Len(txn.statements)
    BY <2>3, TxnType DEF IInv, TransactType
  <2>5. rows' = [i \in DOMAIN txn.statements |-> table[txn.statements[i].keys[1]]]
    BY <1>6, <2>3, <2>4 DEF Get, Responses
  <2> QED
    BY <2>1, <2>2, <2>5 DEF Promise!Read
<1>7. ASSUME NEW k \in Keys, NEW v \in Values, OtherWrite(k, v)
      PROVE  Promise!OtherWrite
  <2>1. table' = [table EXCEPT ![k] = v] /\ UNCHANGED <<txn, rows>> /\ Report' = Report
    BY <1>7 DEF OtherWrite, Report
  <2>2. v \in Promise!Values
    BY DEF Promise!Values, Values
  <2> QED
    BY <2>1, <2>2 DEF Promise!OtherWrite
<1>8. CASE UNCHANGED vars
  BY <1>8 DEF Report
<1> QED
  BY <1>1, <1>2, <1>3, <1>4, <1>5, <1>6, <1>7, <1>8 DEF Next, Executor

\* transact_executor keeps the promise of BEGIN ... COMMIT: all statements at one
\* moment at which each of them may, or none, and it tells which.
THEOREM KeepsPromiseCorrect == Spec => KeepsPromise
<1>1. Init => Promise!Init
  BY DEF Init, Report, Promise!Init, Promise!Values, Values
<1> QED
  BY <1>1, StepKeepsPromise, IInvAlways, PTL DEF Spec, KeepsPromise, Promise!Spec
=============================================================================
