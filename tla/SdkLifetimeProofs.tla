------------------------- MODULE SdkLifetimeProofs -------------------------
(***************************************************************************)
(* Proofs about SdkLifetime for every number of threads and of tokens.     *)
(***************************************************************************)
EXTENDS SdkLifetime, TLAPS

USE DEF sdkVars, sdk

Places == {"closed", "lookup", "create", "token", "open", "drop", "destroy"}

TypeOK ==
  /\ pc \in [Threads -> Places] /\ mutex \in Threads \union {NoThread}
  /\ weak \in Nat /\ token \in [Threads -> Nat] /\ dying \in [Threads -> Nat]
  /\ client \subseteq Threads /\ guard \in BOOLEAN /\ alive \subseteq Nat
  /\ counts \in BOOLEAN /\ up \in BOOLEAN /\ nested \in BOOLEAN

\* What a thread has is decided by where it is, and only the owner of the mutex
\* is between the lock() and the unlock() of acquire_sdk_token().
Placed ==
  \A t \in Threads :
    /\ token[t] # 0 <=> pc[t] \in {"token", "open", "drop"}
    /\ dying[t] # 0 <=> pc[t] = "destroy"
    /\ t \in client <=> pc[t] = "open"
    /\ mutex = t <=> pc[t] \in {"lookup", "create"}

\* The tokens that are held are the SdkInit of the weak_ptr.  Whoever is about
\* to make a new one found none held, and nobody else could take one since.
Shared ==
  /\ \A t \in Threads : token[t] # 0 => token[t] = weak
  /\ \A t \in Threads : pc[t] = "create" => \A s \in Threads : token[s] = 0

\* An SdkInit that is being destroyed is not the one of a later InitAPI, nobody
\* holds it, and one thread destroys it.
Separate ==
  \A s, t \in Threads :
    /\ dying[s] <= weak
    /\ dying[s] # 0 => dying[s] # token[t]
    /\ dying[s] # 0 /\ dying[s] = dying[t] => s = t

\* The InitAPIs without a ShutdownAPI are those of the guard, of the SdkInit
\* that is held and of the ones that are being destroyed.
Accounted ==
  \A n \in Nat :
    n \in alive <=> \/ n = 0 /\ guard
                    \/ n # 0 /\ \E t \in Threads : token[t] = n \/ dying[t] = n

\* The SDK runs exactly while an InitAPI is in force, if it counts, and also if
\* it does not, as long as there was never more than one.
Running ==
  /\ counts \/ ~nested => (up <=> alive # {})
  /\ ~nested => \A m, n \in alive : m = n
  /\ alive = {} => ~up

IInv == TypeOK /\ Placed /\ Shared /\ Separate /\ Accounted /\ Running

\* What a call of InitAPI or of ShutdownAPI keeps, and what it does to alive.
LEMMA InitAPIKeeps ==
  ASSUME TypeOK, Running, NEW n \in Nat, InitAPI(n)
  PROVE  /\ Running' /\ alive' = alive \union {n} /\ alive' \subseteq Nat
         /\ counts' \in BOOLEAN /\ up' \in BOOLEAN /\ nested' \in BOOLEAN
<1>1. /\ alive' = alive \union {n} /\ up' = TRUE /\ counts' = counts
      /\ nested' = (nested \/ alive # {})
  BY DEF InitAPI
<1>2. alive' \subseteq Nat
  BY <1>1 DEF TypeOK
<1>3. counts' \in BOOLEAN /\ up' \in BOOLEAN /\ nested' \in BOOLEAN
  BY <1>1, Zenon DEF TypeOK
<1>4. Running'
  BY <1>1 DEF TypeOK, Running
<1> QED
  BY <1>1, <1>2, <1>3, <1>4

LEMMA ShutdownAPIKeeps ==
  ASSUME TypeOK, Running, NEW n \in alive, ShutdownAPI(n)
  PROVE  /\ Running' /\ alive' = alive \ {n} /\ alive' \subseteq Nat
         /\ counts' \in BOOLEAN /\ up' \in BOOLEAN /\ nested' \in BOOLEAN
<1>1. /\ alive' = alive \ {n} /\ counts' = counts /\ nested' = nested
      /\ up' \in IF counts \/ alive' = {} THEN {alive' # {}} ELSE BOOLEAN
  BY DEF ShutdownAPI
<1>2. alive' \subseteq Nat
  BY <1>1 DEF TypeOK
<1>3. up' \in BOOLEAN /\ (counts \/ alive' = {} => (up' <=> alive' # {}))
  BY <1>1, Zenon
<1>4. ~nested => alive' = {}
  BY <1>1 DEF Running
<1>5. Running'
  BY <1>1, <1>3, <1>4 DEF Running
<1> QED
  BY <1>1, <1>2, <1>3, <1>5 DEF TypeOK

\* A process without a Database satisfies the invariant.
LEMMA IInvInit == InitSdk => IInv
<1> SUFFICES ASSUME InitSdk PROVE IInv
  OBVIOUS
<1>1. TypeOK
  <2>1. guard \in BOOLEAN /\ counts \in BOOLEAN /\ up \in BOOLEAN /\ nested \in BOOLEAN
    BY Zenon DEF InitSdk
  <2>2. alive \subseteq Nat
    BY DEF InitSdk
  <2> QED
    BY <2>1, <2>2 DEF InitSdk, TypeOK, Places
<1>2. Placed
  BY SdkAssumption DEF InitSdk, Placed
<1>3. Shared /\ Separate /\ Accounted /\ Running
  BY DEF InitSdk, Shared, Separate, Accounted, Running
<1> QED
  BY <1>1, <1>2, <1>3 DEF IInv

\* Every step of open(), of ~Database and of the guard keeps it.
LEMMA IInvNext == IInv /\ [NextSdk]_sdkVars => IInv'
<1> SUFFICES ASSUME IInv, [NextSdk]_sdkVars PROVE IInv'
  OBVIOUS
<1> USE SdkAssumption DEF IInv, TypeOK, Places, Goto
<1>1. ASSUME NEW t \in Threads, Lock(t) PROVE IInv'
  <2>1. TypeOK' BY <1>1 DEF Lock
  <2>2. Placed' BY <1>1 DEF Lock, Placed
  <2>3. Shared' BY <1>1 DEF Lock, Shared
  <2>4. Separate' /\ Accounted' /\ Running' BY <1>1 DEF Lock, Separate, Accounted, Running
  <2> QED BY <2>1, <2>2, <2>3, <2>4
<1>2. ASSUME NEW t \in Threads, Lookup(t) PROVE IInv'
  <2>1. TypeOK' BY <1>2 DEF Lookup
  <2>2. Placed' /\ Running' BY <1>2 DEF Lookup, Placed, Running
  <2>3. CASE weak # 0 /\ Holders(weak) # {}
    <3>1. PICK h \in Threads : token[h] = weak
      BY <2>3 DEF Holders
    <3>2. pc[t] = "lookup" /\ token' = [token EXCEPT ![t] = weak]
      BY <1>2, <2>3 DEF Lookup
    <3>3. Shared' BY <1>2, <2>3, <3>1 DEF Lookup, Shared, Placed
    <3>4. Separate' BY <1>2, <3>1, <3>2 DEF Lookup, Separate
    <3>5. token[t] = 0 BY <3>2 DEF Placed
    <3>6. Accounted'
      BY <1>2, <2>3, <3>1, <3>2, <3>5 DEF Lookup, Accounted
    <3> QED BY <2>1, <2>2, <3>3, <3>4, <3>6
  <2>4. CASE ~(weak # 0 /\ Holders(weak) # {})
    <3>1. \A s \in Threads : token[s] = 0
      BY <2>4 DEF Holders, Shared
    <3>2. Shared' BY <1>2, <2>4, <3>1 DEF Lookup, Shared
    <3>3. Separate' /\ Accounted' BY <1>2, <2>4 DEF Lookup, Separate, Accounted
    <3> QED BY <2>1, <2>2, <3>2, <3>3
  <2> QED BY <2>3, <2>4
<1>3. ASSUME NEW t \in Threads, Create(t) PROVE IInv'
  <2>0. /\ Running' /\ alive' = alive \union {weak'} /\ alive' \subseteq Nat
        /\ counts' \in BOOLEAN /\ up' \in BOOLEAN /\ nested' \in BOOLEAN
    <3>1. weak' \in Nat /\ InitAPI(weak') BY <1>3 DEF Create
    <3> QED BY <3>1, InitAPIKeeps
  <2>1. TypeOK' BY <1>3, <2>0 DEF Create
  <2>2. Placed' BY <1>3 DEF Create, Placed
  <2>3. \A s \in Threads : token[s] = 0 BY <1>3 DEF Create, Shared
  <2>4. Shared' BY <1>3, <2>3 DEF Create, Shared, Placed
  <2>5. Separate' BY <1>3, <2>3 DEF Create, Separate
  <2>6. Accounted' BY <1>3, <2>0, <2>3 DEF Create, Accounted
  <2> QED BY <2>0, <2>1, <2>2, <2>4, <2>5, <2>6
<1>4. ASSUME NEW t \in Threads, Open(t) PROVE IInv'
  <2>1. TypeOK' BY <1>4 DEF Open
  <2>2. Placed' BY <1>4 DEF Open, Placed
  <2>3. Shared' /\ Separate' /\ Accounted' /\ Running'
    BY <1>4 DEF Open, Shared, Separate, Accounted, Running
  <2> QED BY <2>1, <2>2, <2>3
<1>5. ASSUME NEW t \in Threads, CloseClient(t) PROVE IInv'
  <2>1. TypeOK' BY <1>5 DEF CloseClient
  <2>2. Placed' BY <1>5 DEF CloseClient, Placed
  <2>3. Shared' /\ Separate' /\ Accounted' /\ Running'
    BY <1>5 DEF CloseClient, Shared, Separate, Accounted, Running
  <2> QED BY <2>1, <2>2, <2>3
<1>6. ASSUME NEW t \in Threads, DropToken(t) PROVE IInv'
  <2>1. TypeOK' BY <1>6 DEF DropToken
  <2>2. token[t] # 0 /\ dying[t] = 0 BY <1>6 DEF DropToken, Placed
  <2>3. Placed' BY <1>6, <2>2 DEF DropToken, Placed
  <2>4. Shared' /\ Running' BY <1>6 DEF DropToken, Shared, Running
  <2>5. CASE Holders(token[t]) = {t}
    <3>1. \A s \in Threads : token[s] = token[t] => s = t
      BY <2>5 DEF Holders
    <3>2. /\ token' = [token EXCEPT ![t] = 0]
          /\ dying' = [dying EXCEPT ![t] = token[t]]
          /\ UNCHANGED <<weak, alive, guard>>
      BY <1>6, <2>5 DEF DropToken
    <3>3. token[t] = weak BY <2>2 DEF Shared
    <3>4. Separate' BY <3>1, <3>2, <3>3, <2>2 DEF Separate
    <3>5. Accounted' BY <3>1, <3>2, <2>2 DEF Accounted
    <3> QED BY <2>1, <2>3, <2>4, <3>4, <3>5
  <2>6. CASE Holders(token[t]) # {t}
    <3>1. PICK h \in Threads : h # t /\ token[h] = token[t]
      BY <2>6 DEF Holders
    <3>2. token' = [token EXCEPT ![t] = 0] /\ UNCHANGED <<weak, dying, alive, guard>>
      BY <1>6, <2>6 DEF DropToken
    <3>3. Separate' BY <3>2 DEF Separate
    <3>4. Accounted' BY <3>1, <3>2, <2>2 DEF Accounted
    <3> QED BY <2>1, <2>3, <2>4, <3>3, <3>4
  <2> QED BY <2>5, <2>6
<1>7. ASSUME NEW t \in Threads, Destroy(t) PROVE IInv'
  <2>2. dying[t] # 0 BY <1>7 DEF Destroy, Placed
  <2>0. /\ Running' /\ alive' = alive \ {dying[t]} /\ alive' \subseteq Nat
        /\ counts' \in BOOLEAN /\ up' \in BOOLEAN /\ nested' \in BOOLEAN
    <3>1. dying[t] \in alive BY <2>2 DEF Accounted
    <3>2. ShutdownAPI(dying[t]) BY <1>7 DEF Destroy
    <3> QED BY <3>1, <3>2, ShutdownAPIKeeps
  <2>1. TypeOK' BY <1>7, <2>0 DEF Destroy
  <2>3. Placed' BY <1>7 DEF Destroy, Placed
  <2>4. Shared' BY <1>7 DEF Destroy, Shared
  <2>5. Separate' BY <1>7 DEF Destroy, Separate
  <2>6. Accounted' BY <1>7, <2>0, <2>2 DEF Destroy, Accounted, Separate
  <2> QED BY <2>0, <2>1, <2>3, <2>4, <2>5, <2>6
<1>8. CASE GuardEnds
  <2>0. /\ Running' /\ alive' = alive \ {0} /\ alive' \subseteq Nat
        /\ counts' \in BOOLEAN /\ up' \in BOOLEAN /\ nested' \in BOOLEAN
    <3>1. 0 \in alive BY <1>8 DEF GuardEnds, Accounted
    <3>2. ShutdownAPI(0) BY <1>8 DEF GuardEnds
    <3> QED BY <3>1, <3>2, ShutdownAPIKeeps
  <2>1. TypeOK' BY <1>8, <2>0 DEF GuardEnds
  <2>2. Placed' /\ Shared' /\ Separate'
    BY <1>8 DEF GuardEnds, Placed, Shared, Separate
  <2>3. Accounted' BY <1>8, <2>0 DEF GuardEnds, Accounted
  <2> QED BY <2>0, <2>1, <2>2, <2>3
<1>9. CASE UNCHANGED sdkVars
  BY <1>9 DEF Placed, Shared, Separate, Accounted, Running
<1> QED
  BY <1>1, <1>2, <1>3, <1>4, <1>5, <1>6, <1>7, <1>8, <1>9 DEF NextSdk

\* The invariant holds of every process.
LEMMA IInvCorrect == SdkSpec => []IInv
BY IInvInit, IInvNext, PTL DEF SdkSpec

\* Databases that exist at the same time share one SdkInit: the lock in
\* acquire_sdk_token() keeps two threads from making one each.
THEOREM OneTokenCorrect == SdkSpec => []OneToken
<1>1. IInv => OneToken
  BY DEF IInv, Shared, OneToken
<1> QED
  BY <1>1, IInvCorrect, PTL

\* No AwsDDBClient and no guard is left without a running SDK, whatever the
\* interleaving of ~Database on one thread with open() on another, if the SDK
\* counts its InitAPIs or no two of them were in force at a time.
THEOREM SdkUpInUseCorrect == SdkSpec => []SdkUpInUse
<1>1. IInv => SdkUpInUse
  <2> SUFFICES ASSUME IInv, client # {} \/ guard PROVE alive # {}
    BY DEF SdkUpInUse, IInv, Running
  <2>1. CASE guard
    BY <2>1 DEF IInv, Accounted
  <2>2. CASE client # {}
    <3>1. PICK t \in Threads : t \in client
      BY <2>2 DEF IInv, TypeOK
    <3>2. token[t] # 0 /\ token[t] \in Nat
      BY <3>1 DEF IInv, TypeOK, Placed
    <3> QED BY <3>2 DEF IInv, Accounted
  <2> QED BY <2>1, <2>2
<1> QED
  BY <1>1, IInvCorrect, PTL

\* When every Database is gone, and the guard, the SDK is shut down.
THEOREM NothingLeakedCorrect == SdkSpec => []NothingLeaked
<1>1. IInv => NothingLeaked
  <2> SUFFICES ASSUME IInv, \A t \in Threads : pc[t] = "closed", ~guard
               PROVE  alive = {}
    BY DEF NothingLeaked, IInv, Running
  <2>1. \A t \in Threads : token[t] = 0 /\ dying[t] = 0
    BY DEF IInv, TypeOK, Placed
  <2> QED BY <2>1 DEF IInv, TypeOK, Accounted
<1> QED
  BY <1>1, IInvCorrect, PTL
=============================================================================
