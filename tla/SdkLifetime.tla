---------------------------- MODULE SdkLifetime ----------------------------
(***************************************************************************)
(* aws::open() and ~Database on several threads (aws/database.cpp).  All    *)
(* Databases share one SdkInit, whose constructor calls Aws::InitAPI and    *)
(* whose destructor calls Aws::ShutdownAPI.  acquire_sdk_token() finds it   *)
(* through a weak_ptr under a mutex; a Database lets go of it without the   *)
(* mutex.  The embedder may hold an AwsApiGuard around everything.          *)
(*                                                                          *)
(* InitAPI and ShutdownAPI are external.  database.cpp calls them `not       *)
(* safely nestable' (line 24) and says of nested ones that `refcounts add'   *)
(* (line 27), so both are considered: an SDK that counts, and one that after *)
(* a ShutdownAPI with another InitAPI in force may run or not.               *)
(***************************************************************************)
EXTENDS Integers, FiniteSets

CONSTANTS Threads,     \* threads, each with a Database at a time
          NoThread,    \* the mutex is free
          MaxTokens    \* bound: SdkInit objects made

ASSUME SdkAssumption ==
  /\ NoThread \notin Threads /\ MaxTokens \in Nat

VARIABLES
  pc,      \* where each thread is
  mutex,   \* the thread inside acquire_sdk_token()
  weak,    \* the SdkInit the weak_ptr was last set to, 0 at first
  token,   \* the SdkInit each thread holds, 0 for none
  dying,   \* the SdkInit whose destructor a thread runs, 0 for none
  client,  \* the threads that have an AwsDDBClient
  guard,   \* does the embedder hold an AwsApiGuard?
  alive,   \* the SdkInits (and 0, the guard) whose InitAPI has no ShutdownAPI yet
  counts,  \* does the SDK count nested InitAPIs?  fixed
  up,      \* does the SDK run?
  nested   \* history: has an InitAPI been called with another one in force?

sdk == <<alive, counts, up, nested>>
sdkVars == <<pc, mutex, weak, token, dying, client, guard, sdk>>

InitAPI(n) ==
  /\ alive' = alive \union {n} /\ up' = TRUE
  /\ nested' = (nested \/ alive # {})
  /\ UNCHANGED counts

ShutdownAPI(n) ==
  /\ alive' = alive \ {n}
  /\ up' \in IF counts \/ alive' = {} THEN {alive' # {}} ELSE BOOLEAN
  /\ UNCHANGED <<counts, nested>>

Holders(s) == {t \in Threads : token[t] = s}

Goto(t, where) == pc' = [pc EXCEPT ![t] = where]

InitSdk ==
  /\ pc = [t \in Threads |-> "closed"] /\ mutex = NoThread /\ weak = 0
  /\ token = [t \in Threads |-> 0] /\ dying = [t \in Threads |-> 0] /\ client = {}
  /\ guard \in BOOLEAN
  /\ alive = (IF guard THEN {0} ELSE {}) /\ up = guard
  /\ counts \in BOOLEAN /\ nested = FALSE

-----------------------------------------------------------------------------

\* Faulty variant: no lock_guard.
LockForgotten(t) ==
  /\ pc[t] = "closed"
  /\ Goto(t, "lookup")
  /\ UNCHANGED <<mutex, weak, token, dying, client, guard, sdk>>

Lock(t) ==
  /\ pc[t] = "closed" /\ mutex = NoThread
  /\ mutex' = t
  /\ Goto(t, "lookup")
  /\ UNCHANGED <<weak, token, dying, client, guard, sdk>>

\* weak.lock() finds the SdkInit as long as somebody holds it; if so the
\* function returns and unlocks.
Lookup(t) ==
  /\ pc[t] = "lookup"
  /\ IF weak # 0 /\ Holders(weak) # {}
     THEN /\ token' = [token EXCEPT ![t] = weak] /\ mutex' = NoThread
          /\ Goto(t, "token")
     ELSE Goto(t, "create") /\ UNCHANGED <<token, mutex>>
  /\ UNCHANGED <<weak, dying, client, guard, sdk>>

\* make_shared<SdkInit>() calls InitAPI; the weak_ptr is set before the unlock.
Create(t) ==
  /\ pc[t] = "create" /\ weak < MaxTokens
  /\ weak' = weak + 1
  /\ token' = [token EXCEPT ![t] = weak']
  /\ InitAPI(weak')
  /\ mutex' = NoThread
  /\ Goto(t, "token")
  /\ UNCHANGED <<dying, client, guard>>

\* open() goes on to build the AwsDDBClient and the Connection.
Open(t) ==
  /\ pc[t] = "token"
  /\ client' = client \union {t}
  /\ Goto(t, "open")
  /\ UNCHANGED <<mutex, weak, token, dying, guard, sdk>>

\* Faulty variant: the members are destroyed in the other order.
CloseClientLate(t) ==
  /\ pc[t] = "open"
  /\ Goto(t, "drop")
  /\ UNCHANGED <<mutex, weak, token, dying, client, guard, sdk>>

\* ~Database destroys conn_ first, because it is declared last.
CloseClient(t) ==
  /\ pc[t] = "open"
  /\ client' = client \ {t}
  /\ Goto(t, "drop")
  /\ UNCHANGED <<mutex, weak, token, dying, guard, sdk>>

\* Faulty variant: the token is never destroyed.
DropTokenLeaks(t) ==
  /\ pc[t] = "drop"
  /\ token' = [token EXCEPT ![t] = 0]
  /\ Goto(t, "closed")
  /\ UNCHANGED <<mutex, weak, dying, client, guard, sdk>>

\* Then sdk_token_.  The last holder goes on to run the destructor; from here
\* on the weak_ptr is expired.
DropToken(t) ==
  /\ pc[t] = "drop"
  /\ token' = [token EXCEPT ![t] = 0]
  /\ IF Holders(token[t]) = {t}
     THEN dying' = [dying EXCEPT ![t] = token[t]] /\ Goto(t, "destroy")
     ELSE UNCHANGED dying /\ Goto(t, "closed")
  /\ UNCHANGED <<mutex, weak, client, guard, sdk>>

\* ~SdkInit calls ShutdownAPI.
Destroy(t) ==
  /\ pc[t] = "destroy"
  /\ ShutdownAPI(dying[t])
  /\ dying' = [dying EXCEPT ![t] = 0]
  /\ Goto(t, "closed")
  /\ UNCHANGED <<mutex, weak, token, client, guard>>

\* The embedder's guard encloses every Database.
GuardEnds ==
  /\ guard /\ \A t \in Threads : pc[t] = "closed"
  /\ guard' = FALSE
  /\ ShutdownAPI(0)
  /\ UNCHANGED <<pc, mutex, weak, token, dying, client>>

NextSdk ==
  \/ \E t \in Threads : \/ Lock(t) \/ Lookup(t) \/ Create(t) \/ Open(t)
                        \/ CloseClient(t) \/ DropToken(t) \/ Destroy(t)
  \/ GuardEnds

SdkSpec == InitSdk /\ [][NextSdk]_sdkVars

-----------------------------------------------------------------------------
(***************************************************************************)
(* Properties.                                                             *)
(***************************************************************************)

\* Every AwsDDBClient, and the embedder within its AwsApiGuard, has a running
\* SDK, although the last Database on one thread may be letting go of its token
\* while another thread opens one: always with an SDK that counts, and with one
\* that does not as long as no InitAPI was called with another one in force.
SdkUpInUse == (client # {} \/ guard) /\ (counts \/ ~nested) => up

\* Databases that exist at the same time share one SdkInit.
OneToken == \A s, t \in Threads : token[s] # 0 /\ token[t] # 0 => token[s] = token[t]

\* Once the last Database is gone, and the guard, the SDK is shut down: every
\* InitAPI was followed by its ShutdownAPI.
NothingLeaked == (\A t \in Threads : pc[t] = "closed") /\ ~guard => alive = {} /\ ~up
=============================================================================
