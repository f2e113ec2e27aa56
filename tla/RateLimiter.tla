---------------------------- MODULE RateLimiter ----------------------------
(***************************************************************************)
(* The two token buckets of execute/rate_limiter.{hpp,cpp}, as operators   *)
(* on a limiter record.  Executors that honour a WITH RATELIMIT clause     *)
(* keep such a record as part of their state.                              *)
(*                                                                         *)
(* Time is a natural number of ticks, Second of them to the second.  The   *)
(* code's rates are per second and its tokens are doubles; here RCU and    *)
(* WCU are what one tick adds, so that tokens stay integers, and a bucket  *)
(* still holds at most one second's credit.                                *)
(***************************************************************************)
EXTENDS Integers

CONSTANTS RCU,      \* tokens one tick adds to the read bucket, 0 disables it
          WCU,      \* tokens one tick adds to the write bucket, 0 disables it
          Second    \* ticks in a second

ASSUME RateAssumption == RCU \in Nat /\ WCU \in Nat /\ Second \in Nat \ {0}

Limiter == [read: Int, write: Int, last: Nat]

AtMost(bound, n) == IF n <= bound THEN n ELSE bound

\* Tokens start at 0 and the first refill counts from the construction.
NewLimiter(now) == [read |-> 0, write |-> 0, last |-> now]

\* Both buckets are refilled, whichever one the caller waits for.
Refresh(l, now) ==
  [read  |-> AtMost(RCU * Second, l.read + (now - l.last) * RCU),
   write |-> AtMost(WCU * Second, l.write + (now - l.last) * WCU),
   last  |-> now]

\* The total units of a response; a response without capacity has 0 units.
ConsumeReads(l, units) == [l EXCEPT !.read = @ - units]

ConsumeWrites(l, units) == [l EXCEPT !.write = @ - units]

\* readlimit() and writelimit() return at the first refill that leaves the
\* bucket non-negative.  Refilling in several steps or in one gives the same
\* tokens, so the sleep loop is the wait for the condition below, and the
\* call as a whole replaces l by Refresh(l, now).
ReadlimitReturns(l, now) == RCU = 0 \/ Refresh(l, now).read >= 0

WritelimitReturns(l, now) == WCU = 0 \/ Refresh(l, now).write >= 0
=============================================================================
