------------------------------ MODULE RateLimit ------------------------------
(***************************************************************************)
(* The rate limit of the event query endpoint                              *)
(* (successBasedRateLimitMiddleware of internal/api/rate_limit.go) for one *)
(* user: a counter in Redis is read before a request is served and, if it  *)
(* was served with success, incremented and given a new time to live       *)
(* afterwards.  Requests of the user run at the same time, also on several *)
(* instances of the service.  A pipeline is not a transaction: the two     *)
(* commands are two steps, and the second may be lost.                     *)
(***************************************************************************)
EXTENDS Naturals, FiniteSets

CONSTANTS
  Requests,  \* requests of the user that may be under way at a time
  Limit,     \* successful requests in a window (100000)
  MaxFaults  \* bound on failing calls

ASSUME LimitAssumption ==
  /\ IsFiniteSet(Requests) /\ Requests # {}
  /\ Limit \in Nat \ {0} /\ MaxFaults \in Nat

VARIABLES
  count,    \* the counter, 0 when its key does not exist
  armed,    \* whether the key has a time to live
  pc,       \* where each request is
  faults,   \* failing calls so far
  unarmed   \* history: an increment was not followed by its Expire

limitVars == <<count, armed, pc, faults, unarmed>>

TypeOK ==
  /\ count \in Nat /\ armed \in BOOLEAN /\ unarmed \in BOOLEAN
  /\ count = 0 => ~armed
  /\ pc \in [Requests -> {"idle", "serve", "count", "expire"}]
  /\ faults \in 0 .. MaxFaults

Init ==
  /\ count = 0 /\ armed = FALSE
  /\ pc = [r \in Requests |-> "idle"]
  /\ faults = 0 /\ unarmed = FALSE

Fault == faults < MaxFaults /\ faults' = faults + 1
Goto(r, label) == pc' = [pc EXCEPT ![r] = label]

(* Fault: a request passes while the counter is at the limit.              *)
CheckLate(r) ==
  /\ pc[r] = "idle"
  /\ count <= Limit
  /\ Goto(r, "serve")
  /\ UNCHANGED <<count, armed, faults, unarmed>>

(* A request of a valid token passes while the counter is below the limit. *)
Check(r) ==
  /\ pc[r] = "idle"
  /\ count < Limit
  /\ Goto(r, "serve")
  /\ UNCHANGED <<count, armed, faults, unarmed>>

(* Too many requests, or Redis fails: nothing changes for the next one.    *)
Reject(r) ==
  /\ pc[r] = "idle"
  /\ \/ count >= Limit /\ UNCHANGED faults
     \/ Fault
  /\ UNCHANGED <<count, armed, pc, unarmed>>

(* The handler has answered; only a success is counted.  A call of the     *)
(* handler's may have failed.                                              *)
Respond(r, success) ==
  /\ pc[r] = "serve"
  /\ UNCHANGED faults \/ (~success /\ Fault)
  /\ Goto(r, IF success THEN "count" ELSE "idle")
  /\ UNCHANGED <<count, armed, unarmed>>

Incr(r) ==
  /\ pc[r] = "count"
  /\ count' = count + 1
  /\ Goto(r, "expire")
  /\ UNCHANGED <<armed, faults, unarmed>>

IncrFails(r) ==
  /\ pc[r] = "count"
  /\ Fault
  /\ Goto(r, "idle")
  /\ UNCHANGED <<count, armed, unarmed>>

(* Fault: only the first success of a window sets the time to live, and    *)
(* another success has come first.                                         *)
ExpireFirst(r) ==
  /\ pc[r] = "expire"
  /\ armed' = (armed \/ count = 1)
  /\ Goto(r, "idle")
  /\ UNCHANGED <<count, faults, unarmed>>

(* Each success gives the key a whole window more.                         *)
Expire(r) ==
  /\ pc[r] = "expire"
  /\ armed' = (count > 0)
  /\ Goto(r, "idle")
  /\ UNCHANGED <<count, faults, unarmed>>

ExpireFails(r) ==
  /\ pc[r] = "expire"
  /\ Fault
  /\ unarmed' = TRUE
  /\ Goto(r, "idle")
  /\ UNCHANGED <<count, armed>>

(* Fault: the key is set to zero and keeps its time to live.               *)
WindowEndsArmed ==
  /\ armed
  /\ count' = 0
  /\ UNCHANGED <<armed, pc, faults, unarmed>>

(* The window has passed since the last success that set it.               *)
WindowEnds ==
  /\ armed
  /\ count' = 0 /\ armed' = FALSE
  /\ UNCHANGED <<pc, faults, unarmed>>

Counting(r) == Incr(r) \/ IncrFails(r) \/ Expire(r) \/ ExpireFails(r)

Next ==
  \/ \E r \in Requests :
       \/ Check(r) \/ Reject(r) \/ Counting(r)
       \/ \E success \in BOOLEAN : Respond(r, success)
  \/ WindowEnds

Spec == Init /\ [][Next]_limitVars

-----------------------------------------------------------------------------
(* Requests that have passed the check and are not counted yet.            *)
Passed == {r \in Requests : pc[r] \in {"serve", "count"}}

(* The counter is read in one call and incremented in a later one, so      *)
(* requests pass the limit together: the excess is at most the requests    *)
(* that one user can have under way at a time, less one, however they      *)
(* interleave with each other and with the end of windows.                 *)
OvershootBound == count + Cardinality(Passed) <= Limit + Cardinality(Requests) - 1

(* A user over the limit is let in again after a quiet window, unless an   *)
(* Expire was lost: then the key has no time to live, and no request that  *)
(* is refused gives it one.                                                *)
LimitIsLifted == (count >= Limit /\ ~unarmed) ~> (count < Limit \/ unarmed)
=============================================================================
