------------------------------ MODULE EventFeed ------------------------------
(***************************************************************************)
(* What the service promises to the Redis channels it publishes to: events *)
(* go out in the order in which they were handed over, none is invented    *)
(* and none goes out more often than it was handed over.  An event may be  *)
(* refused by Redis, and those still waiting are lost when the process     *)
(* ends.  No event waits for ever.                                         *)
(***************************************************************************)
EXTENDS Sequences

CONSTANT Events

VARIABLES
  waiting,   \* handed over and not yet published
  sent       \* published, in order

feed == <<waiting, sent>>

Init == waiting = <<>> /\ sent = <<>>

HandOver ==
  /\ \E e \in Events : waiting' = Append(waiting, e)
  /\ UNCHANGED sent

Deliver ==
  /\ waiting # <<>>
  /\ sent' = Append(sent, Head(waiting))
  /\ waiting' = Tail(waiting)

Refuse ==
  /\ waiting # <<>>
  /\ waiting' = Tail(waiting)
  /\ UNCHANGED sent

(* The process ends.                                                       *)
Lose ==
  /\ waiting' = <<>>
  /\ UNCHANGED sent

Next == HandOver \/ Deliver \/ Refuse \/ Lose

Spec == Init /\ [][Next]_feed

FairSpec == Spec /\ WF_feed(Deliver \/ Refuse \/ Lose)
=============================================================================
