----------------------------- MODULE Subscribers -----------------------------
(***************************************************************************)
(* The subscriber list of one event key in pkg/grpc/server.go: streams     *)
(* register and unregister their channel in s.subscribers[key] under s.mu, *)
(* and BroadcastEvent walks the slice it read under the lock after it has  *)
(* released the lock.                                                      *)
(*                                                                         *)
(* A slice is an array and a length.  append writes in place while the     *)
(* capacity lasts and otherwise moves to an array twice as large; the      *)
(* removal append(subs[:i], subs[i+1:]...) always shifts in place.  A      *)
(* broadcaster reading a slot that is being shifted sees its old or its    *)
(* new content.                                                            *)
(*                                                                         *)
(* A stream is identified with its channel, which is made when it          *)
(* registers and is never used again.                                      *)
(***************************************************************************)
EXTENDS Naturals, Sequences, SequencesExt, FiniteSets

CONSTANTS
  Streams,       \* the streams ever opened for the key
  Broadcasters,  \* goroutines calling BroadcastEvent for the key
  Empty,         \* a slot never written
  Cap            \* capacity of a subscriber's channel (100)

ASSUME ConstantsAssumption ==
  Empty \notin Streams /\ Cap \in Nat \ {0}

VARIABLES
  arrays,    \* the backing arrays allocated so far; the last is the slice's
  len,       \* the length of s.subscribers[key]
  mover,     \* the stream shifting slots while it holds s.mu, if any
  before,    \* the content of the array before that shift
  stream,    \* where each stream is
  buffered,  \* the number of events in its channel
  pc,        \* where each BroadcastEvent call is
  view,      \* the slice it reads: which array, and how many slots
  next,      \* the slot it reads next
  ch,        \* the channel it took from the slot
  crashed,   \* a send on a closed channel panicked: the process is gone
  members,   \* history: the registered streams at the snapshot, in order
  attempted, \* history: the channels the call tried to send to, in order
  left       \* history: the streams that unregistered since the snapshot

list == <<arrays, len, mover, before>>
calls == <<pc, view, next, ch, members, attempted>>
vars == <<list, stream, buffered, calls, left, crashed>>

array == Len(arrays)

(* What the lock holder sees: the slots of s.subscribers[key].             *)
Registered == SubSeq(arrays[array], 1, len)

(* The state is well formed: the slice and the views broadcasters hold of  *)
(* it lie within their arrays, no channel holds more than its capacity.    *)
TypeOK ==
  /\ arrays \in Seq(Seq(Streams \union {Empty})) /\ arrays # <<>>
  /\ len \in 0 .. Len(arrays[array])
  /\ mover \in Streams \union {Empty}
  /\ stream \in [Streams -> {"new", "open", "moving", "unlocked", "closed"}]
  /\ buffered \in [Streams -> 0 .. Cap]
  /\ pc \in [Broadcasters -> {"idle", "loop", "send"}]
  /\ \A b \in Broadcasters :
       /\ view[b].array \in 1 .. array
       /\ view[b].len \in 0 .. Len(arrays[view[b].array])
       /\ next[b] \in 1 .. view[b].len + 1
  /\ crashed \in BOOLEAN

-----------------------------------------------------------------------------
NoView == [array |-> 1, len |-> 0]

(* NewServer's empty map: a nil slice has no array, here one of capacity 0. *)
Init ==
  /\ arrays = << <<>> >>
  /\ len = 0
  /\ mover = Empty
  /\ before = <<>>
  /\ stream = [s \in Streams |-> "new"]
  /\ buffered = [s \in Streams |-> 0]
  /\ pc = [b \in Broadcasters |-> "idle"]
  /\ view = [b \in Broadcasters |-> NoView]
  /\ next = [b \in Broadcasters |-> 1]
  /\ ch = [b \in Broadcasters |-> Empty]
  /\ crashed = FALSE
  /\ members = [b \in Broadcasters |-> <<>>]
  /\ attempted = [b \in Broadcasters |-> <<>>]
  /\ left = [b \in Broadcasters |-> {}]

Unlocked == mover = Empty

(* An array of twice the capacity with the same content (Go's growth of    *)
(* small slices).                                                          *)
Grown(a) ==
  LET cap == IF a = <<>> THEN 1 ELSE 2 * Len(a)
  IN  a \o [i \in 1 .. cap - Len(a) |-> Empty]

(* Fault: the slice is extended without room for it.                       *)
AppendNoGrowth(s) ==
  /\ len' = len + 1
  /\ arrays' = [arrays EXCEPT ![array] =
                  [k \in DOMAIN @ |-> IF k = len + 1 THEN s ELSE @[k]]]

(* Fault: the channel is put in front, the others shifted in place.        *)
Prepend(s) ==
  /\ len' = len + 1
  /\ LET a == IF len < Len(arrays[array]) THEN arrays[array]
              ELSE Grown(arrays[array])
         b == [k \in DOMAIN a |-> IF k = 1 THEN s ELSE a[k - 1]]
     IN  arrays' = IF len < Len(arrays[array])
                     THEN [arrays EXCEPT ![array] = b] ELSE Append(arrays, b)

(* append(s.subscribers[key], eventChan).                                  *)
Append1(s) ==
  /\ len' = len + 1
  /\ arrays' =
       IF len < Len(arrays[array])
         THEN [arrays EXCEPT ![array][len + 1] = s]
         ELSE Append(arrays, [Grown(arrays[array]) EXCEPT ![len + 1] = s])

(* StreamEvents, the critical section that registers the channel.          *)
Subscribe(s) ==
  /\ ~crashed /\ Unlocked
  /\ stream[s] = "new"
  /\ Append1(s)
  /\ stream' = [stream EXCEPT ![s] = "open"]
  /\ UNCHANGED <<mover, before, buffered, calls, left, crashed>>

(* Fault: the slots behind the next one are shifted.                       *)
ShiftedFault(s) ==
  LET i == SelectInSeq(Registered, LAMBDA x : x = s)
  IN  [k \in 1 .. Len(arrays[array]) |->
         IF i < k /\ k < len THEN arrays[array][k + 1] ELSE arrays[array][k]]

(* The slots from that of s on shifted down by one; the last keeps its     *)
(* content.                                                                *)
Shifted(s) ==
  LET i == SelectInSeq(Registered, LAMBDA x : x = s)
  IN  [k \in 1 .. Len(arrays[array]) |->
         IF i <= k /\ k < len THEN arrays[array][k + 1] ELSE arrays[array][k]]

(* The stream ends, for whatever reason: its deferred cleanup takes the    *)
(* lock and removes the channel from the slice.                            *)
Unsubscribe(s) ==
  /\ ~crashed /\ Unlocked
  /\ stream[s] = "open"
  /\ mover' = s
  /\ before' = arrays[array]
  /\ arrays' = [arrays EXCEPT ![array] = Shifted(s)]
  /\ len' = len - 1
  /\ stream' = [stream EXCEPT ![s] = "moving"]
  /\ left' = [b \in Broadcasters |-> IF pc[b] = "idle" THEN {}
                                    ELSE left[b] \union {s}]
  /\ UNCHANGED <<buffered, calls, crashed>>

Unlock(s) ==
  /\ ~crashed
  /\ stream[s] = "moving"
  /\ mover' = Empty
  /\ before' = <<>>
  /\ stream' = [stream EXCEPT ![s] = "unlocked"]
  /\ UNCHANGED <<arrays, len, buffered, calls, left, crashed>>

(* Fault: the channel is closed while it is still subscribed.              *)
CloseFault(s) ==
  /\ ~crashed
  /\ stream[s] = "open"
  /\ stream' = [stream EXCEPT ![s] = "closed"]
  /\ UNCHANGED <<list, buffered, calls, left, crashed>>

(* close(eventChan), after the lock is released.                           *)
Close(s) ==
  /\ ~crashed
  /\ stream[s] = "unlocked"
  /\ stream' = [stream EXCEPT ![s] = "closed"]
  /\ UNCHANGED <<list, buffered, calls, left, crashed>>

(* The stream takes an event from its channel and sends it to the client.  *)
Receive(s) ==
  /\ ~crashed
  /\ stream[s] = "open" /\ buffered[s] > 0
  /\ buffered' = [buffered EXCEPT ![s] = @ - 1]
  /\ UNCHANGED <<list, stream, calls, left, crashed>>

-----------------------------------------------------------------------------
(* BroadcastEvent: the slice is copied under the read lock.                *)
Snapshot(b) ==
  /\ ~crashed /\ Unlocked
  /\ pc[b] = "idle"
  /\ pc' = [pc EXCEPT ![b] = "loop"]
  /\ view' = [view EXCEPT ![b] = [array |-> array, len |-> len]]
  /\ members' = [members EXCEPT ![b] = Registered]
  /\ UNCHANGED <<list, stream, buffered, next, ch, attempted, left, crashed>>

(* What a read of slot i of the view may return.                           *)
SlotValues(b, i) ==
  {arrays[view[b].array][i]}
    \union IF view[b].array = array /\ ~Unlocked THEN {before[i]} ELSE {}

(* The range clause takes the next channel, without the lock.              *)
TakeSlot(b) ==
  /\ ~crashed
  /\ pc[b] = "loop" /\ next[b] <= view[b].len
  /\ \E s \in SlotValues(b, next[b]) : ch' = [ch EXCEPT ![b] = s]
  /\ next' = [next EXCEPT ![b] = @ + 1]
  /\ pc' = [pc EXCEPT ![b] = "send"]
  /\ UNCHANGED <<list, stream, buffered, view, members, attempted, left, crashed>>

(* Fault: the select has no default, a full channel blocks.                *)
SendFault(b) ==
  /\ ~crashed
  /\ pc[b] = "send"
  /\ stream[ch[b]] # "closed" => buffered[ch[b]] < Cap
  /\ IF stream[ch[b]] = "closed"
       THEN crashed' = TRUE /\ UNCHANGED buffered
       ELSE buffered' = [buffered EXCEPT ![ch[b]] = @ + 1] /\ UNCHANGED crashed
  /\ attempted' = [attempted EXCEPT ![b] = Append(@, ch[b])]
  /\ pc' = [pc EXCEPT ![b] = "loop"]
  /\ UNCHANGED <<list, stream, view, next, ch, members, left>>

(* The select: the event is sent, or skipped when the channel is full; on  *)
(* a closed channel the send panics and no caller recovers.                *)
Send(b) ==
  /\ ~crashed
  /\ pc[b] = "send"
  /\ IF stream[ch[b]] = "closed"
       THEN crashed' = TRUE /\ UNCHANGED buffered
       ELSE /\ buffered' = IF buffered[ch[b]] < Cap
                             THEN [buffered EXCEPT ![ch[b]] = @ + 1]
                             ELSE buffered
            /\ UNCHANGED crashed
  /\ attempted' = [attempted EXCEPT ![b] = Append(@, ch[b])]
  /\ pc' = [pc EXCEPT ![b] = "loop"]
  /\ UNCHANGED <<list, stream, view, next, ch, members, left>>

(* The loop is over; the call's variables and its history go out of scope. *)
Return(b) ==
  /\ ~crashed
  /\ pc[b] = "loop" /\ next[b] > view[b].len
  /\ pc' = [pc EXCEPT ![b] = "idle"]
  /\ view' = [view EXCEPT ![b] = NoView]
  /\ next' = [next EXCEPT ![b] = 1]
  /\ ch' = [ch EXCEPT ![b] = Empty]
  /\ members' = [members EXCEPT ![b] = <<>>]
  /\ attempted' = [attempted EXCEPT ![b] = <<>>]
  /\ left' = [left EXCEPT ![b] = {}]
  /\ UNCHANGED <<list, stream, buffered, crashed>>

Next ==
  \/ \E s \in Streams :
       Subscribe(s) \/ Unsubscribe(s) \/ Unlock(s) \/ Close(s) \/ Receive(s)
  \/ \E b \in Broadcasters :
       Snapshot(b) \/ TakeSlot(b) \/ Send(b) \/ Return(b)

Spec == Init /\ [][Next]_vars

(* A broadcaster that runs keeps running; no client is obliged to read.    *)
Fairness ==
  \A b \in Broadcasters :
    WF_vars(TakeSlot(b)) /\ WF_vars(Send(b)) /\ WF_vars(Return(b))

FairSpec == Spec /\ Fairness

-----------------------------------------------------------------------------
(* Whatever the order of appends, growths and in-place removals, the slice *)
(* of a key lists exactly the open streams, each once (the registration    *)
(* and the cleanup of StreamEvents).                                       *)
SubscriptionExact ==
  /\ ToSet(Registered) = {s \in Streams : stream[s] = "open"}
  /\ IsInjective(Registered)

(* A broadcast goes through the streams of its snapshot in order, each at  *)
(* its turn and at no other, up to the first of them that unregisters      *)
(* meanwhile; whoever registers does so in the array it is reading.  So a  *)
(* stream is passed over, or sent an event twice, only when one ahead of   *)
(* it in the slice leaves (BroadcastEvent without the lock).               *)
ExactAheadOfLeavers ==
  \A b \in Broadcasters : pc[b] = "loop" =>
    \A i \in 1 .. next[b] - 1 :
      (\A j \in 1 .. i : members[b][j] \notin left[b]) =>
        \A k \in 1 .. next[b] - 1 : attempted[b][k] = members[b][i] <=> k = i

(* The process panics in a broadcast only by sending to a stream that      *)
(* unregistered after the snapshot of that broadcast.                      *)
PanicOnlyOnLeaver ==
  crashed => \E b \in Broadcasters :
               attempted[b] # <<>> /\ Last(attempted[b]) \in left[b]

(* A call of BroadcastEvent returns, or the process panics, whether or not *)
(* clients read their events: a slow client never holds the monitor up.    *)
BroadcastReturns ==
  \A b \in Broadcasters : pc[b] # "idle" ~> (pc[b] = "idle" \/ crashed)
=============================================================================
