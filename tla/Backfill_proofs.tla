---------------------------- MODULE Backfill_proofs ----------------------------
(***************************************************************************)
(* Safety of Backfill for any number of deliveries, any chunk and channel  *)
(* size and any height of the chain.                                       *)
(***************************************************************************)
EXTENDS Backfill, SequenceTheorems, TLAPS

USE ConstantsAssumption DEF Blocks

(* The buffers as functions; TypeOK speaks of them one by one.             *)
Buffers == channel \in [Tasks -> Seq(Blocks)]

(* The logs the listener of t has sent and that still matter: the one the  *)
(* handler is at and those in the buffer.                                  *)
Sent(t) ==
  {channel[t][i] : i \in DOMAIN channel[t]} \union ({event[t]} \ {None})

(* How far the listener of t has come.                                     *)
Position(t) ==
  /\ pc[t] = "new" => listener[t] = "none"
  /\ listener[t] \in {"none", "latest"} => Sent(t) = {} /\ t \notin closed
  /\ listener[t] \in {"fetch", "send"} => MoreChunks(t)
  /\ listener[t] = "close" => ~MoreChunks(t)
  /\ t \in closed => ~MoreChunks(t) /\ listener[t] \in {"done", "ended"}
  /\ pending[t] # {} => listener[t] = "send"

(* Everything before currentBlock was fetched, and the chunk as well once  *)
(* its logs are being sent; while the range is not used up, a chunk begins *)
(* at currentBlock.                                                        *)
FetchedBelow(t) ==
  /\ current[t] <= end[t] => ChunkStart(current[t])
  /\ StartBlock .. current[t] - 1 \subseteq fetched[t]
  /\ listener[t] = "send" => Chunk(t) \subseteq fetched[t] /\ pending[t] \subseteq Chunk(t)

(* What was sent lies before what is still to be sent or fetched.          *)
SentBelow(t) ==
  /\ listener[t] \in {"status", "chunk", "fetch"} => \A b \in Sent(t) : b < current[t]
  /\ listener[t] = "send" => \A b \in Sent(t) : b <= ToBlock(t)
  /\ \A b \in Sent(t), c \in pending[t] : b < c

(* The buffer rises, and rises from the log the handler is at.             *)
Rising(t) ==
  \A i \in DOMAIN channel[t] :
    /\ event[t] # None => event[t] < channel[t][i]
    /\ \A j \in 1 .. i - 1 : channel[t][j] < channel[t][i]

TaskInv(t) == Position(t) /\ FetchedBelow(t) /\ SentBelow(t) /\ Rising(t)

IInv == TypeOK /\ Buffers /\ (\A t \in Tasks : TaskInv(t)) /\ StatusIsCovered

-----------------------------------------------------------------------------
(* Bounds of a chunk.                                                      *)
LEMMA ChunkBounds ==
  ASSUME TypeOK, NEW t \in Tasks, MoreChunks(t)
  PROVE  /\ current[t] \in Nat /\ ToBlock(t) \in Blocks
         /\ current[t] <= ToBlock(t)
         /\ Chunk(t) \subseteq Blocks
BY DEF TypeOK, MoreChunks, ToBlock, Chunk

(* Chunks begin at StartBlock and every ChunkSize + 1 blocks from there.    *)
LEMMA FirstChunk == ChunkStart(StartBlock)
<1>1. 0 \in 0 .. StartBlock /\ StartBlock = StartBlock + 0 * (ChunkSize + 1)
  OBVIOUS
<1> QED
  BY <1>1 DEF ChunkStart

LEMMA NextChunk ==
  ASSUME NEW b \in Nat, ChunkStart(b)
  PROVE  ChunkStart(b + ChunkSize + 1)
<1>1. PICK n \in 0 .. b : b = StartBlock + n * (ChunkSize + 1)
  BY DEF ChunkStart
<1>2. (n + 1) * (ChunkSize + 1) = n * (ChunkSize + 1) + (ChunkSize + 1)
  OBVIOUS
<1>3. n * (ChunkSize + 1) \in Nat
  OBVIOUS
<1>4. b + ChunkSize + 1 = StartBlock + (n + 1) * (ChunkSize + 1)
  BY <1>1, <1>2, <1>3
<1>5. n + 1 \in 0 .. b + ChunkSize + 1
  OBVIOUS
<1> QED
  BY <1>4, <1>5 DEF ChunkStart

(* A step of one task leaves what the others are at alone.                 *)
LEMMA OtherTask ==
  ASSUME NEW u, TaskInv(u),
         pc'[u] = pc[u], event'[u] = event[u], listener'[u] = listener[u],
         current'[u] = current[u], end'[u] = end[u], pending'[u] = pending[u],
         channel'[u] = channel[u], fetched'[u] = fetched[u],
         u \in closed' <=> u \in closed
  PROVE  TaskInv(u)'
<1>1. Sent(u)' = Sent(u) /\ ToBlock(u)' = ToBlock(u) /\ Chunk(u)' = Chunk(u)
  BY DEF Sent, ToBlock, Chunk
<1>2. Position(u)' /\ FetchedBelow(u)'
  BY <1>1 DEF TaskInv, Position, FetchedBelow, MoreChunks
<1>3. SentBelow(u)' /\ Rising(u)'
  BY <1>1 DEF TaskInv, SentBelow, Rising
<1> QED
  BY <1>2, <1>3 DEF TaskInv

LEMMA InitIInv == Init => IInv
<1> SUFFICES ASSUME Init
             PROVE  IInv
  OBVIOUS
<1> USE DEF Init
<1>1. TypeOK /\ Buffers
  BY DEF TypeOK, Buffers
<1>2. ASSUME NEW t \in Tasks
      PROVE  TaskInv(t)
  <2>1. Sent(t) = {}
    BY DEF Sent
  <2> QED
    BY <2>1, FirstChunk DEF TaskInv, Position, FetchedBelow, SentBelow, Rising
<1> QED
  BY <1>1, <1>2 DEF IInv, StatusIsCovered

-----------------------------------------------------------------------------
(* The state of the other tasks.                                           *)
Frame(t) ==
  \A u \in Tasks \ {t} :
    /\ pc'[u] = pc[u] /\ event'[u] = event[u] /\ listener'[u] = listener[u]
    /\ current'[u] = current[u] /\ end'[u] = end[u] /\ pending'[u] = pending[u]
    /\ channel'[u] = channel[u] /\ fetched'[u] = fetched[u]
    /\ u \in closed' <=> u \in closed

(* What is left to show of a step of t.                                    *)
LEMMA StepOf ==
  ASSUME IInv, NEW t \in Tasks, Frame(t), TypeOK', Buffers', TaskInv(t)', StatusIsCovered'
  PROVE  IInv'
<1>1. ASSUME NEW u \in Tasks \ {t}
      PROVE  TaskInv(u)'
  BY OtherTask DEF IInv, Frame
<1> QED
  BY <1>1 DEF IInv

(* Nothing is forgotten of what was fetched, so a status that stays or     *)
(* that is cleared remains covered.                                        *)
LEMMA StatusStays ==
  ASSUME IInv, NEW t \in Tasks, Frame(t), fetched[t] \subseteq fetched'[t],
         status' \in {status, None}
  PROVE  StatusIsCovered'
<1>1. Fetched \subseteq Fetched'
  BY DEF Frame, Fetched
<1> QED
  BY <1>1 DEF IInv, StatusIsCovered

(* Steps of the listener that neither fetch nor send nor move on.          *)
LEMMA WaitStep ==
  ASSUME IInv, NEW t \in Tasks,
         LatestFails(t) \/ ChunkBegins(t) \/ Cancelled(t) \/ FetchFails(t)
           \/ ClearStatus(t) \/ CloseChannel(t) \/ CloseDone(t)
  PROVE  IInv'
<1> USE DEF IInv, LatestFails, ChunkBegins, Cancelled, FetchFails, ClearStatus,
            CloseChannel, CloseDone, ListenerGoto, handlers, range, queue
<1>0. /\ UNCHANGED <<pc, event, channel, current, end, fetched>>
      /\ status' \in {status, None}
      /\ pending' \in {pending, [pending EXCEPT ![t] = {}]}
      /\ \E l \in {"fetch", "close", "done", "ended"} : listener' = [listener EXCEPT ![t] = l]
      /\ ctxDone' = ctxDone /\ closed' \subseteq closed \union {t} /\ closed \subseteq closed'
  OBVIOUS
<1>1. TypeOK' /\ Buffers'
  BY <1>0 DEF TypeOK, Buffers
<1>2. Frame(t)
  BY <1>0 DEF Frame, TypeOK
<1>3. Sent(t)' = Sent(t) /\ MoreChunks(t)' = MoreChunks(t)
      /\ ToBlock(t)' = ToBlock(t) /\ Chunk(t)' = Chunk(t)
  BY <1>0 DEF Sent, MoreChunks, ToBlock, Chunk
<1>4. Position(t)'
  BY <1>0, <1>3 DEF Position, TaskInv, TypeOK
<1>5. FetchedBelow(t)'
  BY <1>0, <1>3 DEF FetchedBelow, TaskInv, TypeOK
<1>6. SentBelow(t)' /\ Rising(t)'
  BY <1>0, <1>3 DEF SentBelow, Rising, TaskInv, TypeOK
<1>7. StatusIsCovered'
  BY <1>0, <1>2, StatusStays
<1> QED
  BY <1>1, <1>2, <1>4, <1>5, <1>6, <1>7, StepOf DEF TaskInv

(* The latest block is known: the range is fixed.                          *)
LEMMA LatestStep == ASSUME IInv, NEW t \in Tasks, LatestOK(t) PROVE IInv'
<1> USE DEF IInv, LatestOK, ListenerGoto, handlers, queue
<1>1. TypeOK' /\ Buffers'
  BY DEF TypeOK, Buffers
<1>2. Frame(t)
  BY DEF Frame, TypeOK
<1>3. Sent(t)' = {} /\ pending[t] = {} /\ t \notin closed /\ pc[t] # "new"
  BY DEF Sent, TaskInv, Position
<1>4. listener'[t] = "status" /\ current'[t] = StartBlock
  BY DEF TypeOK
<1>5. FetchedBelow(t)'
  <2>1. ChunkStart(current[t])'
    BY <1>4, FirstChunk DEF ChunkStart
  <2> QED
    BY <1>4, <2>1 DEF FetchedBelow
<1>6. Position(t)' /\ SentBelow(t)' /\ Rising(t)'
  BY <1>3, <1>4 DEF TaskInv, Position, SentBelow, Rising
<1>7. StatusIsCovered'
  BY <1>2, StatusStays
<1> QED
  BY <1>1, <1>2, <1>5, <1>6, <1>7, StepOf DEF TaskInv

(* The status is the block before which everything was fetched.            *)
LEMMA StatusStep == ASSUME IInv, NEW t \in Tasks, UpdateStatus(t) PROVE IInv'
<1> USE DEF IInv, UpdateStatus, ListenerGoto, handlers, range, queue
<1>1. TypeOK' /\ Buffers'
  BY DEF TypeOK, Buffers
<1>2. Frame(t)
  BY DEF Frame, TypeOK
<1>3. Sent(t)' = Sent(t) /\ listener'[t] = "chunk"
  BY DEF Sent, TypeOK
<1>4. TaskInv(t)'
  BY <1>3 DEF TaskInv, Position, FetchedBelow, SentBelow, Rising, MoreChunks
<1>5. StatusIsCovered'
  BY DEF StatusIsCovered, Fetched, TaskInv, FetchedBelow
<1> QED
  BY <1>1, <1>2, <1>4, <1>5, StepOf

(* A chunk is fetched: its logs lie at or after currentBlock, what was     *)
(* sent before it.                                                         *)
LEMMA FetchStep == ASSUME IInv, NEW t \in Tasks, FetchOK(t) PROVE IInv'
<1> USE DEF IInv, FetchOK, ListenerGoto, handlers, range, queue
<1>0. /\ current[t] \in Nat /\ ToBlock(t) \in Blocks /\ current[t] <= ToBlock(t)
      /\ Chunk(t) \subseteq Blocks
  BY ChunkBounds DEF TaskInv, Position
<1>1. TypeOK' /\ Buffers'
  BY <1>0 DEF TypeOK, Buffers
<1>2. Frame(t)
  BY DEF Frame, TypeOK
<1>3. /\ Sent(t)' = Sent(t) /\ MoreChunks(t)' = MoreChunks(t)
      /\ ToBlock(t)' = ToBlock(t) /\ Chunk(t)' = Chunk(t)
  BY DEF Sent, MoreChunks, ToBlock, Chunk
<1>4. /\ listener'[t] = "send"
      /\ fetched'[t] = fetched[t] \union Chunk(t)
      /\ pending'[t] = LogBlocks \intersect Chunk(t)
  BY DEF TypeOK
<1>5. Position(t)' /\ FetchedBelow(t)'
  BY <1>3, <1>4 DEF TaskInv, Position, FetchedBelow
<1>6. \A b \in Sent(t) : b \in Nat /\ b < current[t]
  BY DEF TaskInv, SentBelow, Sent, TypeOK
<1>7. SentBelow(t)'
  BY <1>0, <1>3, <1>4, <1>6 DEF SentBelow, Chunk
<1>8. Rising(t)'
  BY DEF Rising, TaskInv
<1>9. StatusIsCovered'
  BY <1>2, <1>4, StatusStays
<1> QED
  BY <1>1, <1>2, <1>5, <1>7, <1>8, <1>9, StepOf DEF TaskInv

(* The least pending log goes to the end of the buffer.                    *)
LEMMA SendStep == ASSUME IInv, NEW t \in Tasks, Send(t) PROVE IInv'
<1> USE DEF IInv, Send, handlers, range
<1>1. PICK b \in pending[t] :
        /\ \A other \in pending[t] : b <= other
        /\ pending' = [pending EXCEPT ![t] = @ \ {b}]
        /\ channel' = [channel EXCEPT ![t] = Append(@, b)]
  OBVIOUS
<1>2. /\ channel[t] \in Seq(Blocks) /\ b \in Blocks /\ pending[t] \subseteq Blocks
      /\ channel'[t] = Append(channel[t], b) /\ pending'[t] = pending[t] \ {b}
      /\ event[t] \in Blocks \union {None}
  BY <1>1 DEF TypeOK, Buffers
<1>3. Buffers'
  BY <1>1, <1>2 DEF Buffers
<1>4. TypeOK'
  <2>1. \A u \in Tasks : channel'[u] \in Seq(Blocks) /\ Len(channel'[u]) <= ChannelSize
    <3>1. Len(channel'[t]) = Len(channel[t]) + 1 /\ Len(channel[t]) \in Nat
      BY <1>2
    <3>2. \A u \in Tasks \ {t} : channel'[u] = channel[u]
      BY <1>1 DEF Buffers
    <3>3. Len(channel'[t]) <= ChannelSize
      BY <3>1
    <3>4. \A u \in Tasks \ {t} : channel'[u] \in Seq(Blocks) /\ Len(channel'[u]) <= ChannelSize
      BY <3>2 DEF TypeOK
    <3>5. channel'[t] \in Seq(Blocks)
      BY <1>3 DEF Buffers
    <3> QED
      BY <3>3, <3>4, <3>5
  <2>2. pending' \in [Tasks -> SUBSET Blocks]
    BY <1>1, <1>2 DEF TypeOK
  <2> QED
    BY <2>1, <2>2 DEF TypeOK
<1>5. Frame(t)
  BY <1>1 DEF Frame, TypeOK, Buffers
<1>6. /\ MoreChunks(t)' = MoreChunks(t)
      /\ ToBlock(t)' = ToBlock(t) /\ Chunk(t)' = Chunk(t)
  BY DEF MoreChunks, ToBlock, Chunk
<1>13. /\ DOMAIN channel[t] = 1 .. Len(channel[t])
       /\ DOMAIN channel'[t] = 1 .. Len(channel[t]) + 1
       /\ Len(channel[t]) \in Nat
       /\ \A j \in 1 .. Len(channel[t]) : channel'[t][j] = channel[t][j]
       /\ channel'[t][Len(channel[t]) + 1] = b
  BY <1>2
<1>7. Sent(t)' = Sent(t) \union {b}
  <2>1. {channel'[t][i] : i \in DOMAIN channel'[t]}
          = {channel[t][i] : i \in DOMAIN channel[t]} \union {b}
    BY <1>13
  <2> QED
    BY <2>1 DEF Sent
<1>8. Position(t)' /\ FetchedBelow(t)'
  BY <1>2, <1>6 DEF TaskInv, Position, FetchedBelow
<1>9. b <= ToBlock(t) /\ ToBlock(t) \in Nat
  BY <1>2, ChunkBounds DEF TaskInv, Position, FetchedBelow, Chunk
<1>10. SentBelow(t)'
  <2>1. \A c \in pending'[t] : b < c
    BY <1>1, <1>2
  <2> QED
    BY <1>2, <1>6, <1>7, <1>9, <2>1 DEF SentBelow, TaskInv
<1>11. Rising(t)'
  <2> SUFFICES ASSUME NEW i \in DOMAIN channel'[t]
               PROVE  /\ event[t] # None => event[t] < channel'[t][i]
                      /\ \A j \in 1 .. i - 1 : channel'[t][j] < channel'[t][i]
    BY DEF Rising
  <2>2. CASE i = Len(channel[t]) + 1
    <3>1. \A c \in Sent(t) : c < b
      BY <1>1 DEF TaskInv, SentBelow
    <3>2. event[t] # None => event[t] \in Sent(t)
      BY DEF Sent
    <3>3. \A j \in 1 .. Len(channel[t]) : channel[t][j] \in Sent(t)
      BY <1>13 DEF Sent
    <3> QED
      BY <1>13, <2>2, <3>1, <3>2, <3>3
  <2>3. CASE i \in 1 .. Len(channel[t])
    BY <1>13, <2>3 DEF TaskInv, Rising
  <2> QED
    BY <1>13, <2>2, <2>3
<1>12. StatusIsCovered'
  BY <1>5, StatusStays
<1> QED
  BY <1>3, <1>4, <1>5, <1>8, <1>10, <1>11, <1>12, StepOf DEF TaskInv

(* The chunk is sent: currentBlock moves past it, over what was fetched.   *)
LEMMA ChunkStep == ASSUME IInv, NEW t \in Tasks, ChunkEnds(t) PROVE IInv'
<1> USE DEF IInv, ChunkEnds, ListenerGoto, handlers, queue
<1>0. /\ current[t] \in Nat /\ ToBlock(t) \in Blocks /\ current[t] <= ToBlock(t)
  BY ChunkBounds DEF TaskInv, Position
<1>1. TypeOK' /\ Buffers'
  BY <1>0 DEF TypeOK, Buffers
<1>2. Frame(t)
  BY DEF Frame, TypeOK
<1>3. /\ Sent(t)' = Sent(t) /\ listener'[t] = "status"
      /\ current'[t] = ToBlock(t) + 1 /\ pending'[t] = {}
  BY DEF Sent, TypeOK
<1>4. Position(t)' /\ Rising(t)'
  BY <1>3 DEF TaskInv, Position, Rising
<1>5. FetchedBelow(t)'
  <2>1. StartBlock .. ToBlock(t) \subseteq fetched'[t]
    BY <1>0 DEF TaskInv, FetchedBelow, Chunk, TypeOK
  <2>2. ASSUME ToBlock(t) + 1 <= end[t]
        PROVE  ChunkStart(ToBlock(t) + 1)
    <3>1. current[t] <= end[t] /\ ToBlock(t) + 1 = current[t] + ChunkSize + 1
      BY <1>0, <2>2 DEF ToBlock, TypeOK
    <3>2. ChunkStart(current[t])
      BY <3>1 DEF TaskInv, FetchedBelow
    <3> QED
      BY <1>0, <3>1, <3>2, NextChunk
  <2> QED
    BY <1>0, <1>3, <2>1, <2>2 DEF FetchedBelow, ChunkStart
<1>6. SentBelow(t)'
  <2>1. \A b \in Sent(t) : b \in Nat /\ b <= ToBlock(t)
    BY DEF TaskInv, SentBelow, Sent, TypeOK
  <2> QED
    BY <1>0, <1>3, <2>1 DEF SentBelow
<1>7. StatusIsCovered'
  BY <1>2, StatusStays
<1> QED
  BY <1>1, <1>2, <1>4, <1>5, <1>6, <1>7, StepOf DEF TaskInv

-----------------------------------------------------------------------------
(* Steps of the handler and of the task library that receive nothing.      *)
LEMMA HandlerStep ==
  ASSUME IInv, NEW t \in Tasks,
         Deliver(t) \/ TaskTimesOut(t) \/ Return(t) \/ Handled(t)
  PROVE  IInv'
<1> USE DEF IInv, Deliver, TaskTimesOut, Return, Handled, Goto, ListenerGoto, range, queue
<1>0. /\ UNCHANGED <<status, event, channel, closed, current, end, pending, fetched>>
      /\ \/ listener' = listener
         \/ pc[t] = "new" /\ listener' = [listener EXCEPT ![t] = "latest"]
      /\ \/ pc' = pc
         \/ \E l \in {"loop", "returned"} : pc' = [pc EXCEPT ![t] = l]
      /\ ctxDone' \in {ctxDone, ctxDone \union {t}}
  OBVIOUS
<1>1. TypeOK' /\ Buffers'
  BY <1>0 DEF TypeOK, Buffers
<1>2. Frame(t)
  BY <1>0 DEF Frame, TypeOK
<1>3. Sent(t)' = Sent(t) /\ MoreChunks(t)' = MoreChunks(t)
      /\ ToBlock(t)' = ToBlock(t) /\ Chunk(t)' = Chunk(t)
  BY <1>0 DEF Sent, MoreChunks, ToBlock, Chunk
<1>4. listener'[t] = listener[t]
        \/ (listener[t] = "none" /\ listener'[t] = "latest" /\ pc'[t] # "new")
  <2>1. CASE Deliver(t)
    <3>1. pc[t] = "new" /\ pc'[t] = "loop" /\ listener'[t] = "latest"
      BY <2>1 DEF TypeOK
    <3> QED
      BY <3>1 DEF TaskInv, Position
  <2>2. CASE listener' = listener
    BY <2>2
  <2> QED
    BY <2>1, <2>2, <1>0
<1>5. Position(t)'
  BY <1>0, <1>3, <1>4 DEF Position, TaskInv, TypeOK
<1>6. FetchedBelow(t)' /\ SentBelow(t)' /\ Rising(t)'
  BY <1>0, <1>3, <1>4 DEF FetchedBelow, SentBelow, Rising, TaskInv
<1>7. StatusIsCovered'
  BY <1>0, <1>2, StatusStays
<1> QED
  BY <1>1, <1>2, <1>5, <1>6, <1>7, StepOf DEF TaskInv

(* The first log of the buffer is the one the handler is at next.          *)
LEMMA ReceiveStep == ASSUME IInv, NEW t \in Tasks, Receive(t) PROVE IInv'
<1> USE DEF IInv, Receive, Goto, range
<1>0. /\ channel[t] \in Seq(Blocks) /\ channel[t] # <<>>
      /\ channel'[t] = Tail(channel[t]) /\ event'[t] = Head(channel[t])
      /\ event'[t] = channel[t][1] /\ event'[t] \in Blocks
      /\ Len(channel[t]) \in Nat \ {0} /\ DOMAIN channel[t] = 1 .. Len(channel[t])
  BY DEF TypeOK, Buffers
<1>1. /\ channel'[t] \in Seq(Blocks) /\ Len(channel'[t]) = Len(channel[t]) - 1
      /\ DOMAIN channel'[t] = 1 .. Len(channel[t]) - 1
      /\ \A i \in 1 .. Len(channel[t]) - 1 : channel'[t][i] = channel[t][i + 1]
  <2>1. /\ Tail(channel[t]) \in Seq(Blocks) /\ Len(Tail(channel[t])) = Len(channel[t]) - 1
        /\ \A i \in 1 .. Len(Tail(channel[t])) : Tail(channel[t])[i] = channel[t][i + 1]
    BY <1>0, HeadTailProperties, Zenon
  <2>2. DOMAIN Tail(channel[t]) = 1 .. Len(Tail(channel[t]))
    BY <2>1
  <2> QED
    BY <1>0, <2>1, <2>2
<1>2. Buffers'
  BY <1>1 DEF Buffers
<1>3. TypeOK'
  <2>1. \A u \in Tasks : channel'[u] \in Seq(Blocks) /\ Len(channel'[u]) <= ChannelSize
    <3>1. \A u \in Tasks \ {t} : channel'[u] = channel[u]
      BY DEF Buffers
    <3>2. Len(channel'[t]) <= ChannelSize
      BY <1>0, <1>1 DEF TypeOK
    <3> QED
      BY <1>2, <3>1, <3>2 DEF TypeOK, Buffers
  <2>2. event' \in [Tasks -> Blocks \union {None}]
    BY <1>0 DEF TypeOK
  <2>3. pc' \in [Tasks -> {"new", "loop", "handle", "returned"}]
    BY DEF TypeOK
  <2> QED
    BY <2>1, <2>2, <2>3 DEF TypeOK
<1>4. Frame(t)
  BY DEF Frame, TypeOK, Buffers
<1>5. /\ MoreChunks(t)' = MoreChunks(t)
      /\ ToBlock(t)' = ToBlock(t) /\ Chunk(t)' = Chunk(t)
  BY DEF MoreChunks, ToBlock, Chunk
<1>6. Sent(t)' \subseteq Sent(t)
  <2>1. event'[t] \in Sent(t)
    <3>1. 1 \in DOMAIN channel[t] /\ event'[t] = channel[t][1]
      BY <1>0
    <3> QED
      BY <3>1 DEF Sent
  <2>2. ASSUME NEW i \in DOMAIN channel'[t]
        PROVE  channel'[t][i] \in Sent(t)
    <3>1. i + 1 \in DOMAIN channel[t] /\ channel'[t][i] = channel[t][i + 1]
      BY <1>0, <1>1
    <3> QED
      BY <3>1 DEF Sent
  <2> QED
    BY <2>1, <2>2 DEF Sent
<1>7. Position(t)' /\ FetchedBelow(t)'
  BY <1>5, <1>6 DEF TaskInv, Position, FetchedBelow, TypeOK
<1>8. SentBelow(t)'
  BY <1>5, <1>6 DEF TaskInv, SentBelow
<1>9. Rising(t)'
  <2> SUFFICES ASSUME NEW i \in 1 .. Len(channel[t]) - 1
               PROVE  /\ event'[t] < channel'[t][i]
                      /\ \A j \in 1 .. i - 1 : channel'[t][j] < channel'[t][i]
    BY <1>1 DEF Rising
  <2>1. i + 1 \in DOMAIN channel[t] /\ 1 \in 1 .. (i + 1) - 1
    BY <1>0
  <2>2. \A j \in 1 .. (i + 1) - 1 : channel[t][j] < channel[t][i + 1]
    BY <2>1 DEF TaskInv, Rising
  <2> QED
    BY <1>0, <1>1, <2>1, <2>2
<1>10. StatusIsCovered'
  BY <1>4, StatusStays
<1> QED
  BY <1>2, <1>3, <1>4, <1>7, <1>8, <1>9, <1>10, StepOf DEF TaskInv

LEMMA NextIInv == IInv /\ [Next]_vars => IInv'
<1> SUFFICES ASSUME IInv, [Next]_vars
             PROVE  IInv'
  OBVIOUS
<1>1. CASE UNCHANGED vars
  <2> USE <1>1 DEF vars, handlers, range, queue
  <2>1. \A t \in Tasks : TaskInv(t)'
    BY OtherTask DEF IInv
  <2>2. TypeOK' /\ Buffers' /\ StatusIsCovered'
    BY DEF IInv, TypeOK, Buffers, StatusIsCovered, Fetched
  <2> QED
    BY <2>1, <2>2 DEF IInv
<1>2. ASSUME NEW t \in Tasks, Listener(t)
      PROVE  IInv'
  BY <1>2, WaitStep, LatestStep, StatusStep, FetchStep, SendStep, ChunkStep DEF Listener
<1>3. ASSUME NEW t \in Tasks, Deliver(t) \/ TaskTimesOut(t) \/ Handler(t)
      PROVE  IInv'
  BY <1>3, HandlerStep, ReceiveStep DEF Handler
<1> QED
  BY <1>1, <1>2, <1>3 DEF Next

(* The inductive invariant of the listeners and handlers of a contract.    *)
THEOREM Invariance == Spec => []IInv
BY InitIInv, NextIInv, PTL DEF Spec

(* Listeners, handlers and buffers stay well formed: eventChan never holds *)
(* more than its capacity, and no block past the head is asked for.        *)
THEOREM TypeCorrect == Spec => []TypeOK
<1>1. IInv => TypeOK
  BY DEF IInv
<1> QED
  BY <1>1, Invariance, PTL

(* The status the endpoint reads lies at a block before which all was      *)
(* fetched by some delivery.                                               *)
THEOREM StatusCovered == Spec => []StatusIsCovered
<1>1. IInv => StatusIsCovered
  BY DEF IInv
<1> QED
  BY <1>1, Invariance, PTL

(* A backfill that cleared its status or closed its channel fetched        *)
(* everything before its head, and the head unless a chunk would begin at  *)
(* it: only then does the loop end on currentBlock = endBlock.             *)
LEMMA ClosedFetched == IInv => ClosedIsCovered
<1> SUFFICES ASSUME IInv, NEW t \in Tasks, listener[t] = "close" \/ t \in closed
             PROVE  /\ StartBlock .. end[t] - 1 \subseteq fetched[t]
                    /\ StartBlock <= end[t] /\ ~ChunkStart(end[t]) => end[t] \in fetched[t]
  BY DEF ClosedIsCovered
<1>1. ~(current[t] < end[t]) /\ current[t] \in Nat /\ end[t] \in Nat
  BY DEF IInv, TaskInv, Position, MoreChunks, TypeOK
<1>2. StartBlock .. current[t] - 1 \subseteq fetched[t]
  BY DEF IInv, TaskInv, FetchedBelow
<1>3. current[t] = end[t] => ChunkStart(end[t])
  BY <1>1 DEF IInv, TaskInv, FetchedBelow
<1> QED
  BY <1>1, <1>2, <1>3

THEOREM ClosedCovered == Spec => []ClosedIsCovered
BY ClosedFetched, Invariance, PTL

(* Logs reach the handler in the order of their blocks and once.           *)
THEOREM LogsOnce == Spec => []EachLogOnce
<1>1. IInv => EachLogOnce
  <2> SUFFICES ASSUME IInv, NEW t \in Tasks, NEW i \in DOMAIN channel[t]
               PROVE  /\ event[t] # None => event[t] < channel[t][i]
                      /\ \A j \in 1 .. i - 1 : channel[t][j] < channel[t][i]
                      /\ \A b \in pending[t] : channel[t][i] < b
    BY DEF EachLogOnce
  <2>1. channel[t][i] \in Sent(t)
    BY DEF Sent
  <2> QED
    BY <2>1 DEF IInv, TaskInv, Rising, SentBelow
<1> QED
  BY <1>1, Invariance, PTL

-----------------------------------------------------------------------------
(* The refinement.  Closing t's range is over: these are the heads up to   *)
(* which BackfillProgress calls the backfill completed.                    *)
Closing(t) == listener[t] = "close" \/ t \in closed

Completed == {end[t] : t \in {u \in Tasks : listener[u] = "close" \/ u \in closed}}

LEMMA CompletedIs ==
  /\ \A e : e \in Completed <=> \E t \in Tasks : Closing(t) /\ e = end[t]
  /\ TypeOK => Completed \in SUBSET Nat /\ Fetched \in SUBSET Nat
BY DEF Completed, Closing, Fetched, TypeOK

(* A step that changes neither the status nor the ranges that are over.    *)
LEMMA KeepsCompleted ==
  ASSUME \A t \in Tasks : Closing(t)' <=> Closing(t),
         \A t \in Tasks : Closing(t) => end'[t] = end[t]
  PROVE  Completed' = Completed
BY DEF Completed, Closing

(* A step of a listener or of a handler is a step of BackfillProgress.     *)
LEMMA StepImplementsProgress ==
  IInv /\ IInv' /\ [Next]_vars => [Abstract!Next]_(Abstract!progress)
<1> SUFFICES ASSUME IInv, IInv', [Next]_vars
             PROVE  [Abstract!Next]_(Abstract!progress)
  OBVIOUS
<1> USE DEF Abstract!Next, Abstract!progress, Completed, handlers, range, queue
<1>1. ASSUME UNCHANGED <<listener, end, closed, status, fetched>>
      PROVE  UNCHANGED Abstract!progress
  BY <1>1 DEF Fetched
<1>2. ASSUME UNCHANGED <<status, fetched, closed>>,
             NEW t \in Tasks, NEW l \in {"latest", "status", "chunk", "fetch", "send", "done", "ended"},
             listener' = [listener EXCEPT ![t] = l],
             listener[t] = "close" => t \in closed,
             \A u \in Tasks : Closing(u) => end'[u] = end[u]
      PROVE  UNCHANGED Abstract!progress
  <2>1. \A u \in Tasks : Closing(u)' <=> Closing(u)
    BY <1>2 DEF Closing, IInv, TypeOK
  <2> QED
    BY <1>2, <2>1, KeepsCompleted DEF Fetched
<1>3. CASE UNCHANGED vars
  BY <1>1, <1>3 DEF vars
<1>4. ASSUME NEW t \in Tasks, TaskTimesOut(t) \/ Handler(t)
      PROVE  UNCHANGED Abstract!progress
  BY <1>1, <1>4 DEF TaskTimesOut, Handler, Return, Receive, Handled
<1>5. ASSUME NEW t \in Tasks, LatestOK(t)
      PROVE  UNCHANGED Abstract!progress
  <2>1. \A u \in Tasks : Closing(u) => end'[u] = end[u]
    BY <1>5 DEF LatestOK, Closing, IInv, TaskInv, Position, TypeOK
  <2> QED
    BY <1>2, <1>5, <2>1 DEF LatestOK, ListenerGoto
<1>6. ASSUME NEW t \in Tasks,
             \/ Deliver(t) \/ LatestFails(t) \/ ChunkBegins(t) \/ Cancelled(t)
             \/ FetchFails(t) \/ ChunkEnds(t) \/ CloseDone(t)
      PROVE  UNCHANGED Abstract!progress
  <2>1. /\ UNCHANGED <<status, fetched, closed, end>>
        /\ \E l \in {"latest", "fetch", "status", "done", "ended"} : listener' = [listener EXCEPT ![t] = l]
    BY <1>6 DEF Deliver, LatestFails, ChunkBegins, Cancelled, FetchFails, ChunkEnds,
                CloseDone, ListenerGoto
  <2>2. listener[t] # "close"
    BY <1>6 DEF Deliver, LatestFails, ChunkBegins, Cancelled, FetchFails, ChunkEnds,
                CloseDone, IInv, TaskInv, Position
  <2> QED
    BY <1>2, <2>1, <2>2
<1>7. ASSUME NEW t \in Tasks, Send(t)
      PROVE  UNCHANGED Abstract!progress
  BY <1>1, <1>7 DEF Send
<1>8. ASSUME NEW t \in Tasks, CloseChannel(t)
      PROVE  UNCHANGED Abstract!progress
  <2>1. \A u \in Tasks : Closing(u)' <=> Closing(u)
    BY <1>8 DEF CloseChannel, ListenerGoto, Closing, IInv, TypeOK
  <2> QED
    BY <1>8, <2>1, KeepsCompleted DEF CloseChannel, Fetched
<1>9. ASSUME NEW t \in Tasks, FetchOK(t)
      PROVE  Abstract!Fetch
  <2>1. \A u \in Tasks : Closing(u)' <=> Closing(u)
    BY <1>9 DEF FetchOK, ListenerGoto, Closing, IInv, TypeOK
  <2>2. Completed' = Completed
    BY <1>9, <2>1, KeepsCompleted DEF FetchOK
  <2>3. Fetched \subseteq Fetched'
    BY <1>9 DEF FetchOK, Fetched, IInv, TypeOK
  <2>4. Fetched' \in SUBSET Nat
    BY CompletedIs DEF IInv, Fetched, TypeOK
  <2> QED
    BY <1>9, <2>2, <2>3, <2>4 DEF FetchOK, Abstract!Fetch
<1>10. ASSUME NEW t \in Tasks, UpdateStatus(t)
       PROVE  Abstract!Report
  <2>1. \A u \in Tasks : Closing(u)' <=> Closing(u)
    BY <1>10 DEF UpdateStatus, ListenerGoto, Closing, IInv, TypeOK
  <2>2. Completed' = Completed
    BY <1>10, <2>1, KeepsCompleted DEF UpdateStatus
  <2>3. Fetched' = Fetched /\ status' \in Nat
    BY <1>10 DEF UpdateStatus, Fetched, IInv, TypeOK
  <2>4. StartBlock .. status' - 1 \subseteq Fetched
    BY <1>10 DEF UpdateStatus, Fetched, IInv, TaskInv, FetchedBelow
  <2> QED
    BY <2>2, <2>3, <2>4 DEF Abstract!Report
<1>11. ASSUME NEW t \in Tasks, ClearStatus(t)
       PROVE  Abstract!Complete
  <2>1. \A u \in Tasks : Closing(u)' <=> Closing(u) \/ u = t
    BY <1>11 DEF ClearStatus, ListenerGoto, Closing, IInv, TypeOK
  <2>2. UNCHANGED <<end, fetched>> /\ status' = None
    BY <1>11 DEF ClearStatus
  <2>3. Completed' = Completed \union {end[t]}
    BY <2>1, <2>2 DEF Completed, Closing
  <2>4. StartBlock .. end[t] - 1 \subseteq Fetched
    <3>1. ~(current[t] < end[t]) /\ current[t] \in Nat /\ end[t] \in Nat
      BY <1>11 DEF ClearStatus, MoreChunks, IInv, TypeOK
    <3>2. StartBlock .. current[t] - 1 \subseteq fetched[t]
      BY DEF IInv, TaskInv, FetchedBelow
    <3> QED
      BY <3>1, <3>2 DEF Fetched
  <2>5. Completed' \in SUBSET Nat
    BY <2>3, CompletedIs DEF IInv, TypeOK
  <2> QED
    BY <2>2, <2>3, <2>4, <2>5 DEF Abstract!Complete, Fetched
<1> QED
  BY <1>3, <1>4, <1>5, <1>6, <1>7, <1>8, <1>9, <1>10, <1>11 DEF Next, Listener

(* The deliveries of a backfill task, any number of them, implement what   *)
(* BackfillProgress promises of the status.                                *)
THEOREM ProgressImplemented == Spec => ImplementsProgress
<1>1. Init => Abstract!Init
  BY DEF Init, Abstract!Init, Fetched
<1> QED
  BY <1>1, Invariance, StepImplementsProgress, PTL
     DEF Spec, ImplementsProgress, Abstract!Spec
=============================================================================
