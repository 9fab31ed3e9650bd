------------------------------ MODULE Backfill ------------------------------
(***************************************************************************)
(* The backfill of one contract: the handler of a backfill task            *)
(* (handleBackfill of internal/worker/worker.go, from the point where it   *)
(* starts the listener) and the listener goroutine (Start and backfill of  *)
(* internal/listener/listener.go), joined by the bounded eventChan, the    *)
(* channel done and the task's context.  Tasks of the same contract, which *)
(* the task library may deliver more than once, share the backfill status  *)
(* that GetContractStatus reports.                                         *)
(*                                                                         *)
(* A log is named by its block.  Who marks the contract in the monitor is  *)
(* in MonitorRegistry; what becomes of a log in the database is left out,  *)
(* in FilterLogs as in the handler.                                        *)
(***************************************************************************)
EXTENDS Naturals, Sequences

CONSTANTS
  Tasks,        \* deliveries of the contract's backfill task
  StartBlock,   \* the first block to backfill
  ChunkSize,    \* blocks from one FilterLogs call to the next, less one (2000)
  ChannelSize,  \* capacity of eventChan (100)
  LogBlocks,    \* the blocks that hold a log of the contract
  MaxBlock,     \* bound on the height of the chain
  None          \* no backfill status

ASSUME ConstantsAssumption ==
  /\ StartBlock \in Nat /\ MaxBlock \in Nat
  /\ ChunkSize \in Nat \ {0} /\ ChannelSize \in Nat \ {0}
  /\ LogBlocks \subseteq Nat
  /\ None \notin Nat

VARIABLES
  status,     \* the entry of the contract in backfillCache
  pc,         \* where each handler is
  event,      \* the log it received last
  ctxDone,    \* the tasks whose context is done
  listener,   \* where each listener is
  current,    \* its currentBlock
  end,        \* its endBlock
  pending,    \* the logs it is still to send of those it fetched
  channel,    \* the buffer of each eventChan
  closed,     \* the tasks whose eventChan is closed
  fetched     \* history: the blocks FilterLogs was asked for by each task

range == <<current, end>>
handlers == <<pc, event, ctxDone>>
queue == <<channel, closed>>
vars == <<status, handlers, listener, range, pending, queue, fetched>>

Blocks == 0 .. MaxBlock

(* The listeners', handlers' and channels' state is well formed; the       *)
(* buffer never holds more than its capacity.                              *)
TypeOK ==
  /\ status \in Nat \union {None}
  /\ pc \in [Tasks -> {"new", "loop", "handle", "returned"}]
  /\ event \in [Tasks -> Blocks \union {None}]
  /\ ctxDone \subseteq Tasks
  /\ listener \in [Tasks -> {"none", "latest", "status", "chunk", "fetch",
                              "send", "close", "done", "ended"}]
  /\ current \in [Tasks -> Nat]
  /\ end \in [Tasks -> Blocks]
  /\ pending \in [Tasks -> SUBSET Blocks]
  /\ \A t \in Tasks : channel[t] \in Seq(Blocks) /\ Len(channel[t]) <= ChannelSize
  /\ closed \subseteq Tasks
  /\ fetched \in [Tasks -> SUBSET Blocks]

-----------------------------------------------------------------------------
Init ==
  /\ status = None
  /\ pc = [t \in Tasks |-> "new"]
  /\ event = [t \in Tasks |-> None]
  /\ ctxDone = {}
  /\ listener = [t \in Tasks |-> "none"]
  /\ current = [t \in Tasks |-> StartBlock]
  /\ end = [t \in Tasks |-> 0]
  /\ pending = [t \in Tasks |-> {}]
  /\ channel = [t \in Tasks |-> <<>>]
  /\ closed = {}
  /\ fetched = [t \in Tasks |-> {}]

Goto(t, label) == pc' = [pc EXCEPT ![t] = label]
ListenerGoto(t, label) == listener' = [listener EXCEPT ![t] = label]

(* A task reaches the point where the handler starts the listener.         *)
Deliver(t) ==
  /\ pc[t] = "new"
  /\ Goto(t, "loop")
  /\ ListenerGoto(t, "latest")
  /\ UNCHANGED <<status, event, ctxDone, range, pending, queue, fetched>>

(* The task's time limit expires; the library cancels its context.         *)
TaskTimesOut(t) ==
  /\ pc[t] \notin {"new", "returned"} /\ t \notin ctxDone
  /\ ctxDone' = ctxDone \union {t}
  /\ UNCHANGED <<status, pc, event, listener, range, pending, queue, fetched>>

-----------------------------------------------------------------------------
(* The listener.  An error makes Start return without closing eventChan.   *)
(* The latest block is any: the chain grows, and nodes may lag behind.     *)
LatestOK(t) ==
  /\ listener[t] = "latest"
  /\ current' = [current EXCEPT ![t] = StartBlock]
  /\ \E latest \in Blocks : end' = [end EXCEPT ![t] = latest]
  /\ ListenerGoto(t, "status")
  /\ UNCHANGED <<status, handlers, pending, queue, fetched>>

LatestFails(t) ==
  /\ listener[t] = "latest"
  /\ ListenerGoto(t, "done")
  /\ UNCHANGED <<status, handlers, range, pending, queue, fetched>>

(* updateBackfillStatus, before the loop and at the end of each chunk.     *)
UpdateStatus(t) ==
  /\ listener[t] = "status"
  /\ status' = current[t]
  /\ ListenerGoto(t, "chunk")
  /\ UNCHANGED <<handlers, range, pending, queue, fetched>>

MoreChunks(t) == current[t] < end[t]

(* toBlock: one chunk further, at most endBlock.                           *)
ToBlock(t) ==
  IF current[t] + ChunkSize > end[t] THEN end[t] ELSE current[t] + ChunkSize

Chunk(t) == current[t] .. ToBlock(t)

ChunkBegins(t) ==
  /\ listener[t] = "chunk" /\ MoreChunks(t) /\ t \notin ctxDone
  /\ ListenerGoto(t, "fetch")
  /\ UNCHANGED <<status, handlers, range, pending, queue, fetched>>

(* Fault: the logs are sent without a select on the context.               *)
CancelledFault(t) ==
  /\ listener[t] = "chunk" /\ MoreChunks(t)
  /\ t \in ctxDone
  /\ pending' = [pending EXCEPT ![t] = {}]
  /\ ListenerGoto(t, "done")
  /\ UNCHANGED <<status, handlers, range, queue, fetched>>

(* ctx.Done in either select of the listener.                              *)
Cancelled(t) ==
  /\ \/ listener[t] = "chunk" /\ MoreChunks(t)
     \/ listener[t] = "send" /\ pending[t] # {}
  /\ t \in ctxDone
  /\ pending' = [pending EXCEPT ![t] = {}]
  /\ ListenerGoto(t, "done")
  /\ UNCHANGED <<status, handlers, range, queue, fetched>>

(* FilterLogs returns the logs of the range.                               *)
FetchOK(t) ==
  /\ listener[t] = "fetch"
  /\ fetched' = [fetched EXCEPT ![t] = @ \union Chunk(t)]
  /\ pending' = [pending EXCEPT ![t] = LogBlocks \intersect Chunk(t)]
  /\ ListenerGoto(t, "send")
  /\ UNCHANGED <<status, handlers, range, queue>>

(* Fault: after an error the listener goes on with the next chunk.         *)
FetchFailsFault(t) ==
  /\ listener[t] = "fetch"
  /\ ListenerGoto(t, "send")
  /\ UNCHANGED <<status, handlers, range, pending, queue, fetched>>

FetchFails(t) ==
  /\ listener[t] = "fetch"
  /\ ListenerGoto(t, "done")
  /\ UNCHANGED <<status, handlers, range, pending, queue, fetched>>

Send(t) ==
  /\ listener[t] = "send"
  /\ Len(channel[t]) < ChannelSize
  /\ \E b \in pending[t] :
       /\ \A other \in pending[t] : b <= other
       /\ pending' = [pending EXCEPT ![t] = @ \ {b}]
       /\ channel' = [channel EXCEPT ![t] = Append(@, b)]
  /\ UNCHANGED <<status, handlers, listener, range, closed, fetched>>

(* Fault: the next chunk starts at the last block of this one.             *)
ChunkEndsOverlaps(t) ==
  /\ listener[t] = "send" /\ pending[t] = {}
  /\ current' = [current EXCEPT ![t] = ToBlock(t)]
  /\ ListenerGoto(t, "status")
  /\ UNCHANGED <<status, handlers, end, pending, queue, fetched>>

(* Fault: the next chunk leaves a block out.                               *)
ChunkEndsSkips(t) ==
  /\ listener[t] = "send" /\ pending[t] = {}
  /\ current' = [current EXCEPT ![t] = ToBlock(t) + 2]
  /\ ListenerGoto(t, "status")
  /\ UNCHANGED <<status, handlers, end, pending, queue, fetched>>

(* All logs of the chunk are sent: currentBlock moves past toBlock.        *)
ChunkEnds(t) ==
  /\ listener[t] = "send" /\ pending[t] = {}
  /\ current' = [current EXCEPT ![t] = ToBlock(t) + 1]
  /\ ListenerGoto(t, "status")
  /\ UNCHANGED <<status, handlers, end, pending, queue, fetched>>

(* No chunk is left: clearBackfillStatus.                                  *)
ClearStatus(t) ==
  /\ listener[t] = "chunk" /\ ~MoreChunks(t)
  /\ status' = None
  /\ ListenerGoto(t, "close")
  /\ UNCHANGED <<handlers, range, pending, queue, fetched>>

CloseChannel(t) ==
  /\ listener[t] = "close"
  /\ closed' = closed \union {t}
  /\ ListenerGoto(t, "done")
  /\ UNCHANGED <<status, handlers, range, pending, channel, fetched>>

CloseDone(t) ==
  /\ listener[t] = "done"
  /\ ListenerGoto(t, "ended")
  /\ UNCHANGED <<status, handlers, range, pending, queue, fetched>>

-----------------------------------------------------------------------------
(* The handler's select.  It returns on each of three conditions, whatever *)
(* the buffer holds; the library then cancels the task's context.          *)
Stops(t) ==
  \/ t \in ctxDone
  \/ listener[t] = "ended"
  \/ t \in closed /\ channel[t] = <<>>

Return(t) ==
  /\ pc[t] = "loop" /\ Stops(t)
  /\ Goto(t, "returned")
  /\ ctxDone' = ctxDone \union {t}
  /\ UNCHANGED <<status, event, listener, range, pending, queue, fetched>>

Receive(t) ==
  /\ pc[t] = "loop" /\ channel[t] # <<>>
  /\ event' = [event EXCEPT ![t] = Head(channel[t])]
  /\ channel' = [channel EXCEPT ![t] = Tail(@)]
  /\ Goto(t, "handle")
  /\ UNCHANGED <<status, ctxDone, listener, range, pending, closed, fetched>>

(* The log is decoded, looked up and stored unless it is found.            *)
Handled(t) ==
  /\ pc[t] = "handle"
  /\ Goto(t, "loop")
  /\ UNCHANGED <<status, event, ctxDone, listener, range, pending, queue, fetched>>

Listener(t) ==
  \/ LatestOK(t) \/ LatestFails(t) \/ UpdateStatus(t) \/ ChunkBegins(t)
  \/ Cancelled(t) \/ FetchOK(t) \/ FetchFails(t) \/ Send(t) \/ ChunkEnds(t)
  \/ ClearStatus(t) \/ CloseChannel(t) \/ CloseDone(t)

Handler(t) ==
  Return(t) \/ Receive(t) \/ Handled(t)

Next ==
  \E t \in Tasks : Deliver(t) \/ TaskTimesOut(t) \/ Listener(t) \/ Handler(t)

Spec == Init /\ [][Next]_vars

(* Both goroutines are scheduled, calls to the node and the database       *)
(* return, and a select does not pass over a ready case for ever.          *)
Fairness ==
  \A t \in Tasks : WF_vars(Listener(t)) /\ WF_vars(Handler(t)) /\ SF_vars(Return(t))

FairSpec == Spec /\ Fairness

-----------------------------------------------------------------------------
Fetched == UNION {fetched[t] : t \in Tasks}

(* The block GetContractStatus reports for a backfill under way: every     *)
(* block before it was fetched by some delivery of the task, however the   *)
(* deliveries overlap, fail or are cut off.                                *)
StatusIsCovered ==
  status # None => \A b \in StartBlock .. status - 1 : b \in Fetched

(* The deliveries of the task together keep the promise about the status:  *)
(* it moves only over what was fetched, and it is cleared only by a        *)
(* listener that fetched everything before its head.                       *)
Abstract == INSTANCE BackfillProgress WITH
  fetched <- Fetched,
  completed <- {end[t] : t \in {u \in Tasks : listener[u] = "close" \/ u \in closed}}

ImplementsProgress == Abstract!Spec

(* A chunk begins at the block, if the range reaches it.                   *)
ChunkStart(b) == \E n \in 0 .. b : b = StartBlock + n * (ChunkSize + 1)

(* eventChan is closed, and the status cleared, only by a listener that    *)
(* fetched every block before the chain's head it had asked for itself:    *)
(* an error or a cancelled context never looks like a completed backfill.  *)
(* The head is fetched too, unless a chunk would begin just there: the     *)
(* strict test of the loop then leaves it out.                             *)
ClosedIsCovered ==
  \A t \in Tasks :
    listener[t] = "close" \/ t \in closed =>
      /\ \A b \in StartBlock .. end[t] - 1 : b \in fetched[t]
      /\ StartBlock <= end[t] /\ ~ChunkStart(end[t]) => end[t] \in fetched[t]

(* The handler is sent the logs of a task in the order of their blocks and *)
(* none twice: chunks do not overlap, and what is buffered lies between    *)
(* what was handled and what the listener is still to send.                *)
EachLogOnce ==
  \A t \in Tasks : \A i \in DOMAIN channel[t] :
    /\ event[t] # None => event[t] < channel[t][i]
    /\ \A j \in 1 .. i - 1 : channel[t][j] < channel[t][i]
    /\ \A b \in pending[t] : channel[t][i] < b

(* Both goroutines of a delivered task end, with the channel full, the     *)
(* handler gone or the task timed out: no listener stays blocked for ever  *)
(* on a channel nobody reads.                                              *)
BothEnd ==
  \A t \in Tasks :
    (pc[t] # "new") ~> (pc[t] = "returned" /\ listener[t] = "ended")
=============================================================================
