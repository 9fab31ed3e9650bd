---------------------------- MODULE ChainMonitor ----------------------------
(***************************************************************************)
(* The polling goroutines of internal/monitor/monitor.go for the contracts *)
(* of one chain.  Each contract has its goroutine (monitorContract), but   *)
(* the block up to which the chain was processed, m.lastBlocks[chainID],   *)
(* is one for them all: every goroutine starts each poll from it and       *)
(* writes it after each batch.  Chains share nothing else than the mutex,  *)
(* so one chain is modelled.                                               *)
(*                                                                         *)
(* Fetching a range stands for FilterLogs and ProcessLogsEvent on it:      *)
(* every log of the range is then decoded, stored, counted and broadcast.  *)
(*                                                                         *)
(* Monitor.Start writes lastBlocks too, unconditionally and without the    *)
(* mutex, before it launches its own goroutines.  The worker already runs  *)
(* by then: a backfill task may have registered its contract, whose        *)
(* goroutine may have set the entry and moved it.                          *)
(***************************************************************************)
EXTENDS Naturals

CONSTANTS
  Contracts,   \* the monitored contracts of the chain
  Tasked,      \* those a backfill task may register before Start is through
  BatchSize,   \* blocks per FilterLogs call (5)
  MaxBlock     \* bound on the height of the chain

ASSUME ConstantsAssumption ==
  /\ Tasked \subseteq Contracts
  /\ BatchSize \in Nat \ {0} /\ MaxBlock \in Nat

VARIABLES
  head,        \* the latest block of the chain
  seeded,      \* whether m.lastBlocks has an entry for the chain
  lastBlocks,  \* that entry
  starter,     \* where Start is with the chain
  initial,     \* the block it was told
  pc,          \* where each goroutine is
  cur,         \* its currentBlock (latestBlock before the loop)
  from,        \* its fromBlock
  base,        \* history: the first value of lastBlocks
  overwrote,   \* history: whether Start replaced a value that was set
  passed,      \* history: the blocks between that value and its own
  seen,        \* history: the blocks each goroutine fetched
  repeated,    \* history: the goroutines that fetched a block twice
  failed,      \* history: the blocks a failed FilterLogs call asked for
  committed    \* history: the goroutines that ever wrote lastBlocks in a poll

cursor == <<seeded, lastBlocks, base, passed>>
start == <<starter, initial, overwrote>>
history == <<seen, repeated, failed, committed>>
vars == <<head, cursor, start, pc, cur, from, history>>

States == {"start", "seed", "idle", "read", "fetch", "commit", "dead", "exited"}

(* The last block of the batch a goroutine is at (toBlock).                *)
ToBlock(c) ==
  IF from[c] + BatchSize - 1 > cur[c] THEN cur[c] ELSE from[c] + BatchSize - 1

Batch(c) == from[c] .. ToBlock(c)

(* The monitors' state is well formed, the ranges asked of the node        *)
(* included: a FilterLogs call is never made with its bounds crossed       *)
(* (the loop condition fromBlock <= currentBlock).                         *)
TypeOK ==
  /\ head \in Nat /\ lastBlocks \in Nat /\ base \in Nat
  /\ seeded \in BOOLEAN
  /\ starter \in {"probe", "write", "up"} /\ initial \in Nat
  /\ overwrote \in BOOLEAN /\ passed \subseteq Nat
  /\ pc \in [Contracts -> States]
  /\ cur \in [Contracts -> Nat]
  /\ from \in [Contracts -> Nat]
  /\ seen \in [Contracts -> SUBSET Nat]
  /\ failed \in [Contracts -> SUBSET Nat]
  /\ repeated \subseteq Contracts
  /\ committed \subseteq Contracts
  /\ \A c \in Contracts : pc[c] \in {"fetch", "commit"} => from[c] <= cur[c]

-----------------------------------------------------------------------------
(* NewMonitor's empty map; Start is running and has listed the contracts   *)
(* (when that fails it launches nothing, which is in MonitorRegistry).     *)
Init ==
  /\ head = 0 /\ lastBlocks = 0 /\ base = 0
  /\ seeded = FALSE /\ passed = {}
  /\ starter = "probe" /\ initial = 0 /\ overwrote = FALSE
  /\ pc = [c \in Contracts |-> "start"]
  /\ cur = [c \in Contracts |-> 0]
  /\ from = [c \in Contracts |-> 0]
  /\ seen = [c \in Contracts |-> {}]
  /\ failed = [c \in Contracts |-> {}]
  /\ repeated = {}
  /\ committed = {}

Goto(c, label) == pc' = [pc EXCEPT ![c] = label]

(* Back to the select; currentBlock and fromBlock go out of scope.         *)
EndPoll(c) ==
  /\ Goto(c, "idle")
  /\ cur' = [cur EXCEPT ![c] = 0]
  /\ from' = [from EXCEPT ![c] = 0]

(* Start asks the chain's client for its head.                             *)
StartProbeOK ==
  /\ starter = "probe"
  /\ starter' = "write" /\ initial' = head
  /\ UNCHANGED <<head, cursor, overwrote, pc, cur, from, history>>

StartProbeFails ==
  /\ starter = "probe"
  /\ starter' = "up"
  /\ UNCHANGED <<head, cursor, initial, overwrote, pc, cur, from, history>>

(* It sets the entry, whether or not there is one.  (When this happens     *)
(* inside the section of Seed, which holds the mutex, the goroutine's      *)
(* value stays: that is as if Start's call had failed.)                    *)
StartWrites ==
  /\ starter = "write"
  /\ starter' = "up" /\ initial' = 0
  /\ seeded' = TRUE /\ lastBlocks' = initial
  /\ IF seeded
       THEN /\ overwrote' = TRUE /\ passed' = lastBlocks + 1 .. initial
            /\ UNCHANGED base
       ELSE base' = initial /\ UNCHANGED <<overwrote, passed>>
  /\ UNCHANGED <<head, pc, cur, from, history>>

(* Fault: Start launches its goroutines before it sets the entry.          *)
LaunchedFault(c) == c \in Contracts

(* Start launches its goroutines last; a task launches one at any time.    *)
Launched(c) == c \in Tasked \/ starter = "up"

(* GetLatestBlock before the loop; a failure ends the goroutine, whose     *)
(* entry in m.monitors stays.                                              *)
ProbeOK(c) ==
  /\ pc[c] = "start" /\ Launched(c)
  /\ cur' = [cur EXCEPT ![c] = head]
  /\ Goto(c, "seed")
  /\ UNCHANGED <<head, cursor, start, from, history>>

ProbeFails(c) ==
  /\ pc[c] = "start" /\ Launched(c)
  /\ Goto(c, "dead")
  /\ UNCHANGED <<head, cursor, start, cur, from, history>>

(* The critical section that sets lastBlocks unless it is set.             *)
Seed(c) ==
  /\ pc[c] = "seed"
  /\ IF seeded
       THEN UNCHANGED cursor
       ELSE /\ seeded' = TRUE /\ lastBlocks' = cur[c] /\ base' = cur[c]
            /\ UNCHANGED passed
  /\ EndPoll(c)
  /\ UNCHANGED <<head, start, history>>

(* The ticker branch of the select, up to GetLatestBlock; when that fails  *)
(* the loop continues, nothing changed.                                    *)
Poll(c) ==
  /\ pc[c] = "idle"
  /\ cur' = [cur EXCEPT ![c] = head]
  /\ Goto(c, "read")
  /\ UNCHANGED <<head, cursor, start, from, history>>

(* Fault: a single new block is not fetched.                               *)
ReadCursorFault(c) ==
  /\ pc[c] = "read"
  /\ IF cur[c] > lastBlocks + 1
       THEN /\ from' = [from EXCEPT ![c] = lastBlocks + 1]
            /\ Goto(c, "fetch")
            /\ UNCHANGED cur
       ELSE EndPoll(c)
  /\ UNCHANGED <<head, cursor, start, history>>

(* The critical section that reads lastBlocks, and the test on it.         *)
ReadCursor(c) ==
  /\ pc[c] = "read"
  /\ IF cur[c] > lastBlocks
       THEN /\ from' = [from EXCEPT ![c] = lastBlocks + 1]
            /\ Goto(c, "fetch")
            /\ UNCHANGED cur
       ELSE EndPoll(c)
  /\ UNCHANGED <<head, cursor, start, history>>

(* Fault: the next batch starts at the last block of this one.             *)
NextBatchOverlaps(c) ==
  IF from[c] + BatchSize <= cur[c]
    THEN /\ from' = [from EXCEPT ![c] = @ + BatchSize - 1]
         /\ Goto(c, "fetch")
         /\ UNCHANGED cur
    ELSE EndPoll(c)

(* fromBlock += batchSize, and the loop's condition.                       *)
NextBatch(c) ==
  IF from[c] + BatchSize <= cur[c]
    THEN /\ from' = [from EXCEPT ![c] = @ + BatchSize]
         /\ Goto(c, "fetch")
         /\ UNCHANGED cur
    ELSE EndPoll(c)

(* FilterLogs answers and the logs are processed.                          *)
FetchOK(c) ==
  /\ pc[c] = "fetch"
  /\ repeated' = IF seen[c] \intersect Batch(c) = {} THEN repeated
                 ELSE repeated \union {c}
  /\ seen' = [seen EXCEPT ![c] = @ \union Batch(c)]
  /\ Goto(c, "commit")
  /\ UNCHANGED <<head, cursor, start, cur, from, failed, committed>>

(* FilterLogs fails: the loop continues with the next batch.               *)
FetchFails(c) ==
  /\ pc[c] = "fetch"
  /\ failed' = [failed EXCEPT ![c] = @ \union Batch(c)]
  /\ NextBatch(c)
  /\ UNCHANGED <<head, cursor, start, seen, repeated, committed>>

(* Fault: the first batch already moves the cursor to currentBlock.        *)
CommitFault(c) ==
  /\ pc[c] = "commit"
  /\ lastBlocks' = cur[c]
  /\ committed' = committed \union {c}
  /\ NextBatch(c)
  /\ UNCHANGED <<head, seeded, base, passed, start, seen, repeated, failed>>

(* The critical section that advances lastBlocks after a batch.            *)
Commit(c) ==
  /\ pc[c] = "commit"
  /\ lastBlocks' = ToBlock(c)
  /\ committed' = committed \union {c}
  /\ NextBatch(c)
  /\ UNCHANGED <<head, seeded, base, passed, start, seen, repeated, failed>>

(* The other branch of the select: the context was cancelled.              *)
Exit(c) ==
  /\ pc[c] = "idle"
  /\ Goto(c, "exited")
  /\ UNCHANGED <<head, cursor, start, cur, from, history>>

(* The chain grows, up to the bound.                                       *)
NewBlock ==
  /\ head < MaxBlock
  /\ head' = head + 1
  /\ UNCHANGED <<cursor, start, pc, cur, from, history>>

Next ==
  \/ StartProbeOK \/ StartProbeFails \/ StartWrites
  \/ \E c \in Contracts :
       \/ ProbeOK(c) \/ ProbeFails(c) \/ Seed(c) \/ Poll(c) \/ ReadCursor(c)
       \/ FetchOK(c) \/ FetchFails(c) \/ Commit(c) \/ Exit(c)
  \/ NewBlock

Spec == Init /\ [][Next]_vars

(* Start and the goroutines are scheduled and their ticker ticks; a call   *)
(* to the node that is made over and over is answered now and then (strong *)
(* fairness).                                                              *)
Fairness ==
  /\ WF_vars(StartProbeOK \/ StartProbeFails) /\ WF_vars(StartWrites)
  /\ \A c \in Contracts :
       /\ WF_vars(ProbeOK(c) \/ ProbeFails(c)) /\ WF_vars(Seed(c))
       /\ SF_vars(Poll(c)) /\ WF_vars(ReadCursor(c))
       /\ SF_vars(FetchOK(c)) /\ WF_vars(Commit(c))

FairSpec == Spec /\ Fairness

-----------------------------------------------------------------------------
Gone(c) == pc[c] \in {"dead", "exited"}

(* The goroutine has been through the section that seeds the cursor.       *)
Entered(c) == pc[c] \in {"idle", "read", "fetch", "commit", "exited"}

(* Every block the shared cursor has moved over since it was seeded was    *)
(* fetched by at least one of the chain's goroutines, or the node failed a *)
(* request for it, or Start's own write passed over it: the unsynchronised *)
(* read, fetch and write of lastBlocks by several goroutines never jumps   *)
(* over a block nobody asked for.  And Start passes over blocks only when  *)
(* the goroutine of a task had entered before it was through.              *)
ChainCovered ==
  /\ \A b \in base + 1 .. lastBlocks :
       b \in passed \/ \E c \in Contracts : b \in seen[c] \union failed[c]
  /\ passed # {} => \E c \in Tasked : Entered(c)

(* A goroutine that is alone in writing the cursor, Start having replaced  *)
(* none of its values either, fetches each block behind it, save those the *)
(* node failed, and none twice: batches neither overlap nor leave gaps,    *)
(* across polls and failed calls.                                          *)
AloneExactlyOnce ==
  \A c \in Contracts :
    committed \subseteq {c} /\ ~overwrote =>
      /\ \A b \in base + 1 .. lastBlocks : b \in seen[c] \union failed[c]
      /\ c \notin repeated

(* Start and the goroutines together keep the promise about the cursor,    *)
(* whatever the values they read and write have become meanwhile.          *)
Abstract == INSTANCE Cursor WITH
  starting <- starter # "up",
  asked <- UNION {seen[c] \union failed[c] : c \in Contracts}

ImplementsCursor == Abstract!Spec

(* The cursor reaches the head of the chain again and again, unless every  *)
(* goroutine of the chain has ended: failed calls, a goroutine that sets   *)
(* the cursor back and Start's late write delay the monitor, they do not   *)
(* block it.                                                               *)
CatchesUp ==
  []<>(\/ seeded /\ lastBlocks >= head
       \/ \A c \in Contracts : Gone(c))

(* The start message of the monitor: "Each contract will be monitored      *)
(* independently."  So every block after the first cursor is eventually    *)
(* fetched, or its fetch fails, for every contract whose goroutine lives.  *)
(* It fails: another contract of the chain moves the shared cursor over    *)
(* blocks that this one then never asks for.                               *)
MonitoredIndependently ==
  \A c \in Contracts, b \in 1 .. MaxBlock :
    (seeded /\ base < b /\ b <= head)
      ~> (b \in seen[c] \union failed[c] \/ Gone(c))
=============================================================================
