------------------------------- MODULE Ingest -------------------------------
(***************************************************************************)
(* What becomes of the logs of one contract: FilterLogs of                 *)
(* pkg/ethereum/client.go, run by the contract's monitor goroutines and by *)
(* the listeners of its backfill tasks, hands each log to the event        *)
(* producer (pkg/eventproducer) and stores it; the handler of a task       *)
(* (handleBackfill) stores what its listener returned once more if it does *)
(* not find it.  The producer's goroutine publishes to Redis.  All of it   *)
(* ends with the process, in the order of cmd/serve.go or by a crash, and  *)
(* the database is what the next process finds.                            *)
(*                                                                         *)
(* Which ranges are asked for is in ChainMonitor and Backfill: here a call *)
(* returns any logs.  A call to the database, the node or Redis, and an    *)
(* operation on a channel, is one step.                                    *)
(***************************************************************************)
EXTENDS Naturals, Sequences, FiniteSets

CONSTANTS
  Monitors,      \* monitor goroutines of the contract
  Listeners,     \* backfill tasks, each with its listener and its handler
  Logs,          \* the contract's logs, in the order of the chain
  LogsPerBlock,  \* logs of a block: log l is in block l \div LogsPerBlock
  Capacity,      \* capacity of the producer's channel (100)
  MaxCalls,      \* bound on the FilterLogs calls
  MaxBoots,      \* bound on the starts of the process
  MaxFaults,     \* bound on failed calls, save HandlerFails, and crashes
  None           \* no event in the hand of the producer's goroutine

Callers == Monitors \union Listeners

ASSUME ConstantsAssumption ==
  /\ Logs \subseteq Nat /\ IsFiniteSet(Logs)
  /\ LogsPerBlock \in Nat \ {0} /\ Capacity \in Nat \ {0}
  /\ MaxCalls \in Nat /\ MaxBoots \in Nat \ {0} /\ MaxFaults \in Nat

ASSUME NoneAssumption == None \notin Logs

VARIABLES
  rows,       \* the number of rows of each log in the event table
  main,       \* where RunServe is
  faults,     \* failed calls and crashes so far
  boots,      \* starts of the process so far
  calls,      \* FilterLogs calls so far
  pc,         \* where each FilterLogs call is
  todo,       \* the logs it has still to process
  answer,     \* the logs it will return
  timestamps, \* its timestampCache: blocks
  offered,    \* logs a listener returned and its handler did not receive
  hpc,        \* where each handler is
  event,      \* the log it received
  buffer,     \* the producer's channel
  hand,       \* the event its goroutine is publishing
  sent,       \* history: the events published to Redis
  handed,     \* history: how often each log was handed to the producer
  lost,       \* history: logs handed over that Redis refused or a stop lost
  raced,      \* history: logs two goroutines were at, or whose lookup failed
  redone,     \* history: logs handed over whose creation failed or was cut off
  givenUp     \* history: logs a FilterLogs call gave up before it handed them over

process == <<main, boots>>
callers == <<pc, todo, answer, timestamps, calls>>
handlers == <<offered, hpc, event>>
producer == <<buffer, hand, sent, lost>>
history == <<handed, raced, redone, givenUp>>
vars == <<rows, faults, process, callers, handlers, producer, history>>

(* The state of the goroutines is well formed, and the channel never holds *)
(* more than its capacity.                                                 *)
TypeOK ==
  /\ rows \in [Logs -> Nat] /\ handed \in [Logs -> Nat]
  /\ main \in {"run", "closed", "stopped", "down"}
  /\ faults \in 0 .. MaxFaults
  /\ boots \in 1 .. MaxBoots /\ calls \in 0 .. MaxCalls
  /\ pc \in [Callers -> {"idle", "check", "block", "publish", "create"}]
  /\ todo \in [Callers -> SUBSET Logs] /\ answer \in [Callers -> SUBSET Logs]
  /\ \A c \in Callers : pc[c] # "idle" => todo[c] # {}
  /\ timestamps \in [Callers -> SUBSET Nat]
  /\ offered \in [Listeners -> SUBSET Logs]
  /\ hpc \in [Listeners -> {"loop", "check", "create"}]
  /\ event \in [Listeners -> Logs \union {None}]
  /\ \A t \in Listeners : hpc[t] # "loop" => event[t] # None
  /\ buffer \in Seq(Logs) /\ Len(buffer) <= Capacity
  /\ hand \in Logs \union {None}
  /\ sent \in Seq(Logs)
  /\ \A s \in {lost, raced, redone, givenUp} : s \subseteq Logs

-----------------------------------------------------------------------------
(* A process that has just started: everything in memory is empty.         *)
Fresh ==
  /\ main' = "run"
  /\ pc' = [c \in Callers |-> "idle"]
  /\ todo' = [c \in Callers |-> {}] /\ answer' = [c \in Callers |-> {}]
  /\ timestamps' = [c \in Callers |-> {}]
  /\ offered' = [t \in Listeners |-> {}]
  /\ hpc' = [t \in Listeners |-> "loop"] /\ event' = [t \in Listeners |-> None]

Init ==
  /\ rows = [l \in Logs |-> 0] /\ handed = [l \in Logs |-> 0]
  /\ faults = 0 /\ main = "run" /\ boots = 1 /\ calls = 0
  /\ pc = [c \in Callers |-> "idle"]
  /\ todo = [c \in Callers |-> {}] /\ answer = [c \in Callers |-> {}]
  /\ timestamps = [c \in Callers |-> {}]
  /\ offered = [t \in Listeners |-> {}]
  /\ hpc = [t \in Listeners |-> "loop"] /\ event = [t \in Listeners |-> None]
  /\ buffer = <<>> /\ hand = None /\ sent = <<>>
  /\ lost = {} /\ raced = {} /\ redone = {} /\ givenUp = {}

Up == main # "down"

(* A call to the database, the node or Redis fails, or the process is      *)
(* killed.                                                                 *)
Fault == faults < MaxFaults /\ faults' = faults + 1

First(S) == CHOOSE l \in S : \A other \in S : l <= other
Log(c) == First(todo[c])
Block(l) == l \div LogsPerBlock
Goto(c, label) == pc' = [pc EXCEPT ![c] = label]

(* The goroutines between the lookup of log l and the end of its creation. *)
Busy(l) ==
  \/ \E c \in Callers : pc[c] \in {"block", "publish", "create"} /\ Log(c) = l
  \/ \E t \in Listeners : hpc[t] = "create" /\ event[t] = l

-----------------------------------------------------------------------------
(* FilterLogs asks the node and gets some logs; a call that gets none or   *)
(* fails has no effect.                                                    *)
FilterLogs(c) ==
  /\ Up /\ pc[c] = "idle" /\ calls < MaxCalls
  /\ calls' = calls + 1
  /\ \E S \in (SUBSET Logs) \ {{}} :
       /\ todo' = [todo EXCEPT ![c] = S]
       /\ answer' = [answer EXCEPT ![c] = S]
  /\ timestamps' = [timestamps EXCEPT ![c] = {}]
  /\ Goto(c, "check")
  /\ UNCHANGED <<rows, faults, process, handlers, producer, history>>

(* On with the next log; after the last, FilterLogs returns all of them,   *)
(* the ones it gave up included.                                           *)
NextLog(c) ==
  /\ todo' = [todo EXCEPT ![c] = @ \ {Log(c)}]
  /\ IF todo[c] = {Log(c)}
       THEN /\ Goto(c, "idle")
            /\ answer' = [answer EXCEPT ![c] = {}]
            /\ timestamps' = [timestamps EXCEPT ![c] = {}]
            /\ offered' = [t \in Listeners |->
                 IF t = c THEN offered[t] \union answer[c] ELSE offered[t]]
       ELSE Goto(c, "check") /\ UNCHANGED <<answer, timestamps, offered>>
  /\ UNCHANGED <<hpc, event, calls>>

(* The contract of the log is not found: an error of the database.         *)
FindContractFails(c) ==
  /\ Up /\ pc[c] = "check"
  /\ Fault
  /\ givenUp' = givenUp \union {Log(c)}
  /\ NextLog(c)
  /\ UNCHANGED <<rows, process, producer, handed, raced, redone>>

(* The lookup finds the log.                                               *)
Exists(c) ==
  /\ Up /\ pc[c] = "check" /\ rows[Log(c)] > 0
  /\ NextLog(c)
  /\ UNCHANGED <<rows, faults, process, producer, history>>

(* The lookup does not find the log, or fails, which counts as not found.  *)
NotFound(c) ==
  /\ Up /\ pc[c] = "check"
  /\ IF rows[Log(c)] > 0 THEN Fault ELSE UNCHANGED faults
  /\ Goto(c, IF Block(Log(c)) \in timestamps[c] THEN "publish" ELSE "block")
  /\ raced' = IF Busy(Log(c)) \/ rows[Log(c)] > 0 THEN raced \union {Log(c)} ELSE raced
  /\ UNCHANGED <<rows, process, todo, answer, timestamps, calls, handlers,
                 producer, handed, redone, givenUp>>

(* The block's timestamp is fetched, once per block and call.              *)
BlockByNumber(c) ==
  /\ Up /\ pc[c] = "block"
  /\ timestamps' = [timestamps EXCEPT ![c] = @ \union {Block(Log(c))}]
  /\ Goto(c, "publish")
  /\ UNCHANGED <<rows, faults, process, todo, answer, calls, handlers,
                 producer, history>>

BlockFails(c) ==
  /\ Up /\ pc[c] = "block"
  /\ Fault
  /\ givenUp' = givenUp \union {Log(c)}
  /\ NextLog(c)
  /\ UNCHANGED <<rows, process, producer, handed, raced, redone>>

(* Fault: Publish drops the event when the channel is full.                *)
PublishDrops(c) ==
  /\ main = "run" /\ pc[c] = "publish"
  /\ IF Len(buffer) < Capacity
       THEN /\ buffer' = Append(buffer, Log(c))
            /\ handed' = [handed EXCEPT ![Log(c)] = @ + 1]
       ELSE UNCHANGED <<buffer, handed>>
  /\ Goto(c, "create")
  /\ UNCHANGED <<rows, faults, process, todo, answer, timestamps, calls,
                 handlers, hand, sent, lost, raced, redone, givenUp>>

(* Fault: the channel has room for one event more than its capacity.       *)
PublishBeyond(c) ==
  /\ main = "run" /\ pc[c] = "publish"
  /\ Len(buffer) <= Capacity
  /\ buffer' = Append(buffer, Log(c))
  /\ handed' = [handed EXCEPT ![Log(c)] = @ + 1]
  /\ Goto(c, "create")
  /\ UNCHANGED <<rows, faults, process, todo, answer, timestamps, calls,
                 handlers, hand, sent, lost, raced, redone, givenUp>>

(* Publish: blocks while the channel is full.  Every log gets here:        *)
(* decoding never fails, what the decoder does not know goes out raw.      *)
Publish(c) ==
  /\ main = "run" /\ pc[c] = "publish"
  /\ Len(buffer) < Capacity
  /\ buffer' = Append(buffer, Log(c))
  /\ handed' = [handed EXCEPT ![Log(c)] = @ + 1]
  /\ Goto(c, "create")
  /\ UNCHANGED <<rows, faults, process, todo, answer, timestamps, calls,
                 handlers, hand, sent, lost, raced, redone, givenUp>>

Create(c) ==
  /\ Up /\ pc[c] = "create"
  /\ rows' = [rows EXCEPT ![Log(c)] = @ + 1]
  /\ NextLog(c)
  /\ UNCHANGED <<faults, process, producer, history>>

(* A failed creation may have reached the database.                        *)
MaybeStored(l) == \E n \in {0, 1} : rows' = [rows EXCEPT ![l] = @ + n]

CreateFails(c) ==
  /\ Up /\ pc[c] = "create"
  /\ Fault
  /\ MaybeStored(Log(c))
  /\ redone' = redone \union {Log(c)}
  /\ NextLog(c)
  /\ UNCHANGED <<process, producer, handed, raced, givenUp>>

-----------------------------------------------------------------------------
(* The handler of a backfill task: each log its listener sends is looked   *)
(* up and created unless it is found; nothing is handed to the producer.   *)
Receive(t) ==
  /\ Up /\ hpc[t] = "loop" /\ offered[t] # {}
  /\ event' = [event EXCEPT ![t] = First(offered[t])]
  /\ offered' = [offered EXCEPT ![t] = @ \ {First(@)}]
  /\ hpc' = [hpc EXCEPT ![t] = "check"]
  /\ UNCHANGED <<rows, faults, process, callers, producer, history>>

Continue(t) ==
  /\ hpc' = [hpc EXCEPT ![t] = "loop"]
  /\ event' = [event EXCEPT ![t] = None]
  /\ UNCHANGED offered

HandlerFinds(t) ==
  /\ Up /\ hpc[t] = "check" /\ rows[event[t]] > 0
  /\ Continue(t)
  /\ UNCHANGED <<rows, faults, process, callers, producer, history>>

(* Fault: the handler stores what it receives without looking it up.       *)
HandlerForgets(t) ==
  /\ Up /\ hpc[t] = "check"
  /\ hpc' = [hpc EXCEPT ![t] = "create"]
  /\ raced' = IF Busy(event[t]) THEN raced \union {event[t]} ELSE raced
  /\ UNCHANGED <<rows, faults, process, callers, offered, event, producer, handed,
                 redone, givenUp>>

HandlerMisses(t) ==
  /\ Up /\ hpc[t] = "check"
  /\ IF rows[event[t]] > 0 THEN Fault ELSE UNCHANGED faults
  /\ hpc' = [hpc EXCEPT ![t] = "create"]
  /\ raced' = IF Busy(event[t]) \/ rows[event[t]] > 0 THEN raced \union {event[t]} ELSE raced
  /\ UNCHANGED <<rows, process, callers, offered, event, producer, handed,
                 redone, givenUp>>

HandlerCreates(t) ==
  /\ Up /\ hpc[t] = "create"
  /\ rows' = [rows EXCEPT ![event[t]] = @ + 1]
  /\ Continue(t)
  /\ UNCHANGED <<faults, process, callers, producer, history>>

(* The creation fails, as it does for every log once the task timed out.   *)
(* MaxFaults need not bound it: a received log is tried once.              *)
HandlerFails(t) ==
  /\ Up /\ hpc[t] = "create"
  /\ MaybeStored(event[t])
  /\ Continue(t)
  /\ UNCHANGED <<faults, process, callers, producer, history>>

-----------------------------------------------------------------------------
(* Fault: the goroutine ends after the first event.                        *)
TakeOneEvent ==
  /\ Up /\ hand = None /\ buffer # <<>> /\ sent = <<>> /\ lost = {}
  /\ hand' = Head(buffer)
  /\ buffer' = Tail(buffer)
  /\ UNCHANGED <<rows, faults, process, callers, handlers, sent, lost, history>>

(* The producer's goroutine: takes an event from the channel, also from a  *)
(* closed one until it is empty, and publishes it.  An error is logged.    *)
TakeEvent ==
  /\ Up /\ hand = None /\ buffer # <<>>
  /\ hand' = Head(buffer)
  /\ buffer' = Tail(buffer)
  /\ UNCHANGED <<rows, faults, process, callers, handlers, sent, lost, history>>

(* Fault: an event that was published is published again.                  *)
DeliverAgain ==
  /\ Up /\ hand # None
  /\ sent' = Append(sent, hand)
  /\ hand' \in {None, hand}
  /\ UNCHANGED <<rows, faults, process, callers, handlers, buffer, lost, history>>

Deliver ==
  /\ Up /\ hand # None
  /\ sent' = Append(sent, hand)
  /\ hand' = None
  /\ UNCHANGED <<rows, faults, process, callers, handlers, buffer, lost, history>>

Refuse ==
  /\ Up /\ hand # None
  /\ Fault
  /\ lost' = lost \union {hand}
  /\ hand' = None
  /\ UNCHANGED <<rows, process, callers, handlers, buffer, sent, history>>

-----------------------------------------------------------------------------
(* RunServe after the signal: eventListener.Stop, then server.Stop, then   *)
(* it returns and the process ends.  The task library traps the signal     *)
(* itself: tasks may run to the end.                                       *)
StopProducer ==
  /\ main = "run"
  /\ main' = "closed"
  /\ UNCHANGED <<rows, faults, boots, callers, handlers, producer, history>>

StopServer ==
  /\ main = "closed"
  /\ main' = "stopped"
  /\ UNCHANGED <<rows, faults, boots, callers, handlers, producer, history>>

Waiting == IF hand = None THEN buffer ELSE <<hand>> \o buffer

(* Whatever ends the process: RunServe returns, a Publish panics on the    *)
(* closed channel, or it is killed.                                        *)
Ends ==
  /\ main' = "down"
  /\ lost' = lost \union {Waiting[i] : i \in DOMAIN Waiting}
  /\ redone' = redone \union {Log(c) : c \in {d \in Callers : pc[d] = "create"}}
  /\ buffer' = <<>> /\ hand' = None
  /\ UNCHANGED <<rows, boots, callers, handlers, sent, handed, raced, givenUp>>

Exit == main = "stopped" /\ Ends /\ UNCHANGED faults

PublishPanics(c) ==
  main \in {"closed", "stopped"} /\ pc[c] = "publish" /\ Ends /\ UNCHANGED faults

Crash == main = "run" /\ Fault /\ Ends

Restart ==
  /\ main = "down" /\ boots < MaxBoots
  /\ boots' = boots + 1
  /\ Fresh /\ UNCHANGED calls
  /\ UNCHANGED <<rows, faults, producer, history>>

-----------------------------------------------------------------------------
Call(c) ==
  \/ FindContractFails(c) \/ Exists(c) \/ NotFound(c)
  \/ BlockByNumber(c) \/ BlockFails(c) \/ Publish(c) \/ PublishPanics(c)
  \/ Create(c) \/ CreateFails(c)

Handler(t) ==
  \/ Receive(t) \/ HandlerFinds(t) \/ HandlerMisses(t) \/ HandlerCreates(t)
  \/ HandlerFails(t)

Producer == TakeEvent \/ Deliver \/ Refuse

Main == StopProducer \/ StopServer \/ Exit \/ Crash \/ Restart

Next ==
  \/ \E c \in Callers : FilterLogs(c) \/ Call(c)
  \/ \E t \in Listeners : Handler(t)
  \/ Producer \/ Main

Spec == Init /\ [][Next]_vars

(* Goroutines are scheduled and calls return; senders blocked on a channel *)
(* are served in the order of their arrival, none for ever passed over.    *)
Fairness ==
  /\ WF_vars(Producer)
  /\ \A c \in Callers : WF_vars(Call(c)) /\ SF_vars(Publish(c))
  /\ \A t \in Listeners : WF_vars(Handler(t))
  /\ WF_vars(StopServer) /\ WF_vars(Exit)

FairSpec == Spec /\ Fairness

-----------------------------------------------------------------------------
(* A stored log went to Redis or is on its way, unless Redis refused it or *)
(* the process ended with it in memory, or a handler stored it, whose      *)
(* listener had given it up: nothing else can make an event that the table *)
(* holds, and that no later call hands over again, miss its subscribers.   *)
StoredIsAccounted ==
  \A l \in Logs : rows[l] > 0 =>
    \/ \E i \in DOMAIN sent : sent[i] = l
    \/ \E i \in DOMAIN Waiting : Waiting[i] = l
    \/ l \in lost
    \/ l \in givenUp

(* The event table has no unique key on a log and the check and the        *)
(* creation are separate calls: still a log is stored once and handed over *)
(* once, across calls, handlers and restarts, unless two goroutines were   *)
(* at it at the same time, a lookup failed, or its creation failed or was  *)
(* cut off after it was handed over.                                       *)
AloneOnce ==
  \A l \in Logs \ raced :
    /\ rows[l] <= 1
    /\ l \notin redone => handed[l] <= 1

(* A call of FilterLogs returns or the process ends: with the channel full *)
(* and Redis slow or failing a monitor is delayed, not stuck.              *)
CallsReturn ==
  \A c \in Callers : (pc[c] # "idle") ~> (pc[c] = "idle" \/ main = "down")

(* The channel and its goroutine are an event feed.                        *)
Feed == INSTANCE EventFeed WITH Events <- Logs, waiting <- Waiting

ImplementsFeed == Feed!FairSpec
=============================================================================
