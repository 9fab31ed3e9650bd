# Event Pool: a TLA+ model of the service

Event Pool watches contracts on EVM chains. An API call stores a contract and
enqueues a backfill task; a worker fetches the contract's past logs; a monitor
polls the chain for new ones; logs are stored, published to Redis and broadcast
to the clients that opened an event stream. The service is one Go process with
many goroutines, a PostgreSQL database and Redis. What is hard about it is not
the data but the interleavings: maps and cursors read under a mutex and used
after it, slices shared without one, contexts that end before what depends on
them, bounded channels, deliveries that overlap, and pairs of calls to two
services of which one may fail.

This directory holds TLA+ modules for those parts, TLC configurations that
check them on small instances, and TLAPS proofs for all values of the constants.

## Inventory

| Component | Source | State | Operations | Talks to | Hard behaviour | What makes it correct |
|---|---|---|---|---|---|---|
| Receipt scheduler | `pkg/grpc/session.go` | job heap, map token to job, timer, one-slot trigger | schedule, cancel, `run`, stop | called by the streams | heap against map, lost wake-ups, cancel and schedule again | map and heap agree; no job is slept over; a request postpones |
| Chain polling | `internal/monitor/monitor.go` (`monitorContract`, the cursor in `Start`) | `lastBlocks` per chain, the goroutine's locals | set by `Start`, seed, poll, fetch, commit | node, ingestion, broadcast | one cursor for all contracts of a chain, written late and without the lock by `Start` | no block jumped over, none fetched twice, the head is caught up with |
| Monitor registry | `monitor.go` (`Start`, `Stop`, `RegisterContract`, `checkForNewContracts`, `logCurrentBlock`, flags), `internal/worker/worker.go` | `running`, `monitors`, `readyForMonitoring`, `backfilling`, the lock, contexts | start, register, check, mark, log, stop | worker, API, task library | check-then-act in several critical sections, contexts of tasks, a lock held over calls to the node | one goroutine per contract; flags do not stay behind |
| Backfill | `internal/listener/listener.go`, `worker.go` (`handleBackfill`) | status, current chunk, `eventChan`, `done` | chunk loop, handler loop | node, ingestion, registry, status endpoint | bounded channel, cancelled context, overlapping deliveries | the status is honest, a completed range is covered, both goroutines end |
| Log ingestion | `pkg/ethereum/client.go`, `worker.go` | event table, timestamps of a call | check, publish, create | node, database, producer | check-then-create by several goroutines, failures between publish and create | a log stored and handed over once, nothing stored in silence |
| Event producer, shutdown | `pkg/eventproducer`, `cmd/serve.go` | bounded channel | publish, drain, close | Redis | blocking when full, closed while in use | first in, first out; calls return |
| Contract API | `internal/api/contract.go`, `prisma/schema.prisma` | contract table, task queue | create, register the ABI and enqueue, per signature | database, task queue, decoder | failure in the middle of the loop, repeated requests | one task per contract, the task finds its contract and its ABI |
| Rate limit | `internal/api/rate_limit.go` | counter per user with a time to live | check, serve, count | Redis | requests between check and count, half a pipeline | how far the limit can be exceeded; it is lifted |
| Event queries | `internal/api/contract.go`, `pkg/grpc/server.go` (`GetEvents`) | none | find the contract, find a page | database, rate limit | pages by offset over a growing table | what a walk can miss |
| Contract status | `pkg/grpc/http_server.go` | none | report | backfill status, cursor | combines two sources under two locks | the reported block is covered |
| Subscribers | `pkg/grpc/server.go` (`StreamEvents`, `BroadcastEvent`) | slice of channels per event key | subscribe, unsubscribe, broadcast | monitor, streams | iteration without the lock over a slice edited in place; send on a closed channel | the list is exact; a broadcast is exact ahead of whoever leaves; it never blocks |
| Stream connections | `server.go` (`StreamEvents`, `DisconnectStream`), `internal/api/server.go` (interceptors) | `activeConns` per token, contexts, blacklist | admit, connect, replace, end, disconnect | scheduler, Redis | stale lookups, cleanup after a successor | the tracked connection lives; what was told to end ends |
| Event decoder | `pkg/ethereum/event_decoder.go` | map of ABIs | register, decode | monitor, API | map without a lock | an ABI is known before it is needed |
| The rest | JWT, configuration, database client, helpers, generated code, `helper/progress` | - | - | - | - | - |

How they interact: the API stores a contract, gives its ABI to the decoder and
enqueues a task; the worker's handler finds the contract, asks the registry
(`IsContractBackfilling`, `IsContractReadyForMonitoring`), registers the
contract, marks it and starts a listener; the listener and the monitor's
goroutines fetch logs through `FilterLogs`, which stores and publishes them; the
monitor broadcasts them to the subscriber lists; streams register with a list
and with the table of connections and, when they end, with the receipt
scheduler; the status endpoint reads the monitor's cursor and the listener's
status.

```
 ContractApi --task--> MonitorRegistry --starts--> ChainMonitor --------> Subscribers
      |                      |                     implements Cursor      StreamSession
      +-----task-----> Backfill                        |                       |
                  implements BackfillProgress          |                 SessionScheduler
                       |        \                      |
                     Ingest      +--> ContractStatus <-+
                 implements EventFeed           EventQuery EXTENDS RateLimit
```

## Modules and how they correspond to the code

One step of a model is what the code does between two points where another
goroutine can matter: a critical section, a channel operation, or a call to the
node, the database or Redis. A call that reports an error may have been carried
out; where that matters both outcomes are steps.

**SessionScheduler** models `session.go`. A job is a pointer; the heap is the
set of jobs pushed and not popped, whose root is a job of least `runAt`.
`Schedule` is `ScheduleSessionReceipt` (its two branches are `Update` and
`Push`), `Cancel` is `CancelSessionReceipt`, `Scan` is the body of `run()` under
the lock, `TimerFires`, `TriggerReceived` and `ShutdownReceived` are the branches
of its select. Time is a counter; a timer is the instant at which it fires.

**ChainMonitor** models the goroutines of `monitorContract` for the contracts of
one chain: `ProbeOK`/`ProbeFails` is the first `GetLatestBlock`, `Seed` the
section that sets `lastBlocks` if it is unset, `Poll` the ticker branch up to
the answer of the node, `ReadCursor` the section that reads the cursor,
`FetchOK`/`FetchFails` the `FilterLogs` call with the processing of its logs,
`Commit` the section that writes the cursor. `Start` is an actor of its own: it
asks for the head (`StartProbeOK`, `StartProbeFails`) and sets the cursor
(`StartWrites`, `monitor.go:73-79`), without the lock and whether or not there is
one, before it launches its goroutines. The worker runs by then
(`serve.go:99`), so the goroutine of a contract in `Tasked`, which a backfill task
registers, may be at any place when that happens, and may have seeded or moved the
cursor that `Start` replaces. `seen`, `failed`, `repeated`, `committed` and `base`
are history, and so are `overwrote` (Start replaced a cursor) and `passed` (the
blocks it thereby passed over). Block numbers are natural numbers: with 64
bits they do not wrap in practice.

**Cursor** is the abstract specification of `m.lastBlocks` of one chain: once
seeded, only ever at a block up to which every block since the first seed was
asked for, but for `Overwrite`: until `Start` is through it may, once, set a
seeded cursor to any block, and the blocks it passes over are in `passed`. The
cursor may go back, since a slow goroutine commits an older value.
`ChainMonitor!ImplementsCursor` is the refinement.

**MonitorRegistry** models who launches, finds and ends the monitor goroutine of
one contract: `Monitor.Start` (`StartBegin` to `StartLaunch`), `Stop`,
`RegisterContract` (its three critical sections), `checkForNewContracts`
(`CheckerFinds`, `CheckerLooksUp`), and the prefix and the end of
`handleBackfill` with the goroutine it starts. A goroutine's context derives
from the one passed to `RegisterContract`, which for a task is the task's own.
`LogBegins` and `LogEnds` are `logCurrentBlock`, which holds the read lock of
`m.mu` while it asks every node for its head: whatever writes under that lock
waits for it.

**Backfill** continues `handleBackfill` where the listener is started:
the listener's loop (`LatestOK` to `CloseDone`), the handler's loop (`Receive`,
`Handled`, `Return`), the channel as a bounded sequence of logs, the status entry
that all deliveries of the contract's task share. A log is named by its block.
`ChunkStart` are the blocks at which chunks begin; `ClosedIsCovered` uses it to
say exactly when the last block of the range is left out.
**BackfillProgress** is what it promises: the status moves only over fetched
blocks and is cleared only when everything before a head was fetched
(`ImplementsProgress`).

**Ingest** models what becomes of a log: `FilterLogs` with `processEventLog`
(`FilterLogs` to `CreateFails`, with the timestamp cache of one call), the second
check and creation in `handleBackfill` (`Receive` to `HandlerFails`), the
producer's channel and goroutine (`Publish`, `TakeEvent`, `Deliver`, `Refuse`),
and the end of the process in the order of `RunServe` or by a crash, with a
restart on the same database. **EventFeed** is the abstract queue the producer
implements (`ImplementsFeed`, with its liveness): what goes out is in order and
was handed over, no more often than it was.

**ContractApi** models `RegisterContract`: validation of the whole request
(`Decode`), and per signature the row (`Create`, refused by either unique key of
the table), the ABI (`RegisterEventABI`) and the task (`EnqueueTask`), each of
which may fail; the delivery of tasks up to the lookup of the contract
(`TaskStarts`); a crash, which loses the decoder's ABIs and keeps the table and
the queue. An address or a signature is a record of the ways clients spell it, and
`ParseEventSignature`, `ExtractEventName` and `ToLower` are what the conversions
keep of that. **ContractApiMC** gives five requests that meet.

**RateLimit** models `successBasedRateLimitMiddleware` for one user: the check,
the handler, and the pipeline that increments the counter and sets its time to
live, whose two commands are two steps. **EventQuery** extends it with a client
that pages through the events of an address over HTTP, behind the limit, or over
gRPC, where there is none, while events are stored. `FindContract` may find any
contract of the address, as the query has no order, and `IsPage` any page that
agrees with the order by block number. **EventQueryMC** gives the events.

**ContractStatus** models `GetContractStatus`, which reads the cursor and then
the status. It composes the two abstract specifications, Cursor and
BackfillProgress, rather than their implementations (Start's late write, which is
`Overwrite`, included), with restarts that forget both values.

**Subscribers** models the slice of one event key down to its backing arrays,
because the lock-free iteration of `BroadcastEvent` depends on them: `Append1` is
Go's `append`, `Shifted` the removal `append(subs[:i], subs[i+1:]...)`, and a
reader of an array that is being shifted may see a slot's old or new content.

**StreamSession** models `StreamEvents` and `DisconnectStream` for one token:
`Intercept` and `Admit` are the two checks of the token, by the interceptor and
by the handler, `Register` is the critical section that closes the old
connection (`CloseConn`) and stores the new one, `EndExpected`, `TakeEvent` and
`SendReturns` are the loop, `Unregister` and `Finish` the deferred cleanup;
`InterceptCall` to `Blacklist` are the checks and the five separate effects of a
disconnect call. `Bearer` says whether clients send the token with its prefix,
which decides whether the blacklist is found under the key it was written with;
`RedisFails` whether Redis may fail, for the lookup counts any error as "not
blacklisted" (`server.go:498`).
`GetExpirationTime` cannot fail for a token that was validated and is left out.

The modules named `..._proofs` hold the theorems: **GrpcServer_proofs** those of
Subscribers and StreamSession, **ReadEndpoints_proofs** those of RateLimit,
EventQuery and ContractStatus, the others those of one module. Modules that share a
proof module use different names: StreamSession's specification is `ConnSpec`,
ContractStatus's `StatusSpec`. Operators described as
"Fault:" are wrong versions of the definition they precede, with one plausible
mistake each. No specification uses them; put in place of the definition they
show that the property named in `PROJECT.json` notices the mistake.

## Runs

`PROJECT.json` lists the runs with their properties. Passing runs:

| Run | Instance | Shows |
|---|---|---|
| `scheduler` | 2 tokens, 3 jobs, delay 2, clock to 3 | map and heap agree, no lost wake-up, a request postpones, no job is left for ever |
| `chain` | Start, 2 contracts, 1 of them registered by a task, batches of 2, 3 blocks | the shared cursor jumps over no block nobody asked for, save those Start passes; a goroutine alone in writing it is exact; it reaches the head again and again; Cursor is implemented |
| `registry` | 2 deliveries, 2 launches | no stale flag, no double monitoring that lasts, the contract is picked up |
| `backfill` | 2 deliveries, 5 blocks, up to 3 blocks per chunk, channel of 1 | failures do not look like success, the last block is left out only where a chunk would begin, logs come in order and once, nobody hangs; BackfillProgress is implemented |
| `ingest` | 1 monitor, 1 task, 2 logs of one block, channel of 1, 2 calls, 2 boots, 1 failure | a stored log went out or the reason is known; duplicates need a race or a failure; calls return; EventFeed is implemented |
| `api` | 5 requests about 2 events of a contract, 2 failures | one task per contract; the ABI before the task; a half-done contract is never completed; an accepted one is backfilled |
| `query` | 2 requests of a user, limit 1, 4 events, pages of 1 | by how much the limit is exceeded; it is lifted; which events a walk can miss |
| `status` | 3 blocks, 2 boots | a backfill block is covered; after a backfill only the hand-over gap, or what Start passed over, can be missing |
| `subscribers` | 3 streams, 1 broadcasting monitor, capacity 1 | the list is exact; a broadcast is exact ahead of whoever leaves; a panic needs a stream that left; a broadcast returns |
| `session` | 2 streams, 2 disconnect calls | the tracked connection lives, all others are told to end, those told to end do |

Runs that TLC is expected to refute, each with a statement the repository makes
about itself:

| Run | Statement | What happens |
|---|---|---|
| `chain_shared` | "Each contract will be monitored independently." (`monitor.go:106`) | one contract moves the cursor of the chain; another then never asks for those blocks |
| `registry_abandoned` | "listens to specific smart contract events [...] and pushes them to subscribing clients in real-time" (`README.md:3`) | the goroutine a task registered ends with the task's context; its entry stays and hides the contract from the checker |

### Behaviour of the code worth knowing

Modelling brought out more than the two refuted statements. The following is in
the models as it is in the code; the properties that hold are worded around it.

* *Scheduler.* Schedule, cancel, schedule: the scan that pops the first, cancelled
  job deletes the map entry of the second (`session.go:130`), which can then
  not be cancelled. Hence "never cancelled" in three properties.
* *Polling.* `Start` writes the cursor of a chain late, without the lock and without
  looking (`monitor.go:73-79`). When the goroutine of a backfill task has seeded
  it before, the cursor jumps to a newer head over blocks that no contract asks for
  (`passed`), or is set back and blocks are fetched again (`overwrote`). A
  `FilterLogs` that fails loses its batch: the next commit moves over it
  (`monitor.go:283`).
* *Registry.* `logCurrentBlock` keeps the read lock over calls without a deadline: a
  node that never answers blocks every registration and flag for good
  (`monitor.go:131`).
* *Subscribers.* A removal shifts the array under a broadcast (`server.go:256-259`):
  a stream behind the one that leaves may be passed over or be sent an event
  twice, room in its channel or not, and a send to the channel of the stream that
  left panics. `ExactAheadOfLeavers` and `PanicOnlyOnLeaver` say that nobody else is
  affected.
* *Streams.* A token blacklisted between the check of the interceptor and the section
  that registers the stream still gets its stream (`server.go:143`). A disconnect call deletes the entry of a stream that registered after
  its lookup (`server.go:402`); the next stream of the token does not find and
  close that one. `unlisted` records it.
* *Backfill.* The last block of the range is left out when a chunk ends one before
  it (`listener.go:71`); `ClosedIsCovered` says that this is the only case. A failed
  backfill is not retried: the handler returns nil.
* *Ingestion.* The event table has no unique key on a log; two goroutines that are at
  one log store and publish it twice (`raced`), and a creation that fails
  after the publish has it published again (`redone`).
* *API.* A request that fails between the row and the task leaves a contract that no
  retry completes (`OrphanStaysOrphan`). An address without 0x is stored as it is,
  while `FilterLogs` looks for the one with 0x: its logs are given up. An empty
  list of signatures is answered 201, which is what the request of
  `README.md:104` gets, whose field is `eventSignature` and not the list the
  code reads. A label of a parameter other than `indexed` stays glued to the
  type and changes the hash.
* *Broadcast.* A stream's key is made of the signature in its request, the
  broadcast's of the event's name. Subscribers is about one key and assumes that
  both agree on it.
* *Status.* After a restart, or before the first backfill, the block reported is the
  cursor's, which says nothing about the contract, although the comment at
  `monitor.go:507` speaks of the time "when backfill process finishes". The
  status is looked up under the address as the client spells it: without 0x it is
  not found.
* *Rate limit.* An increment whose `Expire` is lost at the limit leaves a user
  refused for good (`unarmed`), since only a success sets the time to live.

### Bounds

Each bound is a constant named in its module and only limits how often things
happen.

* `scheduler`: `MaxTime` 3 with `Delay` 2 lets a job be scheduled, postponed and
  fall due, with the next scheduled in between; three jobs let one token own a
  cancelled and a live job while another token has one. `LongWait`, the 24-hour
  sleep of an empty heap, is put beyond the clock, as it is beyond every
  delay in use.
* `chain`: two contracts are enough for every pairwise race on the cursor; one is in
  `Tasked` and may be anywhere when Start writes, the other is launched by Start (in
  `chain_shared` both are, so that the refutation does not rest on the late write).
  `MaxBlock` 3 with `BatchSize` 2 gives one full and one partial batch.
* `registry`: two deliveries and two launches give every pairing of Start, the checker
  and the tasks; `Goroutines` bounds the launches.
* `backfill`: with `ChunkSize` 2 a chunk is three blocks, since the
  code adds the size to the first block and fetches both ends; `MaxBlock` 4
  then gives an empty range, one full chunk, a chunk that ends one before the
  latest block and a second chunk cut short by it. `ChannelSize` 1 blocks at the
  second log.
* `ingest`: `Capacity` 1 makes the second Publish wait while the producer's goroutine
  holds an event; `MaxCalls` 2 lets the monitor and the listener meet on
  a log or one of them come back to it; `MaxBoots` 2 is one restart; `MaxFaults` 1
  is any single failing call or a crash, besides the creations of the handler, which
  may all fail. Both logs are of one block, so that the
  timestamp is fetched once.
* `api`: `MaxSignatures` 2 gives a request that fails half-way; requests 1 and 2
  differ in spelling only, 3 asks for the second event alone, 4 and 5 are an
  unknown chain and an empty list. `MaxFaults` 2 lets a retry fail as well,
  or a failure and a crash meet.
* `query`: `Limit` 1 with two requests exceeds the limit by the one the bound
  allows; four events in three blocks have a tie and a second contract, and
  `Take` 1 makes every step of the walk a page of its own. `MaxFaults` 1.
* `status`: `MaxBlock` 2 with `StartBlock` 1 has a block before the range, and room
  for a gap between the backfill's head and the seed or under an overwrite; `MaxBoots` 2.
* `subscribers`: three streams are the least with which a removal moves a stream that
  stays; `Cap` 1 makes the second event find the channel full.
* `session`: two streams replace one another; two calls act on the same lookup.

### Fairness

Weak fairness stands for the Go scheduler running a goroutine that can run, for
tickers ticking and for calls that return, with or without an error. It is given
to whole goroutines or to their steps, never to what clients, the task
library's clock, the operator or the chain may do: no stream must be opened, read
or closed, no request made, no signal sent, no block made. In `api` the process
is started again and the queue delivers each task until it is taken, which is what
at-least-once delivery means; the library's limit on retries is not reached
there, because an accepted request's contract is found at the first delivery that
gets an answer. In `query` the window of a counter that has a time to live passes.

Strong fairness is used where something is possible again and again:

* a select with several ready branches, which Go resolves at random (`EndExpected` in
  StreamSession, `Return` in Backfill);
* the node, which answers a call made over and over now and then (`Poll` and
  `FetchOK` in ChainMonitor);
* senders blocked on a channel, which Go serves in the order of arrival (`Publish` in
  Ingest);
* a writer waiting for `m.mu`, which `sync.RWMutex` lets pass before readers that
  come later, so that `logCurrentBlock` cannot keep the checker out for ever
  (`Checker` in MonitorRegistry).

`SendReturns` is fair because gRPC gives up a connection whose client does not
take data or answer. `LogEnds` is not fair: the calls of `logCurrentBlock` have no
deadline, so `PickedUp` and `StaysMonitored` state as their premise that its rounds
end (`[]<>~logging`).

Start's call and its write are weakly fair in `chain` (`StartProbeOK` or
`StartProbeFails`, `StartWrites`), since nothing launches the goroutines of Start
before.

## Proofs

The theorems hold for every value of the constants that satisfies the named
assumptions of each module: naturals are naturals, capacities and chunks are not
zero, the process starts at least once, the "nothing" values are no elements, sets
that are counted are finite, logs are numbered, requests are well formed. Every
invariant of the passing runs is stated by a theorem, and so are both action
properties and the safety part of all three refinements.

* **SessionScheduler**: `IInv` is `TypeOK`, `MapPointsIntoHeap`, `NoOversleep` and
  `TrackedUnlessCancelled` with `DueWhenAsked`: the pending receipt of a token that
  was never cancelled is due exactly `Delay` after the last request for it. A scan
  removes jobs from the heap and entries from the map by token, so that a token's
  entry survives only if no other job of the token is popped; that is why the
  parts are proved together. Proved: type correctness, the three invariants, and
  the action property `PostponedByReschedule`, which needs `DueWhenAsked`.
* **ChainMonitor**: `ChainCovered` is not inductive, since a goroutine commits the
  end of a range computed from an old cursor. `IInv` adds `SeededFirst` (who is in
  the loop has seen a seeded cursor), `CoveredBelow` (everything between `base` and
  the batch a goroutine is at was fetched or failed by someone, or passed by Start,
  wherever its `from` is), `StartFirst` (until Start is through only goroutines of
  tasks have begun and nothing was replaced) and `Alone`, the same as
  `CoveredBelow` for the goroutine that is the only one to have written the cursor,
  Start having replaced nothing, with what it has seen bounded by its position;
  `Alone` gives `AloneExactlyOnce`. `CursorCovered` thus holds of the code as it is,
  Start's late write included: the excused blocks are those that write passed, and
  there are none unless the goroutine of a task had entered its loop before.
  `CursorImplemented` shows that each step is a step of Cursor or a stutter: a commit
  is `Move` by `CoveredBelow`, Start's write is `Seed` or `Overwrite`.
* **Backfill**: a status entry is written by every delivery, so `StatusIsCovered` needs
  to know of each listener that what lies before its current block was fetched
  (`FetchedBelow`). `Position` ties a listener's place to the range and to the
  closed channel; `SentBelow` and `Rising` order what was sent, what is buffered and
  what is pending by block, for `EachLogOnce`. While the range is not used up
  `currentBlock` is a `ChunkStart`, so that a listener that ends with its last block
  unfetched ends on one: `ClosedCovered`. `ProgressImplemented` is the
  refinement of BackfillProgress by all deliveries together.
* **MonitorRegistry**: neither property is inductive, for both depend on who may
  launch a goroutine that lasts until the monitor stops. `OneLasting` says there is
  never more than one; it holds because `Start` launches before the checker begins
  (`StartFirst`), the entry of a contract is never taken back while the monitor runs
  (`EntryStays`), and the checker goes on to register only what has no lasting
  goroutine (`CheckerSure`), although it looked the entry up in an earlier critical
  section. All other goroutines hang on the context of a task whose handler has
  begun, and that context is done when the handler has returned (`TaskContext`).
  From these follows `NoDoubleMonitoring`: a doubled contract needs a handler that is
  not through. `FlagHasOwner` is inductive with the types.
* **Ingest**: what a stored log owes to the outside is not visible in the state of
  the goroutine that stores it. `RowsSettled` says of every row that its log was
  sent, waits in the producer, was lost for a known reason or given up, and
  `OffersSettled` says the same of a log that is about to be stored, was answered by
  a call or is offered to a listener. For `AloneOnce`, `OneAtATime` keeps a log that
  was never raced for to one goroutine between its lookup and the end of its
  creation, which has found no row; `HandedOnce` counts the hand-overs of such a log
  unless its creation went wrong, and `CutOff` counts one interrupted by the end of
  the process as gone wrong. `FeedImplemented` shows step by step that Ingest
  implements the safety part of EventFeed.
* **Subscribers**: `SubscriptionExact` compares the slots of the slice with the set
  of open streams; `ListExact` says it slot by slot, which is what an append and a
  shift can be shown to keep, and `LockHeld` that the stream whose slots are half
  shifted is the one that holds the lock. A broadcaster iterates without the lock
  over the array of its snapshot, which may be the one in use. `ViewSeen` says that
  what it may find in those slots, also as they were before a shift in progress, is a
  stream that is open or has left since the snapshot; hence `PanicOnlyOnLeaver`.
  `ViewKept` says that ahead of the first stream that left, the slots keep the
  snapshot: an append in place writes behind the view, one that grows the array
  leaves the old one alone, and a removal shifts only what is behind the stream
  removed. With `TurnKept`, that each of those streams was sent to at its turn and at
  no other, that gives `ExactAheadOfLeavers`.
* **ContractApi**: `Claimed` are the tasks whose row is known to be in the table
  because of their own request: the one at its ABI or queue step, and those in the
  queue. `ClaimedStored` and `ClaimedApart` say their rows exist and differ, which a
  second create of the same key cannot break as it is refused; that is all of
  `OneTaskPerContract`. `Begins` says a request starts at its first signature.
  `AbiKnown` extends `AbiBeforeTask` from running tasks to announced ones. The
  action property `OrphanStaysOrphan` follows from `ClaimedStored`: only a create
  leads to a task, and the key is taken.
* **RateLimit and EventQuery**: `OvershootBound` is inductive with type correctness:
  the check passes only below the limit, with the checking request itself not yet
  among those passed. The proof is about cardinalities of the set of requests.
  `QueriesAreLimited` shows that EventQuery implements RateLimit, and
  `QueryOvershoot` carries the bound over. For `MissedOnlyInTies` the invariant of a
  walk, `WalkInv`, adds where the client is in the order of the events
  (`WalkOrder`) and `NoneBehind`: an event that is the only one of its block, was
  there when the walk began and has not been returned has at least as many rows
  above it as the walk has gone past. Storing newer events moves it further down,
  never up, so a page takes it or the offset stays before it, and a short page took
  everything. With ties in a block the database may order rows anew for each page,
  so neither the argument nor the property covers them.
* **ContractStatus**: an answer is older than the state it is compared with. `StatusInv`
  says what was read stays true (`ReadKept`, `AnswerKept`), since the sets of blocks
  asked for and fetched only grow, beside what Cursor and BackfillProgress
  themselves keep (`CursorKept`, `StatusKept`, `CompletedKept`). Both theorems hold
  for every number of restarts.
* **StreamSession**: `ConnInv` is `ConnTypeOK`, `TrackedIsLive`, `UntrackedIsCancelled` and
  `CallCancelled`: a disconnect call about to remove the entry has cancelled the
  connection it looked up. The removal needs it: the entry it deletes is that of
  the cancelled connection, or by then that of a newer stream, which the history
  variable `unlisted` records.

Only model-checked: the liveness properties (`PendingIsSettled`, `CatchesUp`,
`BroadcastReturns`, `ToldStreamsEnd`, `PickedUp`, `BothEnd`, `CallsReturn`,
`AcceptedIsBackfilled`, `LimitIsLifted`) and the fairness of `ImplementsFeed`, since
liveness under fairness and ENABLED are out of the prover's reach. ContractStatus
composes Cursor and BackfillProgress as separate machines; that ChainMonitor and
Backfill implement them is proved for each by itself. Of the two statements that
TLC refutes nothing is proved.

## Not modelled

* `helper/progress`: nothing calls it, and it imports a package the repository does
  not have.
* Decoding of logs, and the helpers it rests on (`types`, `helper/hex`,
  `helper/keccak`, `helper/common`): conversions of data no property depends on. Of the
  decoder, which ABIs it knows is in ContractApi; decoding cannot fail, it falls back
  to the raw data.
* Issuing and signing of tokens, CORS, request logging, routing, configuration, the
  database client, the command line: no state of their own.
* `GetContracts` and the reading accessors, which change nothing; `SubscribeToLogs`,
  the two unused variants of the rate limit and the websocket branches of
  `DisconnectStream` and `Close`, which nothing reaches: no caller stores a
  websocket connection.
* Generated code (`internal/proto`).
* Data races on Go maps (`lastBlocks` in `Start`, the decoder's map): the runtime may
  abort the process at any of them. They are listed as hazards; the order of the
  accesses of `Start` is modelled (ChainMonitor), the abort is not.

## What is left

* A proof that ContractStatus's two reads, taken of ChainMonitor and Backfill instead
  of their abstract specifications, give the same reports.
* ContractApi composed with MonitorRegistry, so that an accepted request leads to a
  contract that is monitored for as long as its goroutine lives.
* A broadcast seen from one stream as a feed: the events it was sent, in order, while it
  is subscribed.
