--------------------------- MODULE MonitorRegistry ---------------------------
(***************************************************************************)
(* Who starts, finds and stops the monitor goroutine of one contract:      *)
(* Monitor.Start, checkForNewContracts, RegisterContract and Stop of       *)
(* internal/monitor/monitor.go, and the backfill tasks of                  *)
(* internal/worker/worker.go that register the contract with the monitor.  *)
(* They share m.running and the maps monitors, readyForMonitoring and      *)
(* backfilling; m.mu protects each access, not the sequences of them.      *)
(* Entries of other contracts are independent, so one contract is          *)
(* modelled.                                                               *)
(*                                                                         *)
(* The task library (asynq) gives each handler a context that it cancels   *)
(* when the handler has returned, or when the task times out.              *)
(***************************************************************************)
EXTENDS Naturals, FiniteSets

CONSTANTS
  Tasks,        \* deliveries of backfill tasks for the contract
  Goroutines,   \* identities of monitor goroutines: bounds the registrations
  None,         \* no entry in m.monitors
  Background,   \* the context Start was called with, never cancelled
  checker       \* the checkForNewContracts goroutine

ASSUME ConstantsAssumption ==
  /\ None \notin Goroutines
  /\ Background \notin Tasks /\ checker \notin Tasks

VARIABLES
  stored,       \* whether the contract is in the database
  running,      \* m.running
  logging,      \* whether logCurrentBlock holds the read lock of m.mu
  starter,      \* where Monitor.Start is
  entry,        \* m.monitors: the goroutine whose cancel it holds
  ready,        \* m.readyForMonitoring
  backfilling,  \* m.backfilling
  pc,           \* where the checker and each task's handler are
  listener,     \* where the goroutine each task starts for its backfill is
  ctxDone,      \* the tasks whose context is done
  goroutine,    \* the state of each monitor goroutine
  parent,       \* the context its own derives from
  canceled      \* the goroutines whose own context was cancelled

maps == <<entry, ready, backfilling>>
goroutines == <<goroutine, parent, canceled>>
tasks == <<listener, ctxDone>>
vars == <<stored, running, logging, starter, maps, pc, tasks, goroutines>>

Actors == Tasks \union {checker}

(* Every actor is at one of its places and an entry of m.monitors names a  *)
(* goroutine that was started.                                             *)
TypeOK ==
  /\ stored \in BOOLEAN /\ running \in BOOLEAN /\ logging \in BOOLEAN
  /\ starter \in {"off", "list", "mark", "launch", "up", "failed"}
  /\ entry \in Goroutines \union {None}
  /\ entry # None => goroutine[entry] # "none"
  /\ ready \in BOOLEAN /\ backfilling \in BOOLEAN
  /\ pc \in [Actors -> {"new", "busy", "ready", "tick", "check", "register",
                        "mark", "launch", "flag", "loop", "returned"}]
  /\ listener \in [Tasks -> {"none", "run", "closed", "ended"}]
  /\ ctxDone \subseteq Tasks
  /\ goroutine \in [Goroutines -> {"none", "probe", "poll", "failed", "ended"}]
  /\ parent \in [Goroutines -> Tasks \union {Background}]
  /\ canceled \subseteq Goroutines

-----------------------------------------------------------------------------
(* The process starts; the contract may have been stored by an earlier one. *)
Init ==
  /\ stored \in BOOLEAN
  /\ running = FALSE /\ logging = FALSE /\ starter = "off"
  /\ entry = None /\ ready = FALSE /\ backfilling = FALSE
  /\ pc = [a \in Actors |-> "new"]
  /\ listener = [t \in Tasks |-> "none"]
  /\ ctxDone = {}
  /\ goroutine = [g \in Goroutines |-> "none"]
  /\ parent = [g \in Goroutines |-> Background]
  /\ canceled = {}

(* The API stores the contract (before it enqueues its backfill task).     *)
Store ==
  /\ ~stored
  /\ stored' = TRUE
  /\ UNCHANGED <<running, logging, starter, maps, pc, tasks, goroutines>>

(* The goroutine runs monitorContract.                                     *)
Alive(g) == goroutine[g] \in {"probe", "poll"}

(* The identities not used; which of them a goroutine gets is immaterial,  *)
(* so it is not left open.                                                 *)
Unused == {g \in Goroutines : goroutine[g] = "none"}

(* Fault: the cancel function is stored, the goroutine not started.        *)
LaunchFault(ctx) ==
  \E g \in Unused :
    /\ parent' = [parent EXCEPT ![g] = ctx]
    /\ entry' = g
    /\ UNCHANGED <<goroutine, canceled>>

(* A new goroutine on a context derived from ctx, its cancel in monitors.  *)
Launch(ctx) ==
  \E g \in Unused :
    /\ g = CHOOSE h \in Unused : TRUE
    /\ goroutine' = [goroutine EXCEPT ![g] = "probe"]
    /\ parent' = [parent EXCEPT ![g] = ctx]
    /\ entry' = g
    /\ UNCHANGED canceled

-----------------------------------------------------------------------------
(* Monitor.Start, called once.                                             *)
StartBegin ==
  /\ starter = "off" /\ ~running
  /\ running' = TRUE
  /\ starter' = "list"
  /\ UNCHANGED <<stored, logging, maps, pc, tasks, goroutines>>

(* FindMany: an error makes Start give up, and with it the API server.     *)
StartListFails ==
  /\ starter = "list"
  /\ running' = FALSE
  /\ starter' = "failed"
  /\ UNCHANGED <<stored, logging, maps, pc, tasks, goroutines>>

(* The contracts found; the loop over them, or directly the end of Start.  *)
StartList ==
  /\ starter = "list"
  /\ IF stored
       THEN starter' = "mark" /\ UNCHANGED pc
       ELSE starter' = "up" /\ pc' = [pc EXCEPT ![checker] = "tick"]
  /\ UNCHANGED <<stored, running, logging, maps, tasks, goroutines>>

StartMark ==
  /\ starter = "mark"
  /\ ready' = TRUE
  /\ starter' = "launch"
  /\ UNCHANGED <<stored, running, logging, entry, backfilling, pc, tasks,
                 goroutines>>

(* The goroutine of the contract, then that of checkForNewContracts.       *)
StartLaunch ==
  /\ starter = "launch"
  /\ Launch(Background)
  /\ starter' = "up"
  /\ pc' = [pc EXCEPT ![checker] = "tick"]
  /\ UNCHANGED <<stored, running, logging, ready, backfilling, tasks>>

(* Monitor.Stop, when the process shuts down, which may be during Start.   *)
Stop ==
  /\ running /\ ~logging
  /\ canceled' = canceled \union {g \in Goroutines : g = entry /\ Alive(g)}
  /\ entry' = None /\ ready' = FALSE /\ backfilling' = FALSE
  /\ running' = FALSE
  /\ UNCHANGED <<stored, logging, starter, pc, tasks, goroutine, parent>>

-----------------------------------------------------------------------------
Goto(a, label) == pc' = [pc EXCEPT ![a] = label]

(* Fault: a task registers the contract with a context of its own that     *)
(* nobody cancels.                                                         *)
ContextOfFault(a) == Background

(* RegisterContract, called by the checker or by a task.                   *)
ContextOf(a) == IF a = checker THEN Background ELSE a

AfterRegister(a) == IF a = checker THEN "tick" ELSE "flag"

RegisterRunning(a) ==
  /\ pc[a] = "register"
  /\ Goto(a, IF running THEN "mark" ELSE AfterRegister(a))
  /\ UNCHANGED <<stored, running, logging, starter, maps, tasks, goroutines>>

RegisterMark(a) ==
  /\ pc[a] = "mark" /\ ~logging
  /\ ready' = TRUE
  /\ Goto(a, "launch")
  /\ UNCHANGED <<stored, running, logging, starter, entry, backfilling, tasks,
                 goroutines>>

RegisterLaunch(a) ==
  /\ pc[a] = "launch" /\ ~logging
  /\ Launch(ContextOf(a))
  /\ Goto(a, AfterRegister(a))
  /\ UNCHANGED <<stored, running, logging, starter, ready, backfilling, tasks>>

(* checkForNewContracts: the ticker; it ends once the monitor is stopped.  *)
CheckerEnds ==
  /\ pc[checker] = "tick" /\ ~running
  /\ Goto(checker, "returned")
  /\ UNCHANGED <<stored, running, logging, starter, maps, tasks, goroutines>>

CheckerFinds ==
  /\ pc[checker] = "tick" /\ running /\ stored
  /\ Goto(checker, "check")
  /\ UNCHANGED <<stored, running, logging, starter, maps, tasks, goroutines>>

(* Fault: the test is the wrong way round.                                 *)
CheckerInverted ==
  /\ pc[checker] = "check"
  /\ Goto(checker, IF entry = None THEN "tick" ELSE "register")
  /\ UNCHANGED <<stored, running, logging, starter, maps, tasks, goroutines>>

(* The test whether m.monitors has the contract.                           *)
CheckerLooksUp ==
  /\ pc[checker] = "check"
  /\ Goto(checker, IF entry # None THEN "tick" ELSE "register")
  /\ UNCHANGED <<stored, running, logging, starter, maps, tasks, goroutines>>

-----------------------------------------------------------------------------
(* handleBackfill: a task is delivered and finds the contract.             *)
Deliver(t) ==
  /\ pc[t] = "new" /\ stored
  /\ Goto(t, "busy")
  /\ UNCHANGED <<stored, running, logging, starter, maps, tasks, goroutines>>

(* The handler returns, and the library cancels its context.               *)
Return(t) == Goto(t, "returned") /\ ctxDone' = ctxDone \union {t}

IsBackfilling(t) ==
  /\ pc[t] = "busy"
  /\ IF backfilling THEN Return(t) ELSE Goto(t, "ready") /\ UNCHANGED ctxDone
  /\ UNCHANGED <<stored, running, logging, starter, maps, listener,
                 goroutines>>

IsReady(t) ==
  /\ pc[t] = "ready"
  /\ Goto(t, IF ready THEN "flag" ELSE "register")
  /\ UNCHANGED <<stored, running, logging, starter, maps, tasks, goroutines>>

MarkContractBackfilling ==
  ~logging /\ backfilling' = TRUE /\ ready' = TRUE

MarkContractBackfillComplete ==
  ~logging /\ backfilling' = FALSE /\ ready' = TRUE

(* The contract is marked and the backfill goroutine started.              *)
MarkBackfilling(t) ==
  /\ pc[t] = "flag"
  /\ MarkContractBackfilling
  /\ listener' = [listener EXCEPT ![t] = "run"]
  /\ Goto(t, "loop")
  /\ UNCHANGED <<stored, running, logging, starter, entry, ctxDone,
                 goroutines>>

(* The backfill ends, well or not: done is closed, and in a second step    *)
(* the contract is marked.                                                 *)
BackfillCloses(t) ==
  /\ listener[t] = "run"
  /\ listener' = [listener EXCEPT ![t] = "closed"]
  /\ UNCHANGED <<stored, running, logging, starter, maps, pc, ctxDone,
                 goroutines>>

(* Fault: the end of the backfill leaves the backfilling flag set.         *)
BackfillMarksFault(t) ==
  /\ listener[t] = "closed" /\ ~logging
  /\ ready' = TRUE
  /\ listener' = [listener EXCEPT ![t] = "ended"]
  /\ UNCHANGED <<stored, running, logging, starter, entry, backfilling, pc,
                 ctxDone, goroutines>>

BackfillMarks(t) ==
  /\ listener[t] = "closed"
  /\ MarkContractBackfillComplete
  /\ listener' = [listener EXCEPT ![t] = "ended"]
  /\ UNCHANGED <<stored, running, logging, starter, entry, pc, ctxDone,
                 goroutines>>

(* The task's time limit passes: the library cancels its context.  Before  *)
(* the contract is registered nothing would notice.                        *)
TaskTimesOut(t) ==
  /\ pc[t] \in {"flag", "loop"} /\ t \notin ctxDone
  /\ ctxDone' = ctxDone \union {t}
  /\ UNCHANGED <<stored, running, logging, starter, maps, pc, listener,
                 goroutines>>

(* The handler's loop ends with the backfill or with the context.          *)
HandlerReturns(t) ==
  /\ pc[t] = "loop" /\ listener[t] \in {"closed", "ended"}
  /\ Return(t)
  /\ UNCHANGED <<stored, running, logging, starter, maps, listener,
                 goroutines>>

HandlerCancelled(t) ==
  /\ pc[t] = "loop" /\ t \in ctxDone
  /\ MarkContractBackfillComplete
  /\ Return(t)
  /\ UNCHANGED <<stored, running, logging, starter, entry, listener,
                 goroutines>>

-----------------------------------------------------------------------------
(* monitorContract: the first GetLatestBlock may fail and end it; later it *)
(* ends when its context is done.  The context of a goroutine that ended   *)
(* is forgotten.                                                           *)
Ends(g, how) ==
  /\ goroutine' = [goroutine EXCEPT ![g] = how]
  /\ parent' = [parent EXCEPT ![g] = Background]
  /\ canceled' = canceled \ {g}
  /\ UNCHANGED <<stored, running, logging, starter, maps, pc, tasks>>

ProbeOK(g) ==
  /\ goroutine[g] = "probe"
  /\ goroutine' = [goroutine EXCEPT ![g] = "poll"]
  /\ UNCHANGED <<stored, running, logging, starter, maps, pc, tasks, parent,
                 canceled>>

ProbeFails(g) == goroutine[g] = "probe" /\ Ends(g, "failed")

ContextDone(g) ==
  /\ goroutine[g] = "poll"
  /\ g \in canceled \/ parent[g] \in ctxDone
  /\ Ends(g, "ended")

(* logCurrentBlock, once Start has returned: it asks every node for its    *)
(* head under the read lock, and nobody writes m's maps until they answer. *)
LogBegins ==
  /\ starter = "up" /\ running /\ ~logging
  /\ logging' = TRUE
  /\ UNCHANGED <<stored, running, starter, maps, pc, tasks, goroutines>>

LogEnds ==
  /\ logging
  /\ logging' = FALSE
  /\ UNCHANGED <<stored, running, starter, maps, pc, tasks, goroutines>>

(* The steps of each goroutine: Start's caller, the checker, a handler, a  *)
(* backfill, a monitor.                                                    *)
Starter == StartBegin \/ StartListFails \/ StartList \/ StartMark \/ StartLaunch

Register(a) == RegisterRunning(a) \/ RegisterMark(a) \/ RegisterLaunch(a)

Checker == CheckerEnds \/ CheckerFinds \/ CheckerLooksUp \/ Register(checker)

Handler(t) ==
  \/ IsBackfilling(t) \/ IsReady(t) \/ Register(t) \/ MarkBackfilling(t)
  \/ HandlerReturns(t) \/ HandlerCancelled(t)

Backfill(t) == BackfillCloses(t) \/ BackfillMarks(t)

Monitoring(g) == ProbeOK(g) \/ ProbeFails(g) \/ ContextDone(g)

Next ==
  \/ Store \/ Starter \/ Stop \/ Checker \/ LogBegins \/ LogEnds
  \/ \E t \in Tasks : Deliver(t) \/ TaskTimesOut(t) \/ Handler(t) \/ Backfill(t)
  \/ \E g \in Goroutines : Monitoring(g)

Spec == Init /\ [][Next]_vars

(* Every goroutine is scheduled, tickers tick and a backfill ends; the     *)
(* monitor need not be started or stopped, nor a task delivered.  A node   *)
(* need not answer logCurrentBlock, whose context has no deadline.  The    *)
(* checker gets the lock it waits for although logCurrentBlock takes it    *)
(* again and again: sync.RWMutex admits no reader while a writer waits.    *)
Fairness ==
  /\ WF_vars(starter # "off" /\ Starter) /\ SF_vars(Checker)
  /\ \A t \in Tasks : WF_vars(Handler(t)) /\ WF_vars(Backfill(t))
  /\ \A g \in Goroutines : WF_vars(Monitoring(g))

FairSpec == Spec /\ Fairness

-----------------------------------------------------------------------------
(* The backfilling flag never stays behind: while it is set, some task's   *)
(* backfill is still to mark its end, whatever other tasks time out or     *)
(* overlap (GetContractStatus and the next task rely on it).               *)
FlagHasOwner ==
  backfilling => \E t \in Tasks : listener[t] \in {"run", "closed"}

(* A contract has at most one goroutine that lives as long as the monitor: *)
(* neither Start and the checker nor two ticks of the checker start two,   *)
(* even when tasks register the contract in between.  And once no task is  *)
(* under way and the monitor runs, at most one goroutine of the contract   *)
(* is not told to end: tasks that raced to register it leave no double     *)
(* monitoring behind.                                                      *)
NoDoubleMonitoring ==
  /\ Cardinality({g \in Goroutines : Alive(g) /\ parent[g] = Background}) <= 1
  /\ running /\ (\A t \in Tasks : pc[t] \in {"new", "returned"}) =>
       Cardinality({g \in Goroutines :
                      Alive(g) /\ g \notin canceled /\ parent[g] \notin ctxDone}) <= 1

(* A stored contract is found: once the monitor is up it gets a goroutine, *)
(* by Start, by the checker or by its backfill task, unless it is stopped. *)
(* logCurrentBlock may be at it again and again; only a round that a node  *)
(* never answers, and that so keeps the lock for ever, prevents it.        *)
PickedUp ==
  []<>~logging =>
    ((stored /\ starter = "up" /\ running) ~> (entry # None \/ ~running))

(* Event Pool "listens to specific smart contract events [...] and pushes  *)
(* them to subscribing clients in real-time": from some time on a stored   *)
(* contract has a goroutine as long as the monitor runs, even when no      *)
(* probe of the chain fails and every node answers.  The goroutine a task  *)
(* registers ends with the task, its entry in monitors stays, and the      *)
(* checker takes the contract for monitored.                               *)
StaysMonitored ==
  [](\A g \in Goroutines : goroutine[g] # "failed") /\ []<>~logging =>
    ((stored /\ starter = "up" /\ running)
       ~> [](running => \E g \in Goroutines : Alive(g)))
=============================================================================
