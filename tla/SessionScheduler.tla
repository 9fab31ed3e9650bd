-------------------------- MODULE SessionScheduler --------------------------
(***************************************************************************)
(* The delayed-job scheduler of pkg/grpc/session.go.  A stream that ends   *)
(* uncleanly schedules a session receipt; a disconnect call cancels it.    *)
(* One goroutine, run(), pops the due jobs and then sleeps on a timer, on  *)
(* the one-slot trigger channel or on the shutdown channel.                *)
(*                                                                         *)
(* A job is a pointer (an element of Jobs).  The binary heap of            *)
(* container/heap is the set of the jobs pushed and not yet popped, whose  *)
(* root is some job of least runAt; an identity may be used again once its *)
(* job is out of the heap.  Everything between Lock and Unlock is one      *)
(* step.                                                                   *)
(***************************************************************************)
EXTENDS Naturals, FiniteSets

CONSTANTS
  Tokens,     \* the session tokens
  Jobs,       \* job identities: bounds how many jobs the heap holds at once
  NoJob,      \* a missing jobMap entry
  Delay,      \* the delay callers ask for (ReceiptSubmissionDelay)
  LongWait,   \* the sleep with an empty heap (24 hours)
  MaxTime     \* bound on the clock

ASSUME ConstantsAssumption ==
  /\ NoJob \notin Jobs
  /\ IsFiniteSet(Jobs)
  /\ Delay \in Nat
  /\ LongWait \in Nat
  /\ MaxTime \in Nat

VARIABLES
  now,           \* the wall clock
  heap,          \* s.jobs, as a set
  token,         \* the fields of the jobs
  runAt,
  canceled,
  jobMap,        \* s.jobMap
  trigger,       \* whether the trigger channel holds its one element
  timer,         \* the instant s.timer fires
  pc,            \* where run() is: at the loop head, in the select, returned
  shutdown,      \* whether the shutdown channel is closed
  submitted,     \* history: submitFn goroutines started, per token
  everCancelled, \* history: tokens a job of which was ever cancelled
  askedAt        \* history: when the receipt was last asked for, per token

jobVars == <<heap, token, runAt, canceled, jobMap>>
history == <<submitted, everCancelled, askedAt>>
vars == <<now, jobVars, trigger, timer, pc, shutdown, history>>

(* The state of the scheduler is well formed: every jobMap entry is a job  *)
(* or absent, every heap element a job, run() at one of its three places   *)
(* (session.go, struct SessionScheduler and run).                          *)
TypeOK ==
  /\ now \in Nat
  /\ heap \subseteq Jobs
  /\ token \in [Jobs -> Tokens]
  /\ runAt \in [Jobs -> Nat]
  /\ canceled \in [Jobs -> BOOLEAN]
  /\ jobMap \in [Tokens -> Jobs \union {NoJob}]
  /\ trigger \in BOOLEAN
  /\ timer \in Nat
  /\ pc \in {"scan", "wait", "stopped"}
  /\ shutdown \in BOOLEAN
  /\ submitted \in [Tokens -> Nat]
  /\ everCancelled \subseteq Tokens
  /\ askedAt \in [Tokens -> Nat]

-----------------------------------------------------------------------------
(* NewSessionScheduler: an empty heap and run() about to start.  The       *)
(* fields of jobs that do not exist yet are of no consequence.             *)
Init ==
  /\ now = 0
  /\ heap = {}
  /\ \E t \in Tokens : token = [j \in Jobs |-> t]
  /\ runAt = [j \in Jobs |-> 0]
  /\ canceled = [j \in Jobs |-> FALSE]
  /\ jobMap = [t \in Tokens |-> NoJob]
  /\ trigger = FALSE
  /\ timer = 0
  /\ pc = "scan"
  /\ shutdown = FALSE
  /\ submitted = [t \in Tokens |-> 0]
  /\ everCancelled = {}
  /\ askedAt = [t \in Tokens |-> 0]

(* Fault: the trigger is not sent, so run() sleeps on.                     *)
SignalFault == trigger' = trigger

(* The non-blocking send on the one-slot trigger channel.                  *)
Signal == trigger' = TRUE

(* Fault: the pending job is found but keeps its runAt.                    *)
UpdateFault(t) ==
  /\ jobMap[t] # NoJob
  /\ canceled' = [canceled EXCEPT ![jobMap[t]] = FALSE]
  /\ UNCHANGED <<heap, token, runAt, jobMap>>

(* A job for t is already in the map: it is made live again, postponed and *)
(* sifted to its new place.                                                *)
Update(t) ==
  /\ jobMap[t] # NoJob
  /\ runAt' = [runAt EXCEPT ![jobMap[t]] = now + Delay]
  /\ canceled' = [canceled EXCEPT ![jobMap[t]] = FALSE]
  /\ UNCHANGED <<heap, token, jobMap>>

(* Fault: the new job is not entered into the map.                         *)
PushUnmapped(t) ==
  /\ jobMap[t] = NoJob
  /\ \E j \in Jobs \ heap :
       /\ heap' = heap \union {j}
       /\ token' = [token EXCEPT ![j] = t]
       /\ runAt' = [runAt EXCEPT ![j] = now + Delay]
       /\ canceled' = [canceled EXCEPT ![j] = FALSE]
  /\ UNCHANGED jobMap

(* No job for t is in the map: a new one is pushed.                        *)
Push(t) ==
  /\ jobMap[t] = NoJob
  /\ \E j \in Jobs \ heap :
       /\ heap' = heap \union {j}
       /\ token' = [token EXCEPT ![j] = t]
       /\ runAt' = [runAt EXCEPT ![j] = now + Delay]
       /\ canceled' = [canceled EXCEPT ![j] = FALSE]
       /\ jobMap' = [jobMap EXCEPT ![t] = j]

(* ScheduleSessionReceipt(t).  MaxTime bounds the calls to those whose job *)
(* falls due before the clock stops.                                       *)
Schedule(t) ==
  /\ now + Delay <= MaxTime
  /\ Update(t) \/ Push(t)
  /\ Signal
  /\ askedAt' = [askedAt EXCEPT ![t] = now]
  /\ UNCHANGED <<now, timer, pc, shutdown, submitted, everCancelled>>

(* CancelSessionReceipt(t): the job, if the map has one, is marked and     *)
(* forgotten but stays in the heap; otherwise the call returns false.      *)
Cancel(t) ==
  /\ IF jobMap[t] # NoJob
       THEN /\ canceled' = [canceled EXCEPT ![jobMap[t]] = TRUE]
            /\ jobMap' = [jobMap EXCEPT ![t] = NoJob]
            /\ everCancelled' = everCancelled \union {t}
       ELSE UNCHANGED <<canceled, jobMap, everCancelled>>
  /\ UNCHANGED <<now, heap, token, runAt, trigger, timer, pc, shutdown,
                 submitted, askedAt>>

-----------------------------------------------------------------------------
(* The jobs whose runAt is not after now.                                  *)
Due == {j \in heap : runAt[j] <= now}

(* The receipts a scan starts for t: one per due job not cancelled.        *)
Live(t) == {j \in Due : token[j] = t /\ ~canceled[j]}

(* Fault: a popped job stays in the map.                                   *)
MapAfterScanFault == jobMap

(* delete(s.jobMap, job.token) for every popped job, cancelled or not.     *)
MapAfterScan ==
  [t \in Tokens |-> IF \E j \in Due : token[j] = t THEN NoJob ELSE jobMap[t]]

(* Fault: the timer is not set for the next job.                           *)
WakeTimesFault(rest) == {now + LongWait}

(* The instant the timer is reset to: when the root of the heap falls due, *)
(* or far away.                                                            *)
WakeTimes(rest) ==
  IF rest = {}
    THEN {now + LongWait}
    ELSE {runAt[j] : j \in {i \in rest : \A k \in rest : runAt[i] <= runAt[k]}}

(* run(), from Lock to Unlock: pop the due jobs, start the submission of   *)
(* the live ones, reset the timer.                                         *)
Scan ==
  /\ pc = "scan"
  /\ heap' = heap \ Due
  /\ jobMap' = MapAfterScan
  /\ submitted' = [t \in Tokens |-> submitted[t] + Cardinality(Live(t))]
  /\ timer' \in WakeTimes(heap \ Due)
  /\ pc' = "wait"
  /\ UNCHANGED <<now, token, runAt, canceled, trigger, shutdown,
                 everCancelled, askedAt>>

(* The three branches of the select.                                       *)
TimerFires ==
  /\ pc = "wait" /\ timer <= now
  /\ pc' = "scan"
  /\ UNCHANGED <<now, jobVars, trigger, timer, shutdown, history>>

TriggerReceived ==
  /\ pc = "wait" /\ trigger
  /\ trigger' = FALSE
  /\ pc' = "scan"
  /\ UNCHANGED <<now, jobVars, timer, shutdown, history>>

ShutdownReceived ==
  /\ pc = "wait" /\ shutdown
  /\ pc' = "stopped"
  /\ UNCHANGED <<now, jobVars, trigger, timer, shutdown, history>>

(* Stop closes the shutdown channel, which a second call would panic on.   *)
Stop ==
  /\ ~shutdown
  /\ shutdown' = TRUE
  /\ UNCHANGED <<now, jobVars, trigger, timer, pc, history>>

(* The clock, up to its bound.                                             *)
Tick ==
  /\ now < MaxTime
  /\ now' = now + 1
  /\ UNCHANGED <<jobVars, trigger, timer, pc, shutdown, history>>

Next ==
  \/ \E t \in Tokens : Schedule(t) \/ Cancel(t)
  \/ Scan \/ TimerFires \/ TriggerReceived \/ ShutdownReceived
  \/ Stop \/ Tick

Spec == Init /\ [][Next]_vars

(* run() is a goroutine the Go runtime schedules, and time passes; nobody  *)
(* is obliged to call Schedule, Cancel or Stop.                            *)
Fairness ==
  WF_vars(Scan) /\ WF_vars(TimerFires) /\ WF_vars(TriggerReceived)
    /\ WF_vars(Tick)

FairSpec == Spec /\ Fairness

-----------------------------------------------------------------------------
(* A job found through the map is one that is still in the heap, for that  *)
(* token and live: heap.Fix never gets the index of a popped job, and a    *)
(* rescheduled receipt really is waiting (ScheduleSessionReceipt against   *)
(* the pops and deletes of run).                                           *)
MapPointsIntoHeap ==
  \A t \in Tokens : jobMap[t] # NoJob =>
    /\ jobMap[t] \in heap
    /\ token[jobMap[t]] = t
    /\ ~canceled[jobMap[t]]

(* While run() sleeps, either a trigger is waiting for it or its timer     *)
(* fires no later than any job falls due: a job pushed between the scan    *)
(* and the select, or brought forward, is not slept over.                  *)
NoOversleep ==
  pc = "wait" => trigger \/ \A j \in heap : timer <= runAt[j]

(* As long as no receipt of a token was ever cancelled, each of its jobs   *)
(* is the one the map finds: a token has at most one pending receipt, and  *)
(* that one can be postponed and cancelled.                                *)
TrackedUnlessCancelled ==
  \A j \in heap : token[j] \in everCancelled \/ jobMap[token[j]] = j

(* The receipt of a token never cancelled is started only when Delay has   *)
(* passed since the last request for it: a request while a job is pending  *)
(* postpones that job (the update branch of ScheduleSessionReceipt).       *)
PostponedByReschedule ==
  [][\A t \in Tokens :
       submitted'[t] > submitted[t] /\ t \notin everCancelled
         => now >= askedAt[t] + Delay]_vars

(* A job in the heap does not stay there for ever unless the scheduler is  *)
(* stopped: run() reaches it (Stop drops what is pending).                 *)
PendingIsSettled ==
  \A j \in Jobs : j \in heap ~> (j \notin heap \/ shutdown)
=============================================================================
