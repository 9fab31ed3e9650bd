------------------------ MODULE MonitorRegistry_proofs ------------------------
(***************************************************************************)
(* Safety of MonitorRegistry for every set of tasks and any number of      *)
(* monitor goroutines.                                                     *)
(***************************************************************************)
EXTENDS MonitorRegistry, FiniteSetTheorems, TLAPS

(* The goroutines that live until the monitor is stopped.                  *)
Lasting == {g \in Goroutines : Alive(g) /\ parent[g] = Background}

OneLasting == \A g, h \in Lasting : g = h

(* Until Start is through there is no such goroutine and the checker has   *)
(* not begun.                                                              *)
StartFirst == starter # "up" => pc[checker] = "new" /\ Lasting = {}

(* While the monitor runs its entry is never taken back: without one there *)
(* has not been any goroutine.                                             *)
EntryStays == entry = None /\ running => Lasting = {}

(* The checker goes on to register only what has no lasting goroutine; if  *)
(* the monitor is stopped before it asks whether it runs, it turns back.   *)
CheckerSure ==
  /\ pc[checker] = "register" /\ running => Lasting = {}
  /\ pc[checker] \in {"mark", "launch"} => Lasting = {}

(* A goroutine on the context of a task was registered by its handler, and *)
(* the context of a handler that returned is done.                         *)
TaskContext ==
  /\ \A g \in Goroutines : parent[g] \in Tasks => pc[parent[g]] # "new"
  /\ \A t \in Tasks : pc[t] = "returned" => t \in ctxDone

(* The inductive invariant.                                                *)
IInv ==
  /\ TypeOK /\ FlagHasOwner /\ OneLasting
  /\ StartFirst /\ EntryStays /\ CheckerSure /\ TaskContext

USE ConstantsAssumption

-----------------------------------------------------------------------------
LEMMA InitIInv == Init => IInv
<1> SUFFICES ASSUME Init
             PROVE  IInv
  OBVIOUS
<1> USE DEF Init
<1>1. TypeOK
  BY DEF TypeOK, Actors
<1>2. Lasting = {}
  BY DEF Lasting, Alive
<1>3. TaskContext
  BY DEF TaskContext, Actors
<1> QED
  BY <1>1, <1>2, <1>3 DEF IInv, FlagHasOwner, OneLasting, StartFirst, EntryStays,
     CheckerSure, Actors

-----------------------------------------------------------------------------
(* Type correctness, action by action.                                     *)
LEMMA StarterType == TypeOK /\ (Store \/ Starter \/ Stop) => TypeOK'
<1> SUFFICES ASSUME TypeOK, Store \/ Starter \/ Stop
             PROVE  TypeOK'
  OBVIOUS
<1> USE DEF TypeOK, maps, goroutines, tasks, Actors
<1>1. CASE Store
  BY <1>1 DEF Store
<1>2. CASE StartBegin \/ StartListFails \/ StartList \/ StartMark
  BY <1>2 DEF StartBegin, StartListFails, StartList, StartMark
<1>3. CASE StartLaunch
  BY <1>3 DEF StartLaunch, Launch, Unused
<1>4. CASE Stop
  BY <1>4 DEF Stop
<1> QED
  BY <1>1, <1>2, <1>3, <1>4 DEF Starter

LEMMA RegisterType == ASSUME TypeOK, NEW a \in Actors, Register(a) PROVE TypeOK'
<1> USE DEF TypeOK, maps, goroutines, tasks, Actors, Goto
<1>1. CASE RegisterRunning(a)
  BY <1>1 DEF RegisterRunning, AfterRegister
<1>2. CASE RegisterMark(a)
  BY <1>2 DEF RegisterMark
<1>3. CASE RegisterLaunch(a)
  BY <1>3 DEF RegisterLaunch, Launch, Unused, ContextOf, AfterRegister
<1> QED
  BY <1>1, <1>2, <1>3 DEF Register

LEMMA CheckerType == TypeOK /\ (Checker \/ LogBegins \/ LogEnds) => TypeOK'
<1> SUFFICES ASSUME TypeOK, Checker \/ LogBegins \/ LogEnds
             PROVE  TypeOK'
  OBVIOUS
<1>1. CASE Register(checker)
  BY <1>1, RegisterType DEF Actors
<1> USE DEF TypeOK, maps, goroutines, tasks, Actors, Goto
<1>2. CASE CheckerEnds \/ CheckerFinds \/ CheckerLooksUp
  BY <1>2 DEF CheckerEnds, CheckerFinds, CheckerLooksUp
<1>3. CASE LogBegins \/ LogEnds
  BY <1>3 DEF LogBegins, LogEnds
<1> QED
  BY <1>1, <1>2, <1>3 DEF Checker

LEMMA TaskType ==
  ASSUME TypeOK, NEW t \in Tasks,
         Deliver(t) \/ TaskTimesOut(t) \/ Handler(t) \/ Backfill(t)
  PROVE  TypeOK'
<1>1. CASE Register(t)
  BY <1>1, RegisterType DEF Actors
<1> USE DEF TypeOK, maps, goroutines, tasks, Actors, Goto, Return,
        MarkContractBackfilling, MarkContractBackfillComplete
<1>2. CASE Deliver(t) \/ TaskTimesOut(t) \/ IsBackfilling(t) \/ IsReady(t)
  BY <1>2 DEF Deliver, TaskTimesOut, IsBackfilling, IsReady
<1>3. CASE MarkBackfilling(t) \/ HandlerReturns(t) \/ HandlerCancelled(t)
  BY <1>3 DEF MarkBackfilling, HandlerReturns, HandlerCancelled
<1>4. CASE BackfillCloses(t) \/ BackfillMarks(t)
  BY <1>4 DEF BackfillCloses, BackfillMarks
<1> QED
  BY <1>1, <1>2, <1>3, <1>4 DEF Handler, Backfill

LEMMA MonitoringType == ASSUME TypeOK, NEW g \in Goroutines, Monitoring(g) PROVE TypeOK'
  BY DEF TypeOK, maps, goroutines, tasks, Monitoring, ProbeOK, ProbeFails, ContextDone, Ends

LEMMA TypeStep == TypeOK /\ [Next]_vars => TypeOK'
<1>1. TypeOK /\ UNCHANGED vars => TypeOK'
  BY DEF TypeOK, vars, maps, goroutines, tasks
<1> QED
  BY <1>1, StarterType, CheckerType, TaskType, MonitoringType DEF Next

-----------------------------------------------------------------------------
(* The flag is set together with the listener, and whoever marks the end   *)
(* clears it.                                                              *)
LEMMA FlagStep == TypeOK /\ FlagHasOwner /\ [Next]_vars => FlagHasOwner'
<1> SUFFICES ASSUME TypeOK, FlagHasOwner, [Next]_vars
             PROVE  FlagHasOwner'
  OBVIOUS
<1> USE DEF FlagHasOwner, maps, goroutines, tasks
<1>1. ASSUME UNCHANGED <<backfilling, listener>>
      PROVE  FlagHasOwner'
  BY <1>1
<1>2. ASSUME backfilling' = FALSE
      PROVE  FlagHasOwner'
  BY <1>2
<1>3. CASE Store \/ Starter \/ LogBegins \/ LogEnds
  BY <1>1, <1>3 DEF Store, Starter, StartBegin, StartListFails, StartList, StartMark,
     StartLaunch, LogBegins, LogEnds
<1>4. CASE Stop
  BY <1>2, <1>4 DEF Stop
<1>5. ASSUME NEW a \in Actors, Register(a)
      PROVE  FlagHasOwner'
  BY <1>1, <1>5 DEF Register, RegisterRunning, RegisterMark, RegisterLaunch
<1>6. CASE Checker
  BY <1>1, <1>5, <1>6 DEF Checker, Actors, CheckerEnds, CheckerFinds, CheckerLooksUp
<1>7. ASSUME NEW t \in Tasks, Deliver(t) \/ TaskTimesOut(t) \/ Handler(t) \/ Backfill(t)
      PROVE  FlagHasOwner'
  <2>1. CASE Deliver(t) \/ TaskTimesOut(t) \/ IsBackfilling(t) \/ IsReady(t)
             \/ HandlerReturns(t)
    BY <1>1, <2>1 DEF Deliver, TaskTimesOut, IsBackfilling, IsReady, HandlerReturns
  <2>2. CASE MarkBackfilling(t)
    BY <2>2 DEF MarkBackfilling, TypeOK
  <2>3. CASE HandlerCancelled(t) \/ BackfillMarks(t)
    BY <1>2, <2>3 DEF HandlerCancelled, BackfillMarks, MarkContractBackfillComplete
  <2>4. CASE BackfillCloses(t)
    BY <2>4 DEF BackfillCloses, TypeOK
  <2> QED
    BY <1>5, <1>7, <2>1, <2>2, <2>3, <2>4 DEF Handler, Backfill, Actors
<1>8. ASSUME NEW g \in Goroutines, Monitoring(g)
      PROVE  FlagHasOwner'
  BY <1>1, <1>8 DEF Monitoring, ProbeOK, ProbeFails, ContextDone, Ends
<1>9. CASE UNCHANGED vars
  BY <1>1, <1>9 DEF vars
<1> QED
  BY <1>3, <1>4, <1>6, <1>7, <1>8, <1>9 DEF Next

-----------------------------------------------------------------------------
(* What is said of the goroutines that last.                               *)
LastInv == OneLasting /\ StartFirst /\ EntryStays /\ CheckerSure

(* A step that starts no lasting goroutine, leaves the monitor as it is or *)
(* stopped, takes no entry back while it runs, and does not move the       *)
(* checker.                                                                *)
LEMMA QuietLast ==
  ASSUME LastInv,
         Lasting' \subseteq Lasting,
         running' => running,
         entry' = None /\ running' => entry = None,
         starter' = starter, pc'[checker] = pc[checker]
  PROVE  LastInv'
BY DEF LastInv, OneLasting, StartFirst, EntryStays, CheckerSure

(* A launch adds at most the goroutine it starts, and nothing when the     *)
(* context is that of a task.                                              *)
LEMMA LaunchLast ==
  ASSUME TypeOK, NEW ctx \in Tasks \union {Background}, Launch(ctx)
  PROVE  \E g \in Goroutines :
           /\ entry' = g /\ entry' # None
           /\ Lasting' \subseteq Lasting \union {g}
           /\ ctx # Background => Lasting' \subseteq Lasting
<1> PICK g \in Unused : /\ goroutine' = [goroutine EXCEPT ![g] = "probe"]
                        /\ parent' = [parent EXCEPT ![g] = ctx]
                        /\ entry' = g
  BY DEF Launch
<1>1. g \in Goroutines /\ entry' # None
  BY DEF Unused
<1>2. \A h \in Goroutines \ {g} : goroutine'[h] = goroutine[h] /\ parent'[h] = parent[h]
  BY DEF TypeOK
<1>3. parent'[g] = ctx
  BY <1>1 DEF TypeOK
<1> QED
  BY <1>1, <1>2, <1>3 DEF Lasting, Alive

LEMMA StarterLast == TypeOK /\ LastInv /\ (Store \/ Starter \/ Stop) => LastInv'
<1> SUFFICES ASSUME TypeOK, LastInv, Store \/ Starter \/ Stop
             PROVE  LastInv'
  OBVIOUS
<1> USE DEF maps, goroutines, tasks
<1>1. CASE Store
  BY <1>1, QuietLast DEF Store, Lasting, Alive
<1>2. CASE StartBegin \/ StartListFails \/ StartMark
  <2>1. Lasting' = Lasting /\ Lasting = {} /\ pc' = pc /\ pc[checker] = "new"
    BY <1>2 DEF StartBegin, StartListFails, StartMark, Lasting, Alive, LastInv, StartFirst
  <2> QED
    BY <2>1 DEF LastInv, OneLasting, StartFirst, EntryStays, CheckerSure
<1>3. CASE StartList
  <2>1. Lasting' = Lasting /\ Lasting = {} /\ pc[checker] = "new"
    BY <1>3 DEF StartList, Lasting, Alive, LastInv, StartFirst
  <2>2. IF stored THEN starter' = "mark" /\ pc' = pc
                  ELSE starter' = "up" /\ pc'[checker] = "tick"
    BY <1>3 DEF StartList, TypeOK, Actors
  <2> QED
    BY <2>1, <2>2 DEF LastInv, OneLasting, StartFirst, EntryStays, CheckerSure
<1>4. CASE StartLaunch
  <2>1. Lasting = {} /\ Launch(Background)
    BY <1>4 DEF StartLaunch, LastInv, StartFirst
  <2>2. PICK g \in Goroutines : entry' # None /\ Lasting' \subseteq {g}
    BY <2>1, LaunchLast
  <2>3. starter' = "up" /\ pc'[checker] = "tick"
    BY <1>4 DEF StartLaunch, TypeOK, Actors
  <2> QED
    BY <2>2, <2>3 DEF LastInv, OneLasting, StartFirst, EntryStays, CheckerSure
<1>5. CASE Stop
  BY <1>5, QuietLast DEF Stop, Lasting, Alive
<1> QED
  BY <1>1, <1>2, <1>3, <1>4, <1>5 DEF Starter

LEMMA CheckerLast == TypeOK /\ LastInv /\ Checker => LastInv'
<1> SUFFICES ASSUME TypeOK, LastInv, Checker
             PROVE  LastInv'
  OBVIOUS
<1> USE DEF maps, goroutines, tasks, Goto, TypeOK, Actors
<1>1. starter' = starter /\ running' = running
  BY DEF Checker, Register, CheckerEnds, CheckerFinds, CheckerLooksUp, RegisterRunning,
     RegisterMark, RegisterLaunch
<1>2. pc[checker] # "new" /\ starter = "up"
  BY DEF Checker, Register, CheckerEnds, CheckerFinds, CheckerLooksUp, RegisterRunning,
     RegisterMark, RegisterLaunch, LastInv, StartFirst
<1>3. ASSUME UNCHANGED <<entry, goroutine, parent>>,
             pc'[checker] \in {"mark", "launch"} => Lasting = {},
             pc'[checker] = "register" /\ running => Lasting = {}
      PROVE  LastInv'
  <2>1. Lasting' = Lasting
    BY <1>3 DEF Lasting, Alive
  <2> QED
    BY <1>1, <1>2, <1>3, <2>1 DEF LastInv, OneLasting, StartFirst, EntryStays, CheckerSure
<1>4. CASE CheckerEnds \/ CheckerFinds
  BY <1>3, <1>4 DEF CheckerEnds, CheckerFinds
<1>5. CASE CheckerLooksUp
  BY <1>3, <1>5 DEF CheckerLooksUp, LastInv, EntryStays
<1>6. CASE RegisterRunning(checker)
  BY <1>3, <1>6 DEF RegisterRunning, AfterRegister, LastInv, CheckerSure
<1>7. CASE RegisterMark(checker)
  BY <1>3, <1>7 DEF RegisterMark, LastInv, CheckerSure
<1>8. CASE RegisterLaunch(checker)
  <2>1. Lasting = {} /\ Launch(Background)
    BY <1>8 DEF RegisterLaunch, LastInv, CheckerSure, ContextOf
  <2>2. PICK g \in Goroutines : entry' # None /\ Lasting' \subseteq {g}
    BY <2>1, LaunchLast
  <2>3. pc'[checker] = "tick"
    BY <1>8 DEF RegisterLaunch, AfterRegister
  <2> QED
    BY <1>1, <1>2, <2>2, <2>3 DEF LastInv, OneLasting, StartFirst, EntryStays, CheckerSure
<1> QED
  BY <1>4, <1>5, <1>6, <1>7, <1>8 DEF Checker, Register

LEMMA TaskLast ==
  ASSUME TypeOK, LastInv, NEW t \in Tasks,
         Deliver(t) \/ TaskTimesOut(t) \/ Handler(t) \/ Backfill(t)
  PROVE  LastInv'
<1> USE DEF maps, goroutines, tasks, Goto, Return
<1>1. starter' = starter /\ running' = running /\ pc'[checker] = pc[checker]
  BY DEF Deliver, TaskTimesOut, Handler, Backfill, IsBackfilling, IsReady, Register,
     RegisterRunning, RegisterMark, RegisterLaunch, MarkBackfilling, HandlerReturns,
     HandlerCancelled, BackfillCloses, BackfillMarks, TypeOK, Actors
<1>2. CASE RegisterLaunch(t)
  <2>1. Launch(t) /\ t # Background
    BY <1>2 DEF RegisterLaunch, ContextOf
  <2>2. entry' # None /\ Lasting' \subseteq Lasting
    BY <2>1, LaunchLast
  <2> QED
    BY <1>1, <2>2, QuietLast
<1>3. CASE ~RegisterLaunch(t)
  <2>1. UNCHANGED <<entry, goroutine, parent>>
    BY <1>3 DEF Deliver, TaskTimesOut, Handler, Backfill, IsBackfilling, IsReady, Register,
       RegisterRunning, RegisterMark, MarkBackfilling, HandlerReturns,
       HandlerCancelled, BackfillCloses, BackfillMarks
  <2>2. Lasting' = Lasting
    BY <2>1 DEF Lasting, Alive
  <2> QED
    BY <1>1, <2>1, <2>2, QuietLast
<1> QED
  BY <1>2, <1>3

LEMMA MonitoringLast ==
  ASSUME TypeOK, LastInv, NEW g \in Goroutines, Monitoring(g)
  PROVE  LastInv'
<1> USE DEF maps, goroutines, tasks
<1>1. UNCHANGED <<starter, running, entry, pc>>
  BY DEF Monitoring, ProbeOK, ProbeFails, ContextDone, Ends
<1>2. \A h \in Goroutines \ {g} : goroutine'[h] = goroutine[h] /\ parent'[h] = parent[h]
  BY DEF Monitoring, ProbeOK, ProbeFails, ContextDone, Ends, TypeOK
<1>3. goroutine'[g] \in {"failed", "ended"} \/ (Alive(g) /\ parent' = parent)
  BY DEF Monitoring, ProbeOK, ProbeFails, ContextDone, Ends, TypeOK, Alive
<1>4. Lasting' \subseteq Lasting
  BY <1>2, <1>3 DEF Lasting, Alive
<1> QED
  BY <1>1, <1>4, QuietLast

LEMMA LastStep == TypeOK /\ LastInv /\ [Next]_vars => LastInv'
<1>1. TypeOK /\ LastInv /\ (LogBegins \/ LogEnds \/ UNCHANGED vars) => LastInv'
  BY QuietLast DEF LogBegins, LogEnds, vars, maps, goroutines, tasks, Lasting, Alive
<1> QED
  BY <1>1, StarterLast, CheckerLast, TaskLast, MonitoringLast DEF Next

-----------------------------------------------------------------------------
(* A step that derives no context from a task keeps what is said of tasks  *)
(* when it takes none back to the start and ends the context of each that  *)
(* returns.                                                                *)
LEMMA QuietContext ==
  ASSUME TypeOK, TaskContext,
         \A g \in Goroutines : parent'[g] \in Tasks => parent'[g] = parent[g],
         \A t \in Tasks : pc[t] # "new" => pc'[t] # "new",
         \A t \in Tasks : pc'[t] = "returned" => pc[t] = "returned" \/ t \in ctxDone',
         ctxDone \subseteq ctxDone'
  PROVE  TaskContext'
BY DEF TaskContext

LEMMA ContextStep == TypeOK /\ TaskContext /\ [Next]_vars => TaskContext'
<1> SUFFICES ASSUME TypeOK, TaskContext, [Next]_vars
             PROVE  TaskContext'
  OBVIOUS
<1> USE DEF maps, goroutines, tasks, Goto, TypeOK, Actors
<1>1. CASE Store \/ Stop \/ LogBegins \/ LogEnds
  BY <1>1, QuietContext DEF Store, Stop, LogBegins, LogEnds
<1>2. CASE Starter
  <2>1. \A t \in Tasks : pc'[t] = pc[t]
    BY <1>2 DEF Starter, StartBegin, StartListFails, StartList, StartMark, StartLaunch
  <2>2. \A g \in Goroutines : parent'[g] \in {parent[g], Background}
    BY <1>2 DEF Starter, StartBegin, StartListFails, StartList, StartMark, StartLaunch, Launch,
       Unused
  <2>3. ctxDone' = ctxDone
    BY <1>2 DEF Starter, StartBegin, StartListFails, StartList, StartMark, StartLaunch
  <2> QED
    BY <2>1, <2>2, <2>3, QuietContext
<1>3. CASE Checker
  <2>1. \A t \in Tasks : pc'[t] = pc[t]
    BY <1>3 DEF Checker, CheckerEnds, CheckerFinds, CheckerLooksUp, Register,
       RegisterRunning, RegisterMark, RegisterLaunch
  <2>2. \A g \in Goroutines : parent'[g] \in {parent[g], Background}
    BY <1>3 DEF Checker, CheckerEnds, CheckerFinds, CheckerLooksUp, Register,
       RegisterRunning, RegisterMark, RegisterLaunch, Launch, Unused, ContextOf
  <2>3. ctxDone' = ctxDone
    BY <1>3 DEF Checker, CheckerEnds, CheckerFinds, CheckerLooksUp, Register,
       RegisterRunning, RegisterMark, RegisterLaunch
  <2> QED
    BY <2>1, <2>2, <2>3, QuietContext
<1>4. ASSUME NEW t \in Tasks, Deliver(t) \/ TaskTimesOut(t) \/ Handler(t) \/ Backfill(t)
      PROVE  TaskContext'
  <2> USE <1>4 DEF Return
  <2>1. CASE RegisterLaunch(t)
    <3>1. Launch(t) /\ pc[t] = "launch" /\ pc'[t] = "flag" /\ ctxDone' = ctxDone
      BY <2>1 DEF RegisterLaunch, ContextOf, AfterRegister
    <3>2. \A u \in Tasks \ {t} : pc'[u] = pc[u]
      BY <2>1 DEF RegisterLaunch
    <3>3. \A g \in Goroutines : parent'[g] \in {parent[g], t}
      BY <3>1 DEF Launch, Unused
    <3> QED
      BY <3>1, <3>2, <3>3 DEF TaskContext
  <2>2. CASE Deliver(t) \/ IsBackfilling(t) \/ IsReady(t) \/ RegisterRunning(t)
             \/ RegisterMark(t) \/ TaskTimesOut(t)
    BY <2>2, QuietContext DEF Deliver, IsBackfilling, IsReady, RegisterRunning, RegisterMark,
       TaskTimesOut, AfterRegister
  <2>3. CASE MarkBackfilling(t) \/ HandlerReturns(t) \/ HandlerCancelled(t)
             \/ BackfillCloses(t) \/ BackfillMarks(t)
    BY <2>3, QuietContext DEF MarkBackfilling, HandlerReturns, HandlerCancelled, BackfillCloses,
       BackfillMarks
  <2> QED
    BY <2>1, <2>2, <2>3 DEF Handler, Backfill, Register
<1>5. ASSUME NEW g \in Goroutines, Monitoring(g)
      PROVE  TaskContext'
  <2>1. \A h \in Goroutines : parent'[h] \in {parent[h], Background}
    BY <1>5 DEF Monitoring, ProbeOK, ProbeFails, ContextDone, Ends
  <2>2. pc' = pc /\ ctxDone' = ctxDone
    BY <1>5 DEF Monitoring, ProbeOK, ProbeFails, ContextDone, Ends
  <2> QED
    BY <2>1, <2>2, QuietContext
<1>6. CASE UNCHANGED vars
  BY <1>6, QuietContext DEF vars
<1> QED
  BY <1>1, <1>2, <1>3, <1>4, <1>5, <1>6 DEF Next

-----------------------------------------------------------------------------
(* The inductive invariant of the registry.                                *)
THEOREM Invariance == Spec => []IInv
<1>1. IInv /\ [Next]_vars => IInv'
  BY TypeStep, FlagStep, LastStep, ContextStep DEF IInv, LastInv
<1> QED
  BY InitIInv, <1>1, PTL DEF Spec

(* Start, the checker, the handlers and the monitor goroutines keep their  *)
(* places and the maps well formed: m.monitors names a goroutine that was  *)
(* started.                                                                *)
THEOREM TypeCorrect == Spec => []TypeOK
<1>1. IInv => TypeOK
  BY DEF IInv
<1> QED
  BY <1>1, Invariance, PTL

(* The backfilling flag never outlives the backfills that set it           *)
(* (MarkContractBackfilling and MarkContractBackfillComplete), for any     *)
(* number of tasks that overlap or time out.                               *)
THEOREM FlagOwned == Spec => []FlagHasOwner
<1>1. IInv => FlagHasOwner
  BY DEF IInv
<1> QED
  BY <1>1, Invariance, PTL

(* A set whose elements are all the same has at most one.                  *)
LEMMA AtMostOne ==
  ASSUME NEW S, \A x, y \in S : x = y
  PROVE  Cardinality(S) <= 1
<1>1. CASE S = {}
  BY <1>1, FS_EmptySet
<1>2. CASE S # {}
  <2>1. PICK x : x \in S
    BY <1>2
  <2>2. S = {x}
    BY <2>1
  <2> QED
    BY <2>2, FS_Singleton
<1> QED
  BY <1>1, <1>2

(* RegisterContract and Start never leave two goroutines that last: the    *)
(* checker registers only a contract without an entry, no entry is taken   *)
(* back while the monitor runs, and the goroutines registered by tasks end *)
(* with them.                                                              *)
THEOREM SingleMonitor == Spec => []NoDoubleMonitoring
<1>1. IInv => NoDoubleMonitoring
  <2> SUFFICES ASSUME IInv
               PROVE  NoDoubleMonitoring
    OBVIOUS
  <2> USE DEF IInv
  <2>1. Cardinality({g \in Goroutines : Alive(g) /\ parent[g] = Background}) <= 1
    BY AtMostOne DEF OneLasting, Lasting
  <2>2. ASSUME \A t \in Tasks : pc[t] \in {"new", "returned"}
        PROVE  Cardinality({g \in Goroutines :
                  Alive(g) /\ g \notin canceled /\ parent[g] \notin ctxDone}) <= 1
    <3> DEFINE Told == {g \in Goroutines :
                  Alive(g) /\ g \notin canceled /\ parent[g] \notin ctxDone}
    <3>1. \A g \in Told : g \in Lasting
      BY <2>2 DEF TaskContext, TypeOK, Lasting
    <3>2. \A g, h \in Told : g = h
      BY <3>1 DEF OneLasting
    <3> HIDE DEF Told
    <3>3. Cardinality(Told) <= 1
      BY <3>2, AtMostOne
    <3> QED
      BY <3>3 DEF Told
  <2> QED
    BY <2>1, <2>2 DEF NoDoubleMonitoring
<1> QED
  BY <1>1, Invariance, PTL
=============================================================================
