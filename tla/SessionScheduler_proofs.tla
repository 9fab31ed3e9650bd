---------------------- MODULE SessionScheduler_proofs ----------------------
(***************************************************************************)
(* Safety of SessionScheduler for every set of tokens, finite set of job   *)
(* identities, delay and clock bound.                                      *)
(***************************************************************************)
EXTENDS SessionScheduler, FiniteSetTheorems, TLAPS

(* The pending receipt of a token never cancelled is due Delay after the   *)
(* last request for it: what links runAt to the calls.                     *)
DueWhenAsked ==
  \A t \in Tokens \ everCancelled :
    jobMap[t] # NoJob => runAt[jobMap[t]] = askedAt[t] + Delay

(* The inductive invariant.                                                *)
IInv ==
  /\ TypeOK
  /\ MapPointsIntoHeap
  /\ NoOversleep
  /\ TrackedUnlessCancelled
  /\ DueWhenAsked

-----------------------------------------------------------------------------
(* What a scan starts for a token is a finite number of receipts, and none *)
(* where no due job of it is live (the inner loop of run).                 *)
LEMMA LiveCount ==
  ASSUME TypeOK, NEW t \in Tokens
  PROVE  /\ Cardinality(Live(t)) \in Nat
         /\ Live(t) = {} => Cardinality(Live(t)) = 0
<1>1. Live(t) \subseteq Jobs
  BY DEF Live, Due, TypeOK
<1>2. IsFiniteSet(Live(t))
  BY <1>1, ConstantsAssumption, FS_Subset
<1> QED
  BY <1>2, FS_CardinalityType, FS_EmptySet

(* The timer is reset to a natural instant no later than any job left.     *)
LEMMA WakeIsEarliest ==
  ASSUME TypeOK, NEW rest \in SUBSET Jobs, NEW w \in WakeTimes(rest)
  PROVE  w \in Nat /\ \A j \in rest : w <= runAt[j]
<1>1. CASE rest = {}
  BY <1>1, ConstantsAssumption DEF WakeTimes, TypeOK
<1>2. CASE rest # {}
  BY <1>2 DEF WakeTimes, TypeOK
<1> QED
  BY <1>1, <1>2

-----------------------------------------------------------------------------
LEMMA InitIInv == Init => IInv
<1> SUFFICES ASSUME Init PROVE IInv
  OBVIOUS
<1>1. PICK t \in Tokens : token = [j \in Jobs |-> t]
  BY DEF Init
<1>2. TypeOK
  BY <1>1 DEF Init, TypeOK
<1> QED
  BY <1>2
  DEF Init, IInv, MapPointsIntoHeap, NoOversleep, TrackedUnlessCancelled,
      DueWhenAsked

(* A call that finds a job in the map (first branch of                     *)
(* ScheduleSessionReceipt).                                                *)
LEMMA UpdateIInv ==
  ASSUME IInv, NEW t \in Tokens, Schedule(t), Update(t)
  PROVE  IInv'
<1> DEFINE j == jobMap[t]
<1>0. /\ j \in heap /\ token[j] = t /\ j \in Jobs
      /\ now + Delay \in Nat
  BY ConstantsAssumption DEF IInv, Update, MapPointsIntoHeap, TypeOK
<1>1. TypeOK'
  BY <1>0 DEF IInv, TypeOK, Schedule, Update, Signal
<1>2. MapPointsIntoHeap'
  BY <1>0 DEF IInv, TypeOK, MapPointsIntoHeap, Schedule, Update
<1>3. NoOversleep'
  BY DEF NoOversleep, Schedule, Signal
<1>4. TrackedUnlessCancelled'
  BY DEF IInv, TrackedUnlessCancelled, Schedule, Update
<1>5. DueWhenAsked'
  <2> SUFFICES ASSUME NEW u \in Tokens, u \notin everCancelled, jobMap[u] # NoJob
               PROVE  runAt'[jobMap[u]] = askedAt'[u] + Delay
    BY DEF DueWhenAsked, Schedule, Update
  <2>1. CASE u = t
    BY <2>1, <1>0 DEF IInv, TypeOK, Schedule, Update
  <2>2. CASE u # t
    <3>1. jobMap[u] # j
      BY <2>2, <1>0 DEF IInv, MapPointsIntoHeap
    <3> QED
      BY <2>2, <3>1, <1>0
      DEF IInv, TypeOK, DueWhenAsked, MapPointsIntoHeap, Schedule, Update
  <2> QED
    BY <2>1, <2>2
<1> QED
  BY <1>1, <1>2, <1>3, <1>4, <1>5 DEF IInv

(* A call that pushes a new job (second branch).                           *)
LEMMA PushIInv ==
  ASSUME IInv, NEW t \in Tokens, Schedule(t), Push(t)
  PROVE  IInv'
<1>0. PICK j \in Jobs \ heap :
        /\ heap' = heap \union {j}
        /\ token' = [token EXCEPT ![j] = t]
        /\ runAt' = [runAt EXCEPT ![j] = now + Delay]
        /\ canceled' = [canceled EXCEPT ![j] = FALSE]
        /\ jobMap' = [jobMap EXCEPT ![t] = j]
  BY DEF Push
<1>a. now + Delay \in Nat
  BY ConstantsAssumption DEF IInv, TypeOK
<1>b. \A u \in Tokens : jobMap[u] # j
  BY <1>0, ConstantsAssumption DEF IInv, MapPointsIntoHeap
<1>1. TypeOK'
  BY <1>0, <1>a DEF IInv, TypeOK, Schedule, Signal
<1>2. MapPointsIntoHeap'
  BY <1>0, <1>b DEF IInv, TypeOK, MapPointsIntoHeap
<1>3. NoOversleep'
  BY DEF NoOversleep, Schedule, Signal
<1>4. TrackedUnlessCancelled'
  <2> SUFFICES ASSUME NEW i \in heap', token'[i] \notin everCancelled
               PROVE  jobMap'[token'[i]] = i
    <3>1. everCancelled' = everCancelled
      BY DEF Schedule
    <3> QED
      BY <3>1 DEF TrackedUnlessCancelled
  <2>1. CASE i = j
    BY <2>1, <1>0 DEF IInv, TypeOK
  <2>2. CASE i # j
    <3>1. i \in heap /\ i \in Jobs /\ token'[i] = token[i]
      BY <2>2, <1>0 DEF IInv, TypeOK
    <3>2. jobMap[token[i]] = i
      BY <3>1 DEF TrackedUnlessCancelled, IInv
    <3>3. token[i] # t
      BY <3>1, <3>2, ConstantsAssumption DEF Push
    <3> QED
      BY <3>1, <3>2, <3>3, <1>0 DEF IInv, TypeOK
  <2> QED
    BY <2>1, <2>2
<1>5. DueWhenAsked'
  <2> SUFFICES ASSUME NEW u \in Tokens, u \notin everCancelled, jobMap'[u] # NoJob
               PROVE  runAt'[jobMap'[u]] = askedAt'[u] + Delay
    BY DEF DueWhenAsked, Schedule
  <2>1. CASE u = t
    BY <2>1, <1>0 DEF IInv, TypeOK, Schedule
  <2>2. CASE u # t
    BY <2>2, <1>0, <1>b
    DEF IInv, TypeOK, DueWhenAsked, MapPointsIntoHeap, Schedule
  <2> QED
    BY <2>1, <2>2
<1> QED
  BY <1>1, <1>2, <1>3, <1>4, <1>5 DEF IInv

LEMMA CancelIInv ==
  ASSUME IInv, NEW t \in Tokens, Cancel(t)
  PROVE  IInv'
<1>1. TypeOK'
  BY DEF IInv, TypeOK, Cancel
<1>2. MapPointsIntoHeap'
  BY DEF IInv, TypeOK, MapPointsIntoHeap, Cancel
<1>3. NoOversleep'
  BY DEF IInv, NoOversleep, Cancel
<1>4. TrackedUnlessCancelled'
  BY DEF IInv, TypeOK, TrackedUnlessCancelled, Cancel
<1>5. DueWhenAsked'
  BY DEF IInv, TypeOK, DueWhenAsked, Cancel
<1> QED
  BY <1>1, <1>2, <1>3, <1>4, <1>5 DEF IInv

LEMMA ScanIInv ==
  ASSUME IInv, Scan
  PROVE  IInv'
<1>0. Due \subseteq heap /\ heap \subseteq Jobs
  BY DEF Due, IInv, TypeOK
<1>1. timer' \in Nat /\ \A j \in heap' : timer' <= runAt[j]
  BY <1>0, WakeIsEarliest DEF IInv, Scan
<1>2. TypeOK'
  <2>1. submitted' \in [Tokens -> Nat]
    BY LiveCount DEF IInv, TypeOK, Scan
  <2>2. jobMap' \in [Tokens -> Jobs \union {NoJob}]
    BY DEF IInv, TypeOK, Scan, MapAfterScan
  <2> QED
    BY <1>0, <1>1, <2>1, <2>2 DEF IInv, TypeOK, Scan
<1>3. MapPointsIntoHeap'
  BY <1>0 DEF IInv, TypeOK, MapPointsIntoHeap, Scan, MapAfterScan
<1>4. NoOversleep'
  BY <1>1 DEF NoOversleep, Scan
<1>5. TrackedUnlessCancelled'
  <2> SUFFICES ASSUME NEW i \in heap \ Due, token[i] \notin everCancelled
               PROVE  jobMap'[token[i]] = i
    BY DEF TrackedUnlessCancelled, Scan
  <2>1. jobMap[token[i]] = i /\ token[i] \in Tokens
    BY <1>0 DEF IInv, TypeOK, TrackedUnlessCancelled
  <2>2. ~\E j \in Due : token[j] = token[i]
    BY <1>0, <2>1 DEF IInv, TrackedUnlessCancelled
  <2> QED
    BY <2>1, <2>2 DEF Scan, MapAfterScan
<1>6. DueWhenAsked'
  BY DEF IInv, TypeOK, DueWhenAsked, Scan, MapAfterScan
<1> QED
  BY <1>2, <1>3, <1>4, <1>5, <1>6 DEF IInv

(* The steps that move no job: the select's branches, Stop and the clock.  *)
LEMMA OtherIInv ==
  ASSUME IInv,
         TimerFires \/ TriggerReceived \/ ShutdownReceived \/ Stop \/ Tick
           \/ UNCHANGED vars
  PROVE  IInv'
<1> USE DEF IInv, TypeOK, MapPointsIntoHeap, NoOversleep, TrackedUnlessCancelled,
            DueWhenAsked, jobVars, history
<1>1. CASE TimerFires
  BY <1>1 DEF TimerFires
<1>2. CASE TriggerReceived
  BY <1>2 DEF TriggerReceived
<1>3. CASE ShutdownReceived
  BY <1>3 DEF ShutdownReceived
<1>4. CASE Stop
  BY <1>4 DEF Stop
<1>5. CASE Tick
  BY <1>5 DEF Tick
<1>6. CASE UNCHANGED vars
  BY <1>6 DEF vars
<1> QED
  BY <1>1, <1>2, <1>3, <1>4, <1>5, <1>6

LEMMA NextIInv == IInv /\ [Next]_vars => IInv'
<1> SUFFICES ASSUME IInv, [Next]_vars
             PROVE  IInv'
  OBVIOUS
<1>1. ASSUME NEW t \in Tokens, Schedule(t) PROVE IInv'
  BY <1>1, UpdateIInv, PushIInv DEF Schedule
<1>2. ASSUME NEW t \in Tokens, Cancel(t) PROVE IInv'
  BY <1>2, CancelIInv
<1>3. CASE Scan
  BY <1>3, ScanIInv
<1>4. CASE TimerFires \/ TriggerReceived \/ ShutdownReceived \/ Stop \/ Tick
             \/ UNCHANGED vars
  BY <1>4, OtherIInv
<1> QED
  BY <1>1, <1>2, <1>3, <1>4 DEF Next

(* Every reachable state satisfies the inductive invariant.                *)
THEOREM Invariance == Spec => []IInv
BY InitIInv, NextIInv, PTL DEF Spec

-----------------------------------------------------------------------------
(* The scheduler's state is always well formed.                            *)
THEOREM TypeCorrect == Spec => []TypeOK
<1>1. IInv => TypeOK
  BY DEF IInv
<1> QED
  BY <1>1, Invariance, PTL

(* A job found through jobMap is in the heap, for its token and live.      *)
THEOREM MapSound == Spec => []MapPointsIntoHeap
<1>1. IInv => MapPointsIntoHeap
  BY DEF IInv
<1> QED
  BY <1>1, Invariance, PTL

(* run() never sleeps past the moment a job falls due.                     *)
THEOREM WakesInTime == Spec => []NoOversleep
<1>1. IInv => NoOversleep
  BY DEF IInv
<1> QED
  BY <1>1, Invariance, PTL

(* Jobs of a token never cancelled are all reachable through jobMap.       *)
THEOREM Tracked == Spec => []TrackedUnlessCancelled
<1>1. IInv => TrackedUnlessCancelled
  BY DEF IInv
<1> QED
  BY <1>1, Invariance, PTL

(* A receipt never cancelled waits the whole delay after the last request. *)
THEOREM Postponed == Spec => PostponedByReschedule
<1>1. IInv /\ [Next]_vars
        => [\A t \in Tokens :
              submitted'[t] > submitted[t] /\ t \notin everCancelled
                => now >= askedAt[t] + Delay]_vars
  <2> SUFFICES ASSUME IInv, Next, NEW t \in Tokens,
                      submitted'[t] > submitted[t], t \notin everCancelled
               PROVE  now >= askedAt[t] + Delay
    OBVIOUS
  <2>1. CASE Scan
    <3>1. Live(t) # {}
      <4> SUFFICES ASSUME Live(t) = {} PROVE FALSE
        OBVIOUS
      <4>1. submitted'[t] = submitted[t] + 0
        BY <2>1, LiveCount DEF Scan, IInv
      <4> QED
        BY <4>1 DEF IInv, TypeOK
    <3>2. PICK j \in Due : token[j] = t
      BY <3>1 DEF Live
    <3>3. jobMap[t] = j /\ j # NoJob
      BY <3>2, ConstantsAssumption DEF IInv, TypeOK, TrackedUnlessCancelled, Due
    <3> QED
      BY <3>2, <3>3 DEF IInv, DueWhenAsked, Due
  <2>2. CASE ~Scan
    <3>1. UNCHANGED submitted
      BY <2>2 DEF Next, Schedule, Cancel, TimerFires, TriggerReceived,
                  ShutdownReceived, Stop, Tick, history
    <3> QED
      BY <3>1 DEF IInv, TypeOK
  <2> QED
    BY <2>1, <2>2
<1> QED
  BY <1>1, Invariance, PTL DEF Spec, PostponedByReschedule
=============================================================================
