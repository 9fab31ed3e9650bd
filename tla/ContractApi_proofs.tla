-------------------------- MODULE ContractApi_proofs --------------------------
(***************************************************************************)
(* Safety of ContractApi for any requests, whatever their bodies have in   *)
(* common, and any number of failing calls and crashes.                    *)
(***************************************************************************)
EXTENDS ContractApi, TLAPS

Storing(r) == pc[r] \in {"create", "abi", "enqueue"}

(* The tasks whose contract is theirs: those in the queue or past it, and  *)
(* those of a request that has stored the contract and goes on.            *)
Claimed ==
  enqueued \union {Current(r) : r \in {q \in Requests : pc[q] \in {"abi", "enqueue"}}}

(* The tasks whose ABI was offered to the decoder.                         *)
Announced == enqueued \union {Current(r) : r \in {q \in Requests : pc[q] = "enqueue"}}

(* A request begins with its first signature, and has no task before.      *)
Begins ==
  /\ \A r \in Requests : pc[r] = "new" => pos[r] = 1
  /\ \A t \in enqueued : pc[t[1]] # "new"

ClaimedStored == \A t \in Claimed : \E c \in contracts : c.key = Key(t)

ClaimedApart == \A t, u \in Claimed : t # u => Key(t) # Key(u)

AbiKnown ==
  \A t \in Announced :
    t[1] \in fresh /\ EventSig(t) \in Body[t[1]].abi
      => <<Body[t[1]].chain, EventSig(t)>> \in abis

IInv == TypeOK /\ Begins /\ ClaimedStored /\ ClaimedApart /\ AbiKnown

-----------------------------------------------------------------------------
LEMMA Bounds == MaxFaults \in Nat /\ MaxSignatures \in Nat
BY BodyAssumption

(* What a task stands for.                                                 *)
LEMMA TaskFacts ==
  ASSUME NEW t \in Tasks
  PROVE  /\ t[1] \in Requests /\ t[2] \in Nat /\ t = <<t[1], t[2]>>
         /\ Body[t[1]].chain \in Nat
         /\ Spelled(t) \in Signatures
         /\ EventSig(t) \in Hashes
         /\ Row(t).key = Key(t) /\ Key(t).chain = Body[t[1]].chain
         /\ Key(t).hash = EventSig(t) /\ Row(t).abi = Body[t[1]].abi
<1>1. t[1] \in Requests /\ t[2] \in 1 .. MaxSignatures /\ t = <<t[1], t[2]>>
      /\ t[2] <= Len(Body[t[1]].signatures)
  BY BodyAssumption DEF Tasks
<1>2. Body[t[1]].chain \in Nat /\ Body[t[1]].signatures \in Seq(Signatures)
  BY <1>1, BodyAssumption
<1>3. Spelled(t) \in Signatures
  BY <1>1, <1>2 DEF Spelled
<1>4. EventSig(t) \in Hashes
  BY <1>3 DEF EventSig, ParseEventSignature, Signatures, Hashes
<1> QED
  BY <1>1, <1>2, <1>3, <1>4 DEF Row, Key

(* The first signature of a request with signatures is a task, and so is   *)
(* the next one after one that is not the last.                            *)
LEMMA NextTask ==
  /\ \A r \in Requests : Body[r].signatures # <<>> => <<r, 1>> \in Tasks
  /\ \A r \in Requests, i \in Nat :
       <<r, i>> \in Tasks /\ i < Len(Body[r].signatures) => <<r, i + 1>> \in Tasks
<1>1. \A r \in Requests : Body[r].signatures \in Seq(Signatures)
                          /\ Len(Body[r].signatures) <= MaxSignatures
  BY BodyAssumption
<1>2. ASSUME NEW r \in Requests, Body[r].signatures # <<>>
      PROVE  <<r, 1>> \in Tasks
  <2>1. Len(Body[r].signatures) \in Nat \ {0}
    BY <1>1, <1>2
  <2> QED
    BY <2>1, BodyAssumption DEF Tasks
<1>3. ASSUME NEW r \in Requests, NEW i \in Nat, <<r, i>> \in Tasks,
             i < Len(Body[r].signatures)
      PROVE  <<r, i + 1>> \in Tasks
  <2>1. Len(Body[r].signatures) \in Nat
    BY <1>1
  <2> QED
    BY <1>3, <2>1, BodyAssumption DEF Tasks
<1> QED
  BY <1>2, <1>3

-----------------------------------------------------------------------------
(* Type correctness, with where a request begins.                          *)
LEMMA InitType == Init => TypeOK /\ Begins
BY Bounds DEF Init, TypeOK, Begins

LEMMA RequestType ==
  ASSUME TypeOK, Begins, NEW r \in Requests, Request(r)
  PROVE  TypeOK' /\ Begins'
<1> USE DEF TypeOK, Begins, Goto, Respond, Fault, tasks, requests, Current
<1>1. CASE Decode(r)
  <2>1. pos' = pos /\ reply' \in [Requests -> {0, 201, 400, 500}]
        /\ (pc' = [pc EXCEPT ![r] = "done"]
            \/ (pc' = [pc EXCEPT ![r] = "create"] /\ Body[r].signatures # <<>>))
    <3>1. CASE ~Valid(r) /\ Respond(r, 400)
      BY <3>1
    <3>2. CASE Valid(r) /\ Body[r].signatures = <<>> /\ Respond(r, 201)
      BY <3>2
    <3>3. CASE Body[r].signatures # <<>> /\ Goto(r, "create") /\ UNCHANGED <<pos, reply>>
      BY <3>3
    <3> QED
      BY <1>1, <3>1, <3>2, <3>3 DEF Decode
  <2>2. pos[r] = 1 /\ (Body[r].signatures # <<>> => Current(r) \in Tasks)
    BY <1>1, NextTask DEF Decode
  <2>3. pc' \in [Requests -> {"new", "create", "abi", "enqueue", "done", "cut"}]
    BY <2>1
  <2>4. \A q \in Requests : pc'[q] \in {"create", "abi", "enqueue"} => <<q, pos'[q]>> \in Tasks
    <3>1. \A q \in Requests : q # r => pc'[q] = pc[q] /\ pos'[q] = pos[q]
      BY <2>1
    <3>2. pc'[r] \in {"create", "abi", "enqueue"} => <<r, pos'[r]>> \in Tasks
      BY <2>1, <2>2
    <3> QED
      BY <3>1, <3>2
  <2>5. fresh' = fresh \union {r} /\ UNCHANGED <<up, contracts, abis, tasks, faults>>
    BY <1>1 DEF Decode
  <2>6. \A q \in Requests : pc[q] # "new" => pc'[q] # "new"
    BY <2>1, <2>3
  <2>7. Begins'
    <3>1. \A t \in enqueued : t[1] \in Requests
      BY DEF Tasks
    <3> QED
      BY <2>1, <2>3, <2>5, <2>6, <3>1
  <2> QED
    BY <2>1, <2>3, <2>4, <2>5, <2>7
<1>2. CASE Create(r) \/ CreateFails(r)
  <2>1. Row(Current(r)) \in {Row(t) : t \in Tasks}
    BY <1>2 DEF Create, CreateFails
  <2>2. contracts' \subseteq {Row(t) : t \in Tasks}
    BY <1>2, <2>1 DEF Create, CreateFails
  <2>3. CASE Create(r)
    BY <2>2, <2>3 DEF Create
  <2>4. CASE CreateFails(r)
    BY <2>2, <2>4, Bounds DEF CreateFails
  <2> QED
    BY <1>2, <2>3, <2>4
<1>3. CASE CreateConflicts(r)
  BY <1>3 DEF CreateConflicts
<1>4. CASE RegisterEventABI(r)
  <2>1. Current(r) \in Tasks
    BY <1>4 DEF RegisterEventABI, RegisterEvent
  <2>2. Body[r].chain \in Nat /\ Body[r].abi \subseteq Hashes
    BY BodyAssumption
  <2>3. abis' \subseteq Nat \X Hashes
    BY <1>4, <2>2 DEF RegisterEventABI, RegisterEvent
  <2> QED
    BY <1>4, <2>1, <2>3 DEF RegisterEventABI, RegisterEvent
<1>5. CASE EnqueueTask(r)
  <2>1. Current(r) \in Tasks /\ pos[r] \in Nat \ {0} /\ pc[r] = "enqueue"
    BY <1>5 DEF EnqueueTask, Enqueue
  <2>2. enqueued' \subseteq Tasks /\ started' \subseteq enqueued'
        /\ queue' \subseteq enqueued' /\ running' \subseteq started'
    BY <1>5, <2>1 DEF EnqueueTask, Enqueue
  <2>3. CASE pos[r] < Len(Body[r].signatures)
    <3>1. pos' = [pos EXCEPT ![r] = pos[r] + 1] /\ pc' = [pc EXCEPT ![r] = "create"]
          /\ reply' = reply
      BY <1>5, <2>3 DEF EnqueueTask, Enqueue
    <3>2. <<r, pos[r] + 1>> \in Tasks
      BY <2>1, <2>3, NextTask
    <3>3. pos' \in [Requests -> Nat \ {0}]
      BY <2>1, <3>1
    <3>4. \A q \in Requests : pc'[q] \in {"create", "abi", "enqueue"} => <<q, pos'[q]>> \in Tasks
      BY <3>1, <3>2
    <3>5. Begins'
      BY <1>5, <2>1, <3>1 DEF EnqueueTask, Enqueue
    <3> QED
      BY <1>5, <2>2, <3>1, <3>3, <3>4, <3>5 DEF EnqueueTask, Enqueue
  <2>4. CASE ~(pos[r] < Len(Body[r].signatures))
    <3>1. pos' = pos /\ pc' = [pc EXCEPT ![r] = "done"] /\ reply' = [reply EXCEPT ![r] = 201]
      BY <1>5, <2>4 DEF EnqueueTask, Enqueue
    <3>2. Begins'
      BY <1>5, <2>1, <3>1 DEF EnqueueTask, Enqueue
    <3>3. UNCHANGED <<up, contracts, abis, faults, fresh>>
      BY <1>5 DEF EnqueueTask, Enqueue
    <3>4. pc' \in [Requests -> {"new", "create", "abi", "enqueue", "done", "cut"}]
          /\ reply' \in [Requests -> {0, 201, 400, 500}]
      BY <3>1
    <3>5. \A q \in Requests : pc'[q] \in {"create", "abi", "enqueue"} => <<q, pos'[q]>> \in Tasks
      BY <3>1
    <3> QED
      BY <2>2, <3>1, <3>2, <3>3, <3>4, <3>5
  <2> QED
    BY <2>3, <2>4
<1>6. CASE EnqueueFails(r)
  <2>1. Current(r) \in Tasks
    BY <1>6 DEF EnqueueFails, Enqueue
  <2> QED
    BY <1>6, <2>1, Bounds DEF EnqueueFails, Enqueue
<1> QED
  BY <1>1, <1>2, <1>3, <1>4, <1>5, <1>6 DEF Request

LEMMA NextType ==
  ASSUME TypeOK, Begins, [Next]_vars
  PROVE  TypeOK' /\ Begins'
<1> USE DEF TypeOK, Begins, Fault, tasks, requests, Current
<1>1. CASE \E r \in Requests : Request(r)
  BY <1>1, RequestType
<1>2. CASE \E t \in Tasks : TaskStarts(t) \/ TaskEnds(t)
  BY <1>2 DEF TaskStarts, TaskEnds
<1>3. CASE \E c \in contracts : MonitorRegistersABI(c)
  <2>1. \A c \in contracts : <<c.key.chain, c.key.hash>> \in Nat \X Hashes
    BY TaskFacts
  <2> QED
    BY <1>3, <2>1 DEF MonitorRegistersABI, RegisterEvent
<1>4. CASE Crash
  <2>1. pc' \in [Requests -> {"new", "create", "abi", "enqueue", "done", "cut"}]
        /\ \A r \in Requests : /\ pc'[r] \notin {"create", "abi", "enqueue"}
                              /\ pc'[r] = "new" <=> pc[r] = "new"
    BY <1>4 DEF Crash
  <2>2. pos' = pos /\ faults' \in 0 .. MaxFaults /\ enqueued' = enqueued
    BY <1>4, Bounds DEF Crash
  <2>3. Begins'
    <3>1. \A t \in enqueued : t[1] \in Requests
      BY DEF Tasks
    <3> QED
      BY <2>1, <2>2, <3>1
  <2> QED
    BY <1>4, <2>1, <2>2, <2>3 DEF Crash
<1>5. CASE Restart
  BY <1>5 DEF Restart
<1>6. CASE UNCHANGED vars
  BY <1>6 DEF vars
<1> QED
  BY <1>1, <1>2, <1>3, <1>4, <1>5, <1>6 DEF Next

-----------------------------------------------------------------------------
(* What a step can do to the contracts, the tasks and the requests.        *)
LEMMA StepFacts ==
  ASSUME TypeOK, [Next]_vars
  PROVE  /\ contracts \subseteq contracts'
         /\ \A t \in enqueued' :
              \/ t \in enqueued
              \/ \E r \in Requests : pc[r] = "enqueue" /\ t = Current(r)
         /\ \A q \in Requests : pc'[q] \in {"abi", "enqueue"} =>
              \/ pc[q] \in {"abi", "enqueue"} /\ pos'[q] = pos[q]
              \/ Create(q) /\ pos'[q] = pos[q]
         /\ \A q \in Requests : pc'[q] = "enqueue" =>
              \/ pc[q] = "enqueue" /\ pos'[q] = pos[q]
              \/ RegisterEventABI(q) /\ pos'[q] = pos[q]
         /\ (abis \subseteq abis' \/ fresh' = {})
         /\ (fresh' \subseteq fresh
             \/ \E r \in Requests : pc[r] = "new" /\ fresh' = fresh \union {r})
<1> USE DEF TypeOK, tasks, requests, Current
<1>1. CASE \E r \in Requests : Request(r)
  <2>1. PICK r \in Requests : Request(r)
    BY <1>1
  <2>2. CASE Decode(r)
    BY <2>2 DEF Decode, Respond, Goto
  <2>3. CASE Create(r)
    <3>1. /\ pc' = [pc EXCEPT ![r] = "abi"] /\ pos' = pos
          /\ contracts \subseteq contracts' /\ UNCHANGED <<enqueued, abis, fresh>>
      BY <2>3 DEF Create, Goto
    <3> QED
      BY <2>3, <3>1
  <2>4. CASE CreateConflicts(r) \/ CreateFails(r)
    BY <2>4 DEF CreateConflicts, CreateFails, Respond, Goto
  <2>5. CASE RegisterEventABI(r)
    <3>1. /\ pc' = [pc EXCEPT ![r] = "enqueue"] /\ pos' = pos /\ pc[r] = "abi"
          /\ abis \subseteq abis' /\ UNCHANGED <<contracts, enqueued, fresh>>
      BY <2>5 DEF RegisterEventABI, RegisterEvent, Goto
    <3> QED
      BY <2>5, <3>1
  <2>6. CASE EnqueueTask(r)
    BY <2>6 DEF EnqueueTask, Enqueue, Respond, Goto
  <2>7. CASE EnqueueFails(r)
    BY <2>7 DEF EnqueueFails, Enqueue, Respond, Goto
  <2> QED
    BY <2>1, <2>2, <2>3, <2>4, <2>5, <2>6, <2>7 DEF Request
<1>2. CASE \E t \in Tasks : TaskStarts(t) \/ TaskEnds(t)
  BY <1>2 DEF TaskStarts, TaskEnds
<1>3. CASE \E c \in contracts : MonitorRegistersABI(c)
  BY <1>3 DEF MonitorRegistersABI, RegisterEvent
<1>4. CASE Crash
  BY <1>4 DEF Crash
<1>5. CASE Restart
  BY <1>5 DEF Restart
<1>6. CASE UNCHANGED vars
  BY <1>6 DEF vars
<1> QED
  BY <1>1, <1>2, <1>3, <1>4, <1>5, <1>6 DEF Next

(* A request that creates a row found none with its key.                   *)
LEMMA CreateIsNew ==
  ASSUME TypeOK, NEW r \in Requests, Create(r)
  PROVE  /\ Current(r) \in Tasks
         /\ \A c \in contracts : c.key # Key(Current(r))
         /\ Row(Current(r)) \in contracts' /\ Row(Current(r)).key = Key(Current(r))
         /\ enqueued' = enqueued
         /\ \A q \in Requests : q # r => pc'[q] = pc[q]
<1>1. Current(r) \in Tasks
  BY DEF Create, TypeOK
<1>2. Row(Current(r)).key = Key(Current(r))
  BY DEF Row
<1>3. \A c \in contracts : c.key # Key(Current(r))
  BY <1>2 DEF Create, Conflicts
<1> QED
  BY <1>1, <1>2, <1>3 DEF Create, Goto, tasks, TypeOK

-----------------------------------------------------------------------------
(* The tasks a contract belongs to.                                        *)
LEMMA ClaimsStep ==
  ASSUME TypeOK, ClaimedStored, ClaimedApart, [Next]_vars
  PROVE  ClaimedStored' /\ ClaimedApart'
<1>1. contracts \subseteq contracts'
  BY StepFacts
<1>2. ASSUME NEW t \in Claimed', t \notin Claimed
      PROVE  \E r \in Requests : Create(r) /\ t = Current(r)
  BY <1>2, StepFacts DEF Claimed, Current
<1>3. CASE \E r \in Requests : Create(r)
  <2>1. PICK r \in Requests : Create(r)
    BY <1>3
  <2>2. \A q \in Requests : Create(q) => q = r
    BY <2>1 DEF Create, Goto, TypeOK
  <2>3. \A t \in Claimed' : t \in Claimed \/ t = Current(r)
    BY <1>2, <2>2
  <2>4. \A t \in Claimed : Key(t) # Key(Current(r))
    BY <2>1, CreateIsNew DEF ClaimedStored
  <2>5. ClaimedStored'
    BY <1>1, <2>1, <2>3, CreateIsNew DEF ClaimedStored
  <2> QED
    BY <2>3, <2>4, <2>5 DEF ClaimedApart
<1>4. CASE ~ \E r \in Requests : Create(r)
  <2>1. Claimed' \subseteq Claimed
    BY <1>2, <1>4
  <2> QED
    BY <1>1, <2>1 DEF ClaimedStored, ClaimedApart
<1> QED
  BY <1>3, <1>4

(* The ABIs of the tasks.                                                  *)
LEMMA AbiStep ==
  ASSUME TypeOK, Begins, AbiKnown, [Next]_vars
  PROVE  AbiKnown'
<1> SUFFICES ASSUME NEW t \in Announced', t[1] \in fresh',
                    EventSig(t) \in Body[t[1]].abi
             PROVE  <<Body[t[1]].chain, EventSig(t)>> \in abis'
  BY DEF AbiKnown
<1>1. abis \subseteq abis'
  BY StepFacts
<1>2. CASE t \in Announced
  <2>1. pc[t[1]] # "new"
    BY <1>2 DEF Announced, Current, Begins
  <2>2. t[1] \in fresh
    BY <2>1, StepFacts
  <2> QED
    BY <1>1, <1>2, <2>2 DEF AbiKnown
<1>3. CASE t \notin Announced
  <2>1. PICK r \in Requests : RegisterEventABI(r) /\ t = Current(r)
    BY <1>3, StepFacts DEF Announced, Current
  <2>2. t[1] = r
    BY <2>1 DEF Current
  <2> QED
    BY <2>1, <2>2 DEF RegisterEventABI, RegisterEvent
<1> QED
  BY <1>2, <1>3

-----------------------------------------------------------------------------
(* The inductive invariant: every task in the queue or past it owns a row  *)
(* of its own, and so does every request between the row and the queue.    *)
THEOREM Invariance == Spec => []IInv
<1>1. Init => IInv
  <2>1. Init => TypeOK /\ Begins
    BY InitType
  <2>2. Init => Claimed = {} /\ Announced = {}
    BY DEF Init, Claimed, Announced
  <2> QED
    BY <2>1, <2>2 DEF IInv, ClaimedStored, ClaimedApart, AbiKnown
<1>2. IInv /\ [Next]_vars => IInv'
  BY NextType, ClaimsStep, AbiStep DEF IInv
<1> QED
  BY <1>1, <1>2, PTL DEF Spec

(* The state stays well formed.                                            *)
THEOREM TypeCorrect == Spec => []TypeOK
<1>1. IInv => TypeOK
  BY DEF IInv
<1> QED
  BY <1>1, Invariance, PTL

(* No two tasks of a contract reach the queue (RegisterContract).          *)
THEOREM OneTask == Spec => []OneTaskPerContract
<1>1. IInv => OneTaskPerContract
  BY DEF IInv, ClaimedApart, Claimed, OneTaskPerContract
<1> QED
  BY <1>1, Invariance, PTL

(* A task runs with the ABI of its request (RegisterEventABI before        *)
(* EnqueueTask).                                                           *)
THEOREM AbiFirst == Spec => []AbiBeforeTask
<1>1. IInv => AbiBeforeTask
  BY DEF IInv, TypeOK, AbiKnown, Announced, AbiBeforeTask
<1> QED
  BY <1>1, Invariance, PTL

(* A half-done registration is never completed by another request          *)
(* (RegisterContract refuses what exists before it enqueues).              *)
THEOREM OrphanFinal == Spec => OrphanStaysOrphan
<1> DEFINE Kept == \A c \in contracts : Orphan(c.key) => Orphan(c.key)'
<1>1. TypeOK /\ [Next]_vars => Kept
  <2> SUFFICES ASSUME TypeOK, [Next]_vars, NEW c \in contracts, Orphan(c.key)
               PROVE  Orphan(c.key)'
    OBVIOUS
  <2>1. c \in contracts'
    BY StepFacts
  <2>2. \A t \in enqueued' : Key(t) # c.key
    BY StepFacts DEF Orphan
  <2>3. ASSUME NEW r \in Requests, pc'[r] \in {"abi", "enqueue"}
        PROVE  Key(<<r, pos'[r]>>) # c.key
    <3>1. CASE pc[r] \in {"abi", "enqueue"} /\ pos'[r] = pos[r]
      BY <3>1 DEF Orphan, Current
    <3>2. CASE Create(r) /\ pos'[r] = pos[r]
      BY <3>2, CreateIsNew DEF Current
    <3> QED
      BY <2>3, <3>1, <3>2, StepFacts
  <2> QED
    BY <2>1, <2>2, <2>3 DEF Orphan, Current
<1>2. IInv => TypeOK
  BY DEF IInv
<1>3. IInv /\ [Next]_vars => [Kept]_vars
  BY <1>1, <1>2
<1> QED
  BY <1>3, Invariance, PTL DEF Spec, OrphanStaysOrphan
=============================================================================
