----------------------------- MODULE ContractApi -----------------------------
(***************************************************************************)
(* Registering contracts: POST /api/v1/contracts (RegisterContract of      *)
(* internal/api/contract.go) stores a row per event signature of the       *)
(* request and enqueues a backfill task for it, in separate calls to the   *)
(* database and to the task queue, any of which may fail and be reported   *)
(* as failed although it was done.  Clients send the same request again,   *)
(* also at the same time.  A handler (handleBackfill of internal/worker)   *)
(* finds the contract of its task; what it then does is in MonitorRegistry *)
(* and Backfill.  A crash of the process cuts requests and handlers off;   *)
(* the database and the queue survive it, the decoder's ABIs do not.       *)
(***************************************************************************)
EXTENDS Naturals, Sequences, FiniteSets

CONSTANTS
  Requests,       \* HTTP requests; a retry is one more request of equal body
  Body,           \* their bodies
  Chains,         \* the chains of the configuration
  MaxSignatures,  \* the most signatures a request has
  MaxFaults       \* bound on failed calls and crashes

(* An address and a signature as the client spells them.                   *)
Addresses == [of : Nat, hex : BOOLEAN, prefixed : BOOLEAN, mixedCase : BOOLEAN]
Signatures == [name : STRING, params : STRING, parens : BOOLEAN, spaced : BOOLEAN,
               labels : {"none", "indexed", "plain"}]

(* ParseEventSignature removes the blanks and then what follows the type   *)
(* of a parameter only from "indexed" on: a plain label stays glued to the *)
(* type and changes the hash.                                              *)
ParseEventSignature(s) ==
  [name |-> s.name, params |-> s.params, glued |-> s.labels = "plain"]

(* ExtractEventName keeps the blanks before the parenthesis.               *)
ExtractEventName(s) == [name |-> s.name, spaced |-> s.spaced]

(* strings.ToLower keeps a missing 0x missing.                             *)
ToLower(a) == [a EXCEPT !.mixedCase = FALSE]

Hashes == [name : STRING, params : STRING, glued : BOOLEAN]

ASSUME BodyAssumption ==
  /\ Body \in [Requests -> [chain : Nat, address : Addresses,
                            signatures : Seq(Signatures), abi : SUBSET Hashes]]
  /\ \A r \in Requests : Len(Body[r].signatures) <= MaxSignatures
  /\ MaxSignatures \in Nat /\ MaxFaults \in Nat

VARIABLES
  up,         \* whether the process runs
  contracts,  \* the rows of the contract table
  abis,       \* what the decoders know: chain and event hash
  pc,         \* where each request is
  pos,        \* the signature it is at
  reply,      \* its status code, 0 before
  queue,      \* backfill tasks that wait or are to be delivered again
  running,    \* tasks whose handler found the contract
  faults,     \* failed calls and crashes so far
  enqueued,   \* history: the tasks that reached the queue
  started,    \* history: the tasks whose handler found the contract
  fresh       \* history: requests that came after the last crash

requests == <<pc, pos, reply>>
tasks == <<queue, running, enqueued, started>>
vars == <<up, contracts, abis, requests, tasks, faults, fresh>>

(* A task stands for the i-th signature of a request: its payload is       *)
(* [chain, address, hash] of the request.                                  *)
Tasks == {t \in Requests \X (1 .. MaxSignatures) : t[2] <= Len(Body[t[1]].signatures)}

Spelled(t) == Body[t[1]].signatures[t[2]]
EventSig(t) == ParseEventSignature(Spelled(t))

(* The unique key under which a task's contract is stored and looked up.   *)
Key(t) == [chain |-> Body[t[1]].chain,
           address |-> ToLower(Body[t[1]].address),
           hash |-> EventSig(t)]

Row(t) == [key |-> Key(t), name |-> ExtractEventName(Spelled(t)),
           abi |-> Body[t[1]].abi]

Current(r) == <<r, pos[r]>>

TypeOK ==
  /\ up \in BOOLEAN
  /\ contracts \subseteq {Row(t) : t \in Tasks}
  /\ abis \subseteq Nat \X Hashes
  /\ pc \in [Requests -> {"new", "create", "abi", "enqueue", "done", "cut"}]
  /\ pos \in [Requests -> Nat \ {0}]
  /\ \A r \in Requests : pc[r] \in {"create", "abi", "enqueue"} => Current(r) \in Tasks
  /\ reply \in [Requests -> {0, 201, 400, 500}]
  /\ enqueued \subseteq Tasks /\ started \subseteq enqueued
  /\ queue \subseteq enqueued /\ running \subseteq started
  /\ faults \in 0 .. MaxFaults /\ fresh \subseteq Requests

Init ==
  /\ up = TRUE /\ contracts = {} /\ abis = {}
  /\ pc = [r \in Requests |-> "new"]
  /\ pos = [r \in Requests |-> 1]
  /\ reply = [r \in Requests |-> 0]
  /\ queue = {} /\ running = {} /\ enqueued = {} /\ started = {}
  /\ faults = 0 /\ fresh = {}

Fault == faults < MaxFaults /\ faults' = faults + 1
Goto(r, label) == pc' = [pc EXCEPT ![r] = label]

Respond(r, status) ==
  /\ reply' = [reply EXCEPT ![r] = status]
  /\ Goto(r, "done")
  /\ UNCHANGED pos

-----------------------------------------------------------------------------
(* Chain, address and every signature are checked before anything is done. *)
Valid(r) ==
  /\ Body[r].chain \in Chains
  /\ Body[r].address.hex
  /\ \A i \in DOMAIN Body[r].signatures : Body[r].signatures[i].parens

Decode(r) ==
  /\ up /\ pc[r] = "new"
  /\ fresh' = fresh \union {r}
  /\ \/ ~Valid(r) /\ Respond(r, 400)
     \/ Valid(r) /\ Body[r].signatures = <<>> /\ Respond(r, 201)
     \/ /\ Valid(r) /\ Body[r].signatures # <<>>
        /\ Goto(r, "create") /\ UNCHANGED <<pos, reply>>
  /\ UNCHANGED <<up, contracts, abis, tasks, faults>>

(* Fault: the key on the event signature is missing from the schema.       *)
ConflictsByName(row) ==
  \E c \in contracts :
    /\ c.key.chain = row.key.chain /\ c.key.address = row.key.address
    /\ c.name = row.name

(* The two unique keys of the contract table.                              *)
Conflicts(row) ==
  \E c \in contracts :
    /\ c.key.chain = row.key.chain /\ c.key.address = row.key.address
    /\ c.key.hash = row.key.hash \/ c.name = row.name

(* Fault: an existing row is updated instead of refused.                   *)
Upsert(r) ==
  /\ up /\ pc[r] = "create"
  /\ contracts' = {c \in contracts : c.key # Key(Current(r))} \union {Row(Current(r))}
  /\ Goto(r, "abi")
  /\ UNCHANGED <<up, abis, pos, reply, tasks, faults, fresh>>

Create(r) ==
  /\ up /\ pc[r] = "create"
  /\ ~Conflicts(Row(Current(r)))
  /\ contracts' = contracts \union {Row(Current(r))}
  /\ Goto(r, "abi")
  /\ UNCHANGED <<up, abis, pos, reply, tasks, faults, fresh>>

CreateConflicts(r) ==
  /\ up /\ pc[r] = "create"
  /\ Conflicts(Row(Current(r)))
  /\ Respond(r, 500)
  /\ UNCHANGED <<up, contracts, abis, tasks, faults, fresh>>

(* The database reports an error; the row may be there.                    *)
CreateFails(r) ==
  /\ up /\ pc[r] = "create"
  /\ Fault
  /\ \/ UNCHANGED contracts
     \/ /\ ~Conflicts(Row(Current(r)))
        /\ contracts' = contracts \union {Row(Current(r))}
  /\ Respond(r, 500)
  /\ UNCHANGED <<up, abis, tasks, fresh>>

(* Fault: the ABI of the request is not registered.                        *)
SkipEventABI(r) ==
  /\ up /\ pc[r] = "abi"
  /\ Goto(r, "enqueue")
  /\ UNCHANGED <<up, contracts, abis, pos, reply, tasks, faults, fresh>>

(* The decoder of a chain takes an ABI if it has the event.                *)
RegisterEvent(chain, hash, abi) ==
  abis' = abis \union {<<chain, h>> : h \in abi \intersect {hash}}

(* An ABI that the decoder refuses is only logged.                         *)
RegisterEventABI(r) ==
  /\ up /\ pc[r] = "abi"
  /\ RegisterEvent(Body[r].chain, EventSig(Current(r)), Body[r].abi)
  /\ Goto(r, "enqueue")
  /\ UNCHANGED <<up, contracts, pos, reply, tasks, faults, fresh>>

Enqueue(T) ==
  queue' = queue \union T /\ enqueued' = enqueued \union T

(* On with the next signature; after the last the request is accepted.     *)
EnqueueTask(r) ==
  /\ up /\ pc[r] = "enqueue"
  /\ Enqueue({Current(r)})
  /\ IF pos[r] < Len(Body[r].signatures)
       THEN /\ pos' = [pos EXCEPT ![r] = @ + 1]
            /\ Goto(r, "create")
            /\ UNCHANGED reply
       ELSE Respond(r, 201)
  /\ UNCHANGED <<up, contracts, abis, running, started, faults, fresh>>

(* Redis reports an error; the task may be there.                          *)
EnqueueFails(r) ==
  /\ up /\ pc[r] = "enqueue"
  /\ Fault
  /\ \E T \in {{}, {Current(r)}} : Enqueue(T)
  /\ Respond(r, 500)
  /\ UNCHANGED <<up, contracts, abis, running, started, fresh>>

-----------------------------------------------------------------------------
(* Fault: the handler looks the contract up by the address of its payload  *)
(* as it is spelled.                                                       *)
TaskStartsUnlowered(t) ==
  /\ up /\ t \in queue
  /\ \E c \in contracts :
       c.key = [Key(t) EXCEPT !.address = Body[t[1]].address]
  /\ queue' = queue \ {t}
  /\ running' = running \union {t}
  /\ started' = started \union {t}
  /\ UNCHANGED <<up, contracts, abis, requests, enqueued, faults, fresh>>

(* A handler gets a task and finds its contract.  If it does not, or the   *)
(* database fails, it returns an error and the task waits to be tried      *)
(* again.                                                                  *)
TaskStarts(t) ==
  /\ up /\ t \in queue
  /\ \E c \in contracts : c.key = Key(t)
  /\ queue' = queue \ {t}
  /\ running' = running \union {t}
  /\ started' = started \union {t}
  /\ UNCHANGED <<up, contracts, abis, requests, enqueued, faults, fresh>>

TaskEnds(t) ==
  /\ up /\ t \in running
  /\ running' = running \ {t}
  /\ UNCHANGED <<up, contracts, abis, requests, queue, enqueued, started, faults, fresh>>

(* The monitor goroutine of a stored contract registers its ABI.           *)
MonitorRegistersABI(c) ==
  /\ up
  /\ RegisterEvent(c.key.chain, c.key.hash, c.abi)
  /\ UNCHANGED <<up, contracts, requests, tasks, faults, fresh>>

-----------------------------------------------------------------------------
(* The process ends: what a request had not yet done is never done, and    *)
(* the queue delivers again what was not acknowledged.                     *)
Crash ==
  /\ up /\ Fault
  /\ up' = FALSE /\ abis' = {} /\ fresh' = {}
  /\ pc' = [r \in Requests |-> IF pc[r] \in {"create", "abi", "enqueue"} THEN "cut" ELSE pc[r]]
  /\ queue' = queue \union running /\ running' = {}
  /\ UNCHANGED <<contracts, pos, reply, enqueued, started>>

Restart ==
  /\ ~up
  /\ up' = TRUE
  /\ UNCHANGED <<contracts, abis, requests, tasks, faults, fresh>>

Request(r) ==
  \/ Decode(r) \/ Create(r) \/ CreateConflicts(r) \/ CreateFails(r)
  \/ RegisterEventABI(r) \/ EnqueueTask(r) \/ EnqueueFails(r)

Next ==
  \/ \E r \in Requests : Request(r)
  \/ \E t \in Tasks : TaskStarts(t) \/ TaskEnds(t)
  \/ \E c \in contracts : MonitorRegistersABI(c)
  \/ Crash \/ Restart

Spec == Init /\ [][Next]_vars

(* The process is started again, and the queue delivers every task.        *)
Fairness ==
  /\ WF_vars(Restart)
  /\ \A t \in Tasks : WF_vars(TaskStarts(t))

FairSpec == Spec /\ Fairness

-----------------------------------------------------------------------------
(* No contract is backfilled by two tasks, whatever requests are repeated, *)
(* overlap, fail or differ only in how they spell an address or an event:  *)
(* RegisterContract relies on the unique keys of the table alone, in a     *)
(* call before the one that enqueues.                                      *)
OneTaskPerContract ==
  \A t, u \in enqueued : t # u => Key(t) # Key(u)

(* A stored contract that has no task and whose request is over.           *)
Orphan(k) ==
  /\ \E c \in contracts : c.key = k
  /\ \A t \in enqueued : Key(t) # k
  /\ \A r \in Requests : pc[r] \in {"abi", "enqueue"} => Key(Current(r)) # k

(* What a request left behind when it failed between the row and the task  *)
(* is final: no retry and no other request gets that contract backfilled,  *)
(* because RegisterContract refuses what exists before it enqueues.        *)
OrphanStaysOrphan ==
  [][\A c \in contracts : Orphan(c.key) => Orphan(c.key)']_vars

(* A task runs with the ABI its request came with, unless the process was  *)
(* restarted since: the decoder has it before the queue has the task.      *)
AbiBeforeTask ==
  \A t \in running :
    t[1] \in fresh /\ EventSig(t) \in Body[t[1]].abi
      => <<Body[t[1]].chain, EventSig(t)>> \in abis

(* The backfill of every event of an accepted request begins: its contract *)
(* is in the table, under the key the handler computes from the payload,   *)
(* and crashes do not lose the task.                                       *)
AcceptedIsBackfilled ==
  \A t \in Tasks : (reply[t[1]] = 201) ~> (t \in started)
=============================================================================
