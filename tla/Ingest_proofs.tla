----------------------------- MODULE Ingest_proofs -----------------------------
(***************************************************************************)
(* Safety of Ingest for every set of callers, tasks and logs, any capacity *)
(* of the channel and any number of failures and restarts.                 *)
(***************************************************************************)
EXTENDS Ingest, WellFoundedInduction, TLAPS

-----------------------------------------------------------------------------
(* Who is between the lookup of log l and the end of its creation.         *)
AtCall(c, l) == pc[c] \in {"block", "publish", "create"} /\ Log(c) = l
AtHandler(t, l) == hpc[t] = "create" /\ event[t] = l

(* A log that was never raced for has one goroutine at it at most, which   *)
(* has found no row of it.                                                 *)
OneAtATime ==
  \A l \in Logs \ raced :
    /\ \A c, d \in Callers : AtCall(c, l) /\ AtCall(d, l) => c = d
    /\ \A t, u \in Listeners : AtHandler(t, l) /\ AtHandler(u, l) => t = u
    /\ \A c \in Callers, t \in Listeners : ~ (AtCall(c, l) /\ AtHandler(t, l))
    /\ Busy(l) => rows[l] = 0
    /\ rows[l] <= 1

Creating(l) == \E c \in Callers : pc[c] = "create" /\ Log(c) = l

(* Unless its creation went wrong, such a log is handed over once, and is  *)
(* then stored or about to be.                                             *)
HandedOnce ==
  \A l \in Logs \ (raced \union redone) :
    /\ handed[l] <= 1
    /\ handed[l] = 1 => rows[l] = 1 \/ Creating(l)

(* A creation that the end of the process cut off counts as gone wrong.    *)
CutOff ==
  main = "down" => \A c \in Callers : pc[c] = "create" => Log(c) \in redone

(* Where an event that was handed over is, and what became of it.          *)
Has(q, l) == \E i \in DOMAIN q : q[i] = l
InHand(l) == hand # None /\ hand = l
InBuffer(l) == Has(buffer, l)
InSent(l) == Has(sent, l)
InWaiting(l) == Has(Waiting, l)

Accounted(l) == InSent(l) \/ InWaiting(l) \/ l \in lost

Settled(l) == Accounted(l) \/ l \in givenUp

(* Every log that is stored was handed over or given up.                   *)
RowsSettled == \A l \in Logs : rows[l] > 0 => Settled(l)

(* So was every log that is about to be stored, or on its way to a handler *)
(* that may store it.                                                      *)
OffersSettled ==
  /\ \A c \in Callers : pc[c] = "create" => Accounted(Log(c))
  /\ \A c \in Callers : \A l \in answer[c] \ todo[c] : Settled(l)
  /\ \A t \in Listeners : \A l \in offered[t] : Settled(l)
  /\ \A t \in Listeners : hpc[t] # "loop" => Settled(event[t])

(* The inductive invariant.                                                *)
IInv == TypeOK /\ OneAtATime /\ HandedOnce /\ CutOff /\ RowsSettled /\ OffersSettled

USE ConstantsAssumption, NoneAssumption
USE DEF process, callers, handlers, producer, history

-----------------------------------------------------------------------------
(* Logs are numbers, so a set of them has a first one.                     *)
LEMMA FirstOfLogs ==
  ASSUME NEW S \in SUBSET Logs, S # {}
  PROVE  First(S) \in S
<1> DEFINE R == OpToRel(<, Nat)
<1>1. IsWellFoundedOn(R, Nat)
  BY NatLessThanWellFounded, Zenon
<1>2. PICK l \in S : \A other \in S : ~ (<<other, l>> \in R)
  <2>1. S \subseteq Nat
    OBVIOUS
  <2> HIDE DEF R
  <2> QED
    BY <1>1, <2>1, WFMin, Zenon
<1>3. \A other \in S : ~ (other < l)
  BY <1>2 DEF OpToRel
<1>4. \A other \in S : l <= other
  BY <1>3
<1> QED
  BY <1>4 DEF First

(* The log a caller is at is one of those it has still to process.         *)
LEMMA LogOfCaller ==
  ASSUME TypeOK, NEW c \in Callers, pc[c] # "idle"
  PROVE  Log(c) \in todo[c] /\ Log(c) \in Logs
BY FirstOfLogs DEF TypeOK, Log

LEMMA BlockNumber == \A l \in Logs : Block(l) \in Nat
<1>1. \A n \in Nat, k \in Nat \ {0} : n \div k \in Nat
  OBVIOUS
<1> QED
  BY <1>1 DEF Block

(* Counting a log, once or as often as it happened.                        *)
LEMMA Counted ==
  ASSUME NEW f \in [Logs -> Nat], NEW l \in Logs, NEW n \in Nat
  PROVE  /\ [f EXCEPT ![l] = @ + n] \in [Logs -> Nat]
         /\ [f EXCEPT ![l] = @ + n][l] = f[l] + n
         /\ \A m \in Logs \ {l} : [f EXCEPT ![l] = @ + n][m] = f[m]
OBVIOUS

(* What waits is in the hand of the producer's goroutine or in its channel. *)
WaitingParts == \A l : InWaiting(l) <=> InHand(l) \/ InBuffer(l)

LEMMA WaitingIs == TypeOK => WaitingParts
<1> SUFFICES ASSUME TypeOK, NEW l
             PROVE  InWaiting(l) <=> InHand(l) \/ InBuffer(l)
  BY DEF WaitingParts
<1> USE DEF InWaiting, InHand, InBuffer, Has
<1>1. CASE hand = None
  BY <1>1 DEF Waiting
<1>2. CASE hand # None
  <2>1. hand \in Logs /\ buffer \in Seq(Logs) /\ Waiting = <<hand>> \o buffer
    BY <1>2 DEF Waiting, TypeOK
  <2>2. /\ DOMAIN Waiting = 1 .. Len(buffer) + 1
        /\ Waiting[1] = hand
        /\ \A i \in 1 .. Len(buffer) : Waiting[i + 1] = buffer[i]
    BY <2>1
  <2>3. DOMAIN buffer = 1 .. Len(buffer) /\ Len(buffer) \in Nat
    BY <2>1
  <2>4. \A i \in DOMAIN Waiting :
          i = 1 \/ (i - 1 \in DOMAIN buffer /\ Waiting[i] = buffer[i - 1])
    BY <2>2, <2>3
  <2> QED
    BY <1>2, <2>2, <2>3, <2>4
<1> QED
  BY <1>1, <1>2

LEMMA WaitingIsPrime == TypeOK' => WaitingParts'
  BY WaitingIs, PTL

-----------------------------------------------------------------------------
(* The parts of TypeOK.                                                    *)
CallType ==
  /\ calls \in 0 .. MaxCalls
  /\ pc \in [Callers -> {"idle", "check", "block", "publish", "create"}]
  /\ todo \in [Callers -> SUBSET Logs] /\ answer \in [Callers -> SUBSET Logs]
  /\ \A c \in Callers : pc[c] # "idle" => todo[c] # {}
  /\ timestamps \in [Callers -> SUBSET Nat]

HandlerType ==
  /\ offered \in [Listeners -> SUBSET Logs]
  /\ hpc \in [Listeners -> {"loop", "check", "create"}]
  /\ event \in [Listeners -> Logs \union {None}]
  /\ \A t \in Listeners : hpc[t] # "loop" => event[t] # None

ProducerType ==
  /\ buffer \in Seq(Logs) /\ Len(buffer) <= Capacity
  /\ hand \in Logs \union {None}
  /\ sent \in Seq(Logs) /\ lost \subseteq Logs

TableType ==
  /\ rows \in [Logs -> Nat] /\ handed \in [Logs -> Nat]
  /\ main \in {"run", "closed", "stopped", "down"}
  /\ faults \in 0 .. MaxFaults /\ boots \in 1 .. MaxBoots
  /\ raced \subseteq Logs /\ redone \subseteq Logs /\ givenUp \subseteq Logs

LEMMA TypeParts ==
  /\ CallType /\ HandlerType /\ ProducerType /\ TableType => TypeOK
  /\ CallType' /\ HandlerType' /\ ProducerType' /\ TableType' => TypeOK'
  BY DEF TypeOK, CallType, HandlerType, ProducerType, TableType

LEMMA InitType == Init => TypeOK
<1> SUFFICES ASSUME Init
             PROVE  TypeOK
  OBVIOUS
<1> USE DEF Init
<1>1. CallType /\ HandlerType
  BY DEF CallType, HandlerType
<1>2. ProducerType /\ TableType
  BY DEF ProducerType, TableType
<1> QED
  BY <1>1, <1>2, TypeParts

LEMMA NextLogType ==
  ASSUME TypeOK, NEW c \in Callers, pc[c] # "idle", NextLog(c)
  PROVE  CallType' /\ HandlerType'
<1> USE DEF TypeOK, NextLog, Goto
<1>1. Log(c) \in todo[c] /\ Log(c) \in Logs
  BY LogOfCaller
<1>2. CallType'
  <2>1. CASE todo[c] = {Log(c)}
    BY <2>1 DEF CallType
  <2>2. CASE todo[c] # {Log(c)}
    BY <1>1, <2>2 DEF CallType
  <2> QED
    BY <2>1, <2>2
<1>3. HandlerType'
  BY DEF HandlerType
<1> QED
  BY <1>2, <1>3

LEMMA FaultType == TypeOK /\ Fault => faults' \in 0 .. MaxFaults
  BY DEF TypeOK, Fault

LEMMA CallTypeStep ==
  ASSUME TypeOK, NEW c \in Callers, FilterLogs(c) \/ (Call(c) /\ ~PublishPanics(c))
  PROVE  TypeOK'
<1>1. pc[c] # "idle" => Log(c) \in todo[c] /\ Log(c) \in Logs
  BY LogOfCaller
<1> USE DEF TypeOK
<1>2. CASE FilterLogs(c)
  <2>1. PICK S \in (SUBSET Logs) \ {{}} : /\ todo' = [todo EXCEPT ![c] = S]
                                          /\ answer' = [answer EXCEPT ![c] = S]
    BY <1>2, Zenon DEF FilterLogs
  <2>2. CallType'
    BY <1>2, <2>1 DEF FilterLogs, Goto, CallType
  <2> QED
    BY <1>2, <2>2, TypeParts DEF FilterLogs, HandlerType, ProducerType, TableType
<1>3. CASE FindContractFails(c) \/ BlockFails(c)
  <2>1. NextLog(c) /\ pc[c] # "idle"
    BY <1>3 DEF FindContractFails, BlockFails
  <2>2. ProducerType' /\ TableType'
    BY <1>1, <1>3, FaultType DEF FindContractFails, BlockFails, ProducerType, TableType
  <2> QED
    BY <2>1, <2>2, NextLogType, TypeParts
<1>4. CASE Exists(c)
  <2>1. NextLog(c) /\ pc[c] # "idle"
    BY <1>4 DEF Exists
  <2>2. ProducerType' /\ TableType'
    BY <1>4 DEF Exists, ProducerType, TableType
  <2> QED
    BY <2>1, <2>2, NextLogType, TypeParts
<1>5. CASE NotFound(c)
  <2>1. CallType' /\ HandlerType'
    BY <1>5 DEF NotFound, Goto, CallType, HandlerType
  <2>2. faults' \in 0 .. MaxFaults /\ raced' \subseteq Logs
    BY <1>1, <1>5, FaultType DEF NotFound
  <2>3. ProducerType' /\ TableType'
    BY <1>5, <2>2 DEF NotFound, ProducerType, TableType
  <2> QED
    BY <2>1, <2>3, TypeParts
<1>6. CASE BlockByNumber(c)
  <2>1. Block(Log(c)) \in Nat
    BY <1>1, <1>6, BlockNumber DEF BlockByNumber
  <2>2. CallType'
    BY <1>6, <2>1 DEF BlockByNumber, Goto, CallType
  <2> QED
    BY <1>6, <2>2, TypeParts DEF BlockByNumber, HandlerType, ProducerType, TableType
<1>7. CASE Publish(c)
  <2>1. CallType' /\ HandlerType'
    BY <1>7 DEF Publish, Goto, CallType, HandlerType
  <2>2. ProducerType'
    BY <1>1, <1>7 DEF Publish, ProducerType
  <2>3. handed' \in [Logs -> Nat]
    BY <1>1, <1>7, Counted DEF Publish
  <2>4. TableType'
    BY <1>7, <2>3 DEF Publish, TableType
  <2> QED
    BY <2>1, <2>2, <2>4, TypeParts
<1>8. CASE Create(c) \/ CreateFails(c)
  <2>1. NextLog(c) /\ pc[c] # "idle"
    BY <1>8 DEF Create, CreateFails
  <2>2. rows' \in [Logs -> Nat] /\ redone' \subseteq Logs
    BY <1>1, <1>8 DEF Create, CreateFails, MaybeStored
  <2>3. ProducerType' /\ TableType'
    BY <1>8, <2>2, FaultType DEF Create, CreateFails, ProducerType, TableType
  <2> QED
    BY <2>1, <2>3, NextLogType, TypeParts
<1> QED
  BY <1>2, <1>3, <1>4, <1>5, <1>6, <1>7, <1>8 DEF Call

LEMMA HandlerTypeStep ==
  ASSUME TypeOK, NEW t \in Listeners, Handler(t)
  PROVE  TypeOK'
<1> USE DEF TypeOK, Continue
<1>1. CASE Receive(t)
  <2>1. First(offered[t]) \in Logs
    BY <1>1, FirstOfLogs DEF Receive
  <2>2. HandlerType'
    BY <1>1, <2>1 DEF Receive, HandlerType
  <2> QED
    BY <1>1, <2>2, TypeParts DEF Receive, CallType, ProducerType, TableType
<1>2. CASE HandlerFinds(t)
  BY <1>2, TypeParts DEF HandlerFinds, HandlerType, CallType, ProducerType, TableType
<1>3. CASE HandlerMisses(t)
  <2>1. HandlerType'
    BY <1>3 DEF HandlerMisses, HandlerType
  <2>2. faults' \in 0 .. MaxFaults /\ raced' \subseteq Logs
    BY <1>3, FaultType DEF HandlerMisses
  <2> QED
    BY <1>3, <2>1, <2>2, TypeParts DEF HandlerMisses, CallType, ProducerType, TableType
<1>4. CASE HandlerCreates(t) \/ HandlerFails(t)
  <2>1. event[t] \in Logs
    BY <1>4 DEF HandlerCreates, HandlerFails
  <2>2. rows' \in [Logs -> Nat]
    <3>1. PICK n \in Nat : rows' = [rows EXCEPT ![event[t]] = @ + n]
      BY <1>4 DEF HandlerCreates, HandlerFails, MaybeStored
    <3>2. rows \in [Logs -> Nat]
      OBVIOUS
    <3> HIDE DEF TypeOK
    <3> QED
      BY <2>1, <3>1, <3>2, Counted
  <2>3. HandlerType'
    BY <1>4 DEF HandlerCreates, HandlerFails, HandlerType
  <2> QED
    BY <1>4, <2>2, <2>3, TypeParts DEF HandlerCreates, HandlerFails, CallType, ProducerType, TableType
<1> QED
  BY <1>1, <1>2, <1>3, <1>4 DEF Handler

LEMMA EndsType == ASSUME TypeOK, Ends, faults' \in 0 .. MaxFaults PROVE TypeOK'
<1> USE DEF TypeOK
<1>1. \A c \in Callers : pc[c] = "create" => Log(c) \in Logs
  BY LogOfCaller
<1>2. \A i \in DOMAIN Waiting : Waiting[i] \in Logs
  <2>1. Waiting \in Seq(Logs)
    BY DEF Waiting
  <2> QED
    BY <2>1
<1>3. ProducerType'
  BY <1>2 DEF Ends, ProducerType
<1>4. TableType'
  BY <1>1 DEF Ends, TableType
<1> QED
  BY <1>3, <1>4, TypeParts DEF Ends, CallType, HandlerType

LEMMA RestartType == TypeOK /\ Restart => TypeOK'
<1> SUFFICES ASSUME TypeOK, Restart
             PROVE  TypeOK'
  OBVIOUS
<1> USE DEF TypeOK, Restart, Fresh
<1>1. CallType' /\ HandlerType'
  BY DEF CallType, HandlerType
<1>2. ProducerType' /\ TableType'
  BY DEF ProducerType, TableType
<1> QED
  BY <1>1, <1>2, TypeParts

LEMMA TypeStep == TypeOK /\ [Next]_vars => TypeOK'
<1> SUFFICES ASSUME TypeOK, [Next]_vars
             PROVE  TypeOK'
  OBVIOUS
<1>1. CASE Producer
  <2> USE <1>1 DEF TypeOK
  <2>1. ProducerType' /\ faults' \in 0 .. MaxFaults
    <3>1. CASE TakeEvent
      BY <3>1 DEF TakeEvent, ProducerType
    <3>2. CASE Deliver
      BY <3>2 DEF Deliver, ProducerType
    <3>3. CASE Refuse
      BY <3>3, FaultType DEF Refuse, ProducerType
    <3> QED
      BY <3>1, <3>2, <3>3 DEF Producer
  <2> QED
    BY <2>1, TypeParts DEF Producer, TakeEvent, Deliver, Refuse, CallType, HandlerType, TableType
<1>2. CASE StopProducer \/ StopServer \/ UNCHANGED vars
  BY <1>2, TypeParts DEF StopProducer, StopServer, vars, TypeOK, CallType, HandlerType,
     ProducerType, TableType
<1>3. ASSUME Exit \/ Crash \/ \E c \in Callers : PublishPanics(c)
      PROVE  TypeOK'
  <2>1. Ends /\ faults' \in 0 .. MaxFaults
    BY <1>3, FaultType DEF Exit, Crash, PublishPanics, TypeOK
  <2> QED
    BY <2>1, EndsType
<1> QED
  BY <1>1, <1>2, <1>3, CallTypeStep, HandlerTypeStep, RestartType DEF Next, Main, Call

-----------------------------------------------------------------------------
(* The steps of a call leave the other callers and the handlers where they *)
(* are.                                                                    *)
LEMMA OthersStay ==
  ASSUME TypeOK, NEW c \in Callers, FilterLogs(c) \/ (Call(c) /\ ~PublishPanics(c))
  PROVE  /\ \A d \in Callers \ {c} : pc'[d] = pc[d] /\ todo'[d] = todo[d] /\ Log(d)' = Log(d)
         /\ hpc' = hpc /\ event' = event /\ main' = main
<1> USE DEF FilterLogs, Call, FindContractFails, Exists, NotFound, BlockByNumber, BlockFails,
            Publish, Create, CreateFails, NextLog, Goto
<1>1. hpc' = hpc /\ event' = event /\ main' = main
  OBVIOUS
<1>2. \A d \in Callers \ {c} : todo'[d] = todo[d]
  BY DEF TypeOK
<1>3. \A d \in Callers \ {c} : pc'[d] = pc[d]
  BY DEF TypeOK
<1> QED
  BY <1>1, <1>2, <1>3 DEF Log

(* A caller that is through with its log is at none.                       *)
LEMMA NextLogLeaves ==
  ASSUME TypeOK, NEW c \in Callers, NextLog(c)
  PROVE  pc'[c] \in {"check", "idle"} /\ \A l : ~AtCall(c, l)'
<1>1. pc'[c] \in {"check", "idle"}
  BY DEF TypeOK, NextLog, Goto
<1> QED
  BY <1>1 DEF AtCall

LEMMA BusyIs ==
  \A l : Busy(l) <=> \/ \E c \in Callers : AtCall(c, l)
                    \/ \E t \in Listeners : AtHandler(t, l)
  BY DEF Busy, AtCall, AtHandler

LEMMA BusyIsPrime ==
  \A l : Busy(l)' <=> \/ \E c \in Callers : AtCall(c, l)'
                     \/ \E t \in Listeners : AtHandler(t, l)'
  BY DEF Busy, AtCall, AtHandler

OnceInv == OneAtATime /\ HandedOnce /\ CutOff

(* A step by which nobody comes to a log, and that stores and hands over   *)
(* nothing.                                                                *)
LEMMA QuietOnce ==
  ASSUME TypeOK, OnceInv,
         \A c \in Callers, l \in Logs : AtCall(c, l)' => AtCall(c, l),
         \A t \in Listeners, l \in Logs : AtHandler(t, l)' => AtHandler(t, l),
         \A c \in Callers : pc[c] = "create" =>
            Log(c) \in redone' \/ (pc'[c] = "create" /\ Log(c)' = Log(c)),
         UNCHANGED <<rows, handed, raced>>, redone \subseteq redone', CutOff'
  PROVE  OnceInv'
<1>1. OneAtATime'
  BY BusyIs, BusyIsPrime DEF OnceInv, OneAtATime
<1>2. HandedOnce'
  BY DEF OnceInv, HandedOnce, Creating
<1> QED
  BY <1>1, <1>2 DEF OnceInv

LEMMA QuietCallOnce ==
  ASSUME TypeOK, OnceInv, NEW c \in Callers,
         \/ FilterLogs(c) \/ FindContractFails(c) \/ Exists(c)
         \/ BlockByNumber(c) \/ BlockFails(c)
  PROVE  OnceInv'
<1>1. /\ \A d \in Callers \ {c} : pc'[d] = pc[d] /\ todo'[d] = todo[d] /\ Log(d)' = Log(d)
      /\ hpc' = hpc /\ event' = event /\ main' = main
  BY OthersStay DEF Call, PublishPanics, FilterLogs, FindContractFails, Exists, BlockByNumber,
     BlockFails
<1>2. main # "down" /\ UNCHANGED <<rows, handed, raced, redone>> /\ pc[c] # "create"
  BY DEF FilterLogs, FindContractFails, Exists, BlockByNumber, BlockFails, Up
<1>3. \A l \in Logs : AtCall(c, l)' => AtCall(c, l)
  <2>1. CASE FindContractFails(c) \/ Exists(c) \/ BlockFails(c)
    BY <2>1, NextLogLeaves DEF FindContractFails, Exists, BlockFails
  <2>2. CASE FilterLogs(c)
    BY <2>2 DEF FilterLogs, Goto, AtCall, TypeOK
  <2>3. CASE BlockByNumber(c)
    BY <2>3 DEF BlockByNumber, AtCall, Log
  <2> QED
    BY <2>1, <2>2, <2>3
<1>4. \A d \in Callers, l \in Logs : AtCall(d, l)' => AtCall(d, l)
  BY <1>1, <1>3 DEF AtCall
<1>5. \A t \in Listeners, l \in Logs : AtHandler(t, l)' => AtHandler(t, l)
  BY <1>1 DEF AtHandler
<1>6. CutOff'
  BY <1>1, <1>2 DEF CutOff
<1> QED
  BY <1>1, <1>2, <1>4, <1>5, <1>6, QuietOnce

(* Who did not find a log is at it, and if it is not marked as raced for,  *)
(* it is the only one and there is no row.                                 *)
LEMMA NotFoundOnce ==
  ASSUME TypeOK, OnceInv, NEW c \in Callers, NotFound(c)
  PROVE  OnceInv'
<1>1. /\ \A d \in Callers \ {c} : pc'[d] = pc[d] /\ todo'[d] = todo[d] /\ Log(d)' = Log(d)
      /\ hpc' = hpc /\ event' = event /\ main' = main
  BY OthersStay DEF Call, PublishPanics, NotFound
<1>2. /\ main # "down" /\ UNCHANGED <<rows, handed, redone>> /\ pc[c] = "check"
      /\ pc'[c] \in {"publish", "block"} /\ Log(c)' = Log(c) /\ Log(c) \in Logs
      /\ raced' = IF Busy(Log(c)) \/ rows[Log(c)] > 0 THEN raced \union {Log(c)} ELSE raced
  BY LogOfCaller DEF NotFound, Up, Goto, TypeOK, Log
<1>3. CutOff'
  BY <1>1, <1>2 DEF CutOff
<1>4. ASSUME NEW l \in Logs \ raced'
      PROVE  /\ l \notin raced
             /\ \A d \in Callers : AtCall(d, l)' => AtCall(d, l) \/ (d = c /\ l = Log(c))
             /\ \A t \in Listeners : AtHandler(t, l)' => AtHandler(t, l)
             /\ l = Log(c) => ~Busy(l) /\ rows[l] = 0
  <2>1. rows[Log(c)] \in Nat
    BY <1>2 DEF TypeOK
  <2> QED
    BY <1>1, <1>2, <2>1 DEF AtCall, AtHandler
<1>5. OneAtATime'
  BY <1>2, <1>4, BusyIs, BusyIsPrime DEF OnceInv, OneAtATime
<1>6. HandedOnce'
  BY <1>1, <1>2 DEF OnceInv, HandedOnce, Creating
<1> QED
  BY <1>3, <1>5, <1>6 DEF OnceInv

(* Who is at a log alone, before its creation, hands it over for the first *)
(* time.                                                                   *)
LEMMA PublishOnce ==
  ASSUME TypeOK, OnceInv, NEW c \in Callers, Publish(c)
  PROVE  OnceInv'
<1>1. /\ \A d \in Callers \ {c} : pc'[d] = pc[d] /\ todo'[d] = todo[d] /\ Log(d)' = Log(d)
      /\ hpc' = hpc /\ event' = event /\ main' = main
  BY OthersStay DEF Call, PublishPanics, Publish
<1>2. /\ main # "down" /\ UNCHANGED <<rows, raced, redone>> /\ pc[c] = "publish"
      /\ pc'[c] = "create" /\ Log(c)' = Log(c) /\ Log(c) \in Logs
      /\ handed' = [handed EXCEPT ![Log(c)] = @ + 1]
  BY LogOfCaller DEF Publish, Goto, TypeOK, Log
<1>3. CutOff'
  BY <1>1, <1>2 DEF CutOff
<1>4. /\ \A d \in Callers, l \in Logs : AtCall(d, l)' <=> AtCall(d, l)
      /\ \A t \in Listeners, l \in Logs : AtHandler(t, l)' <=> AtHandler(t, l)
  BY <1>1, <1>2 DEF AtCall, AtHandler
<1>5. OneAtATime'
  BY <1>2, <1>4, BusyIs, BusyIsPrime DEF OnceInv, OneAtATime
<1>6. handed'[Log(c)] = handed[Log(c)] + 1 /\ \A l \in Logs \ {Log(c)} : handed'[l] = handed[l]
  BY <1>2, Counted DEF TypeOK
<1>7. Log(c) \notin raced \union redone => handed[Log(c)] = 0
  <2> SUFFICES ASSUME Log(c) \notin raced \union redone
               PROVE  handed[Log(c)] = 0
    OBVIOUS
  <2>1. AtCall(c, Log(c)) /\ Busy(Log(c)) /\ rows[Log(c)] = 0
    BY <1>2, BusyIs DEF AtCall, OnceInv, OneAtATime
  <2>2. ~Creating(Log(c))
    BY <1>2, <2>1 DEF AtCall, OnceInv, OneAtATime, Creating
  <2>3. \A l \in Logs \ (raced \union redone) :
          rows[l] = 0 /\ ~Creating(l) => handed[l] = 0
    BY DEF OnceInv, HandedOnce, TypeOK
  <2>4. Log(c) \in Logs \ (raced \union redone)
    BY <1>2
  <2> QED
    BY <2>1, <2>2, <2>3, <2>4
<1>8. HandedOnce'
  <2>1. Creating(Log(c))' /\ \A l \in Logs : Creating(l) => Creating(l)'
    BY <1>1, <1>2 DEF Creating
  <2> QED
    BY <1>1, <1>2, <1>6, <1>7, <2>1 DEF OnceInv, HandedOnce
<1> QED
  BY <1>3, <1>5, <1>8 DEF OnceInv

(* A creation, whether or not it reaches the table.                        *)
LEMMA CreateOnce ==
  ASSUME TypeOK, OnceInv, NEW c \in Callers, Create(c) \/ CreateFails(c)
  PROVE  OnceInv'
<1>1. /\ \A d \in Callers \ {c} : pc'[d] = pc[d] /\ todo'[d] = todo[d] /\ Log(d)' = Log(d)
      /\ hpc' = hpc /\ event' = event /\ main' = main
  BY OthersStay DEF Call, PublishPanics, Create, CreateFails
<1>2. /\ main # "down" /\ UNCHANGED <<handed, raced>> /\ pc[c] = "create"
      /\ Log(c) \in Logs /\ NextLog(c)
      /\ redone \subseteq redone'
  BY LogOfCaller DEF Create, CreateFails, Up
<1>3. PICK n \in {0, 1} : /\ rows' = [rows EXCEPT ![Log(c)] = @ + n]
                          /\ n = 1 \/ Log(c) \in redone'
  BY DEF Create, CreateFails, MaybeStored
<1>4. CutOff'
  BY <1>1, <1>2 DEF CutOff
<1>5. /\ rows'[Log(c)] = rows[Log(c)] + n
      /\ \A l \in Logs \ {Log(c)} : rows'[l] = rows[l]
  BY <1>2, <1>3, Counted DEF TypeOK
<1>6. /\ \A d \in Callers, l \in Logs : AtCall(d, l)' => AtCall(d, l) /\ d # c
      /\ \A t \in Listeners, l \in Logs : AtHandler(t, l)' => AtHandler(t, l)
  BY <1>1, <1>2, NextLogLeaves DEF AtCall, AtHandler
<1>7. AtCall(c, Log(c))
  BY <1>2 DEF AtCall
<1>8. OneAtATime'
  <2> SUFFICES ASSUME NEW l \in Logs \ raced
               PROVE  /\ Busy(l)' => rows'[l] = 0
                      /\ rows'[l] <= 1
    BY <1>2, <1>6 DEF OnceInv, OneAtATime
  <2>1. Busy(l)' => Busy(l)
    BY <1>6, BusyIs, BusyIsPrime
  <2>2. CASE l = Log(c)
    <3>1. rows[l] = 0
      BY <1>7, <2>2, BusyIs DEF OnceInv, OneAtATime
    <3>2. ~Busy(l)'
      BY <1>6, <1>7, <2>2, BusyIsPrime DEF OnceInv, OneAtATime
    <3> QED
      BY <1>5, <2>2, <3>1, <3>2
  <2>3. CASE l # Log(c)
    BY <1>5, <2>1, <2>3 DEF OnceInv, OneAtATime
  <2> QED
    BY <2>2, <2>3
<1>9. HandedOnce'
  <2> SUFFICES ASSUME NEW l \in Logs \ (raced' \union redone')
               PROVE  /\ handed[l] <= 1
                      /\ handed[l] = 1 => rows'[l] = 1 \/ Creating(l)'
    BY <1>2 DEF HandedOnce
  <2>1. l \in Logs \ (raced \union redone) /\ l \in Logs \ raced
    BY <1>2
  <2>2. CASE l = Log(c)
    <3>1. n = 1
      BY <1>3, <2>2
    <3>2. Busy(l)
      BY <1>7, <2>2, BusyIs
    <3>3. rows[l] = 0
      BY <2>1, <3>2 DEF OnceInv, OneAtATime
    <3> QED
      BY <1>5, <2>1, <2>2, <3>1, <3>3 DEF OnceInv, HandedOnce
  <2>3. CASE l # Log(c)
    <3>1. Creating(l) => Creating(l)'
      BY <1>1, <2>3 DEF Creating
    <3> QED
      BY <1>5, <2>1, <2>3, <3>1 DEF OnceInv, HandedOnce
  <2> QED
    BY <2>2, <2>3
<1> QED
  BY <1>4, <1>8, <1>9 DEF OnceInv

(* The handlers hand nothing over, and store only what nobody else is at.  *)
LEMMA HandlerOnce ==
  ASSUME TypeOK, OnceInv, NEW t \in Listeners, Handler(t)
  PROVE  OnceInv'
<1> USE DEF Continue
<1>1. /\ \A u \in Listeners \ {t} : hpc'[u] = hpc[u] /\ event'[u] = event[u]
      /\ pc' = pc /\ todo' = todo /\ main' = main /\ UNCHANGED <<handed, redone>>
  BY DEF Handler, Receive, HandlerFinds, HandlerMisses, HandlerCreates, HandlerFails, TypeOK
<1>2. /\ CutOff'
      /\ \A c \in Callers : Log(c)' = Log(c)
      /\ \A c \in Callers, l \in Logs : AtCall(c, l)' <=> AtCall(c, l)
  BY <1>1 DEF OnceInv, CutOff, AtCall, Log
<1>3. CASE Receive(t) \/ HandlerFinds(t)
  <2>1. UNCHANGED <<rows, raced>> /\ hpc'[t] \in {"check", "loop"}
    BY <1>3 DEF Receive, HandlerFinds, TypeOK
  <2>2. \A u \in Listeners, l \in Logs : AtHandler(u, l)' => AtHandler(u, l)
    BY <1>1, <2>1 DEF AtHandler
  <2> QED
    BY <1>1, <1>2, <2>1, <2>2, QuietOnce
<1>4. CASE HandlerMisses(t)
  <2>1. /\ rows' = rows /\ hpc'[t] = "create" /\ event'[t] = event[t] /\ event[t] \in Logs
        /\ raced' = IF Busy(event[t]) \/ rows[event[t]] > 0 THEN raced \union {event[t]} ELSE raced
    BY <1>4 DEF HandlerMisses, TypeOK
  <2>2. ASSUME NEW l \in Logs \ raced'
        PROVE  /\ l \notin raced
               /\ \A u \in Listeners : AtHandler(u, l)' => AtHandler(u, l) \/ (u = t /\ l = event[t])
               /\ l = event[t] => ~Busy(l) /\ rows[l] = 0
    <3>1. rows[event[t]] \in Nat
      BY <2>1 DEF TypeOK
    <3> QED
      BY <1>1, <2>1, <3>1 DEF AtHandler
  <2>3. OneAtATime'
    BY <1>2, <2>1, <2>2, BusyIs, BusyIsPrime DEF OnceInv, OneAtATime
  <2>4. HandedOnce'
    BY <1>1, <1>2, <2>1 DEF OnceInv, HandedOnce, Creating
  <2> QED
    BY <1>2, <2>3, <2>4 DEF OnceInv
<1>5. CASE HandlerCreates(t) \/ HandlerFails(t)
  <2>1. /\ raced' = raced /\ hpc[t] = "create" /\ hpc'[t] = "loop"
        /\ event[t] \in Logs
    BY <1>5 DEF HandlerCreates, HandlerFails, TypeOK
  <2>2. PICK n \in {0, 1} : rows' = [rows EXCEPT ![event[t]] = @ + n]
    BY <1>5 DEF HandlerCreates, HandlerFails, MaybeStored
  <2>3. /\ rows'[event[t]] = rows[event[t]] + n
        /\ \A l \in Logs \ {event[t]} : rows'[l] = rows[l]
    BY <2>1, <2>2, Counted DEF TypeOK
  <2>4. \A u \in Listeners, l \in Logs : AtHandler(u, l)' => AtHandler(u, l) /\ u # t
    BY <1>1, <2>1 DEF AtHandler
  <2>5. AtHandler(t, event[t])
    BY <2>1 DEF AtHandler
  <2>6. OneAtATime'
    <3> SUFFICES ASSUME NEW l \in Logs \ raced
                 PROVE  /\ Busy(l)' => rows'[l] = 0
                        /\ rows'[l] <= 1
      BY <1>2, <2>1, <2>4 DEF OnceInv, OneAtATime
    <3>1. Busy(l)' => Busy(l)
      BY <1>2, <2>4, BusyIs, BusyIsPrime
    <3>2. CASE l = event[t]
      <4>1. rows[l] = 0
        BY <2>5, <3>2, BusyIs DEF OnceInv, OneAtATime
      <4>2. ~Busy(l)'
        BY <1>2, <2>4, <2>5, <3>2, BusyIsPrime DEF OnceInv, OneAtATime
      <4> QED
        BY <2>3, <3>2, <4>1, <4>2
    <3>3. CASE l # event[t]
      BY <2>3, <3>1, <3>3 DEF OnceInv, OneAtATime
    <3> QED
      BY <3>2, <3>3
  <2>7. HandedOnce'
    <3> SUFFICES ASSUME NEW l \in Logs \ (raced \union redone)
                 PROVE  /\ handed[l] <= 1
                        /\ handed[l] = 1 => rows'[l] = 1 \/ Creating(l)
      BY <1>1, <1>2, <2>1 DEF HandedOnce, Creating
    <3>1. CASE l = event[t]
      <4>1. rows[l] = 0
        BY <2>5, <3>1, BusyIs DEF OnceInv, OneAtATime
      <4> QED
        BY <4>1 DEF OnceInv, HandedOnce
    <3>2. CASE l # event[t]
      BY <2>3, <3>2 DEF OnceInv, HandedOnce
    <3> QED
      BY <3>1, <3>2
  <2> QED
    BY <1>2, <2>6, <2>7 DEF OnceInv
<1> QED
  BY <1>3, <1>4, <1>5 DEF Handler

(* The end of the process cuts off the creations that are under way.       *)
LEMMA EndsOnce == ASSUME TypeOK, OnceInv, Ends PROVE OnceInv'
<1>1. /\ UNCHANGED <<rows, pc, todo, hpc, event, handed, raced>> /\ redone \subseteq redone'
      /\ \A c \in Callers : pc[c] = "create" => Log(c) \in redone'
  BY DEF Ends
<1>2. /\ \A c \in Callers : Log(c)' = Log(c)
      /\ \A c \in Callers, l \in Logs : AtCall(c, l)' <=> AtCall(c, l)
      /\ \A t \in Listeners, l \in Logs : AtHandler(t, l)' <=> AtHandler(t, l)
  BY <1>1 DEF AtCall, AtHandler, Log
<1>3. CutOff'
  BY <1>1, <1>2 DEF CutOff
<1> QED
  BY <1>1, <1>2, <1>3, QuietOnce

LEMMA RestartOnce == ASSUME TypeOK, OnceInv, Restart PROVE OnceInv'
<1>1. /\ \A c \in Callers, l \in Logs : ~AtCall(c, l)'
      /\ \A t \in Listeners, l \in Logs : ~AtHandler(t, l)'
  BY DEF Restart, Fresh, AtCall, AtHandler
<1>2. CutOff'
  BY DEF Restart, Fresh, CutOff
<1>3. \A c \in Callers : pc[c] = "create" => Log(c) \in redone
  BY DEF Restart, OnceInv, CutOff
<1> QED
  BY <1>1, <1>2, <1>3, QuietOnce DEF Restart

LEMMA OnceStep == TypeOK /\ OnceInv /\ [Next]_vars => OnceInv'
<1> SUFFICES ASSUME TypeOK, OnceInv, [Next]_vars
             PROVE  OnceInv'
  OBVIOUS
<1>1. CASE Producer \/ StopProducer \/ StopServer \/ UNCHANGED vars
  <2>1. /\ UNCHANGED <<rows, pc, todo, hpc, event, handed, raced, redone>>
        /\ main' = "down" => main = "down"
    BY <1>1 DEF Producer, TakeEvent, Deliver, Refuse, StopProducer, StopServer, vars
  <2>2. /\ \A c \in Callers : Log(c)' = Log(c)
        /\ \A c \in Callers, l \in Logs : AtCall(c, l)' <=> AtCall(c, l)
        /\ \A t \in Listeners, l \in Logs : AtHandler(t, l)' <=> AtHandler(t, l)
    BY <2>1 DEF AtCall, AtHandler, Log
  <2>3. CutOff'
    BY <2>1, <2>2 DEF OnceInv, CutOff
  <2> QED
    BY <2>1, <2>2, <2>3, QuietOnce
<1>2. ASSUME Exit \/ Crash \/ \E c \in Callers : PublishPanics(c)
      PROVE  OnceInv'
  BY <1>2, EndsOnce DEF Exit, Crash, PublishPanics
<1> QED
  BY <1>1, <1>2, QuietCallOnce, NotFoundOnce, PublishOnce, CreateOnce, HandlerOnce, RestartOnce
     DEF Next, Main, Call

-----------------------------------------------------------------------------
LEMMA AppendHas ==
  ASSUME NEW S, NEW q \in Seq(S), NEW e \in S
  PROVE  /\ \A l : Has(q, l) => Has(Append(q, e), l)
         /\ Has(Append(q, e), e)
<1> USE DEF Has
<1>1. /\ DOMAIN q = 1 .. Len(q) /\ Len(q) \in Nat
      /\ DOMAIN Append(q, e) = 1 .. Len(q) + 1
      /\ Append(q, e)[Len(q) + 1] = e
      /\ \A i \in 1 .. Len(q) : Append(q, e)[i] = q[i]
  OBVIOUS
<1>2. Len(q) + 1 \in DOMAIN Append(q, e) /\ \A i \in 1 .. Len(q) : i \in DOMAIN Append(q, e)
  BY <1>1
<1> QED
  BY <1>1, <1>2, Zenon

LEMMA TailHas ==
  ASSUME NEW S, NEW q \in Seq(S), q # <<>>, NEW l, Has(q, l)
  PROVE  l = Head(q) \/ Has(Tail(q), l)
<1> USE DEF Has
<1>1. PICK i \in 1 .. Len(q) : q[i] = l
  OBVIOUS
<1>2. /\ Head(q) = q[1] /\ Len(q) \in Nat
      /\ DOMAIN Tail(q) = 1 .. Len(q) - 1
      /\ \A j \in 1 .. Len(q) - 1 : Tail(q)[j] = q[j + 1]
  OBVIOUS
<1>3. i = 1 \/ (i - 1 \in 1 .. Len(q) - 1 /\ Tail(q)[i - 1] = q[i])
  BY <1>2
<1> QED
  BY <1>1, <1>2, <1>3

(* The accounting in terms of where an event can be.                       *)
LEMMA AccountedIs ==
  ASSUME NEW l
  PROVE  /\ TypeOK => (Accounted(l) <=> InSent(l) \/ InHand(l) \/ InBuffer(l) \/ l \in lost)
         /\ TypeOK' => (Accounted(l)' <=> InSent(l)' \/ InHand(l)' \/ InBuffer(l)' \/ l \in lost')
<1>1. TypeOK => (InWaiting(l) <=> InHand(l) \/ InBuffer(l))
  BY WaitingIs, Zenon DEF WaitingParts
<1>2. TypeOK' => (InWaiting(l)' <=> InHand(l)' \/ InBuffer(l)')
  BY WaitingIsPrime, Zenon DEF WaitingParts
<1> QED
  BY <1>1, <1>2, Zenon DEF Accounted

(* A log that was handed over stays accounted for.                         *)
LEMMA AccountedStays ==
  ASSUME TypeOK, TypeOK', [Next]_vars, NEW l, Accounted(l)
  PROVE  Accounted(l)'
<1>1. InSent(l) \/ InHand(l) \/ InBuffer(l) \/ l \in lost
  BY AccountedIs
<1>2. Accounted(l)' <=> InSent(l)' \/ InHand(l)' \/ InBuffer(l)' \/ l \in lost'
  BY AccountedIs
<1>3. buffer \in Seq(Logs) /\ sent \in Seq(Logs) /\ hand \in Logs \union {None}
  BY DEF TypeOK
<1>4. ASSUME UNCHANGED producer PROVE Accounted(l)'
  BY <1>1, <1>2, <1>4 DEF InSent, InHand, InBuffer
<1>5. ASSUME NEW c \in Callers, Publish(c) PROVE Accounted(l)'
  <2>1. Log(c) \in Logs /\ buffer' = Append(buffer, Log(c)) /\ UNCHANGED <<sent, hand, lost>>
    BY <1>5, LogOfCaller DEF Publish
  <2>2. InBuffer(l) => InBuffer(l)'
    BY <1>3, <2>1, AppendHas DEF InBuffer
  <2>3. (InSent(l) => InSent(l)') /\ (InHand(l) => InHand(l)')
    BY <2>1 DEF InSent, InHand
  <2> QED
    BY <1>1, <1>2, <2>1, <2>2, <2>3
<1>6. ASSUME TakeEvent PROVE Accounted(l)'
  <2>1. /\ buffer # <<>> /\ hand = None /\ hand' = Head(buffer) /\ buffer' = Tail(buffer)
        /\ UNCHANGED <<sent, lost>>
    BY <1>6 DEF TakeEvent
  <2>2. Head(buffer) # None
    BY <1>3, <2>1
  <2>3. ASSUME InBuffer(l) PROVE InHand(l)' \/ InBuffer(l)'
    <3>1. l = Head(buffer) \/ Has(Tail(buffer), l)
      BY <1>3, <2>1, <2>3, TailHas, Zenon DEF InBuffer
    <3> QED
      BY <2>1, <2>2, <3>1 DEF InBuffer, InHand
  <2>4. (InSent(l) => InSent(l)') /\ ~InHand(l)
    BY <2>1 DEF InSent, InHand
  <2> QED
    BY <1>1, <1>2, <2>1, <2>3, <2>4
<1>7. ASSUME Deliver PROVE Accounted(l)'
  <2>1. hand \in Logs /\ sent' = Append(sent, hand) /\ UNCHANGED <<buffer, lost>>
    BY <1>3, <1>7 DEF Deliver
  <2>2. InSent(l) => InSent(l)'
    BY <1>3, <2>1, AppendHas DEF InSent
  <2>3. InHand(l) => InSent(l)'
    BY <1>3, <2>1, AppendHas DEF InHand, InSent
  <2>4. InBuffer(l) => InBuffer(l)'
    BY <2>1 DEF InBuffer
  <2> QED
    BY <1>1, <1>2, <2>1, <2>2, <2>3, <2>4
<1>8. ASSUME Refuse PROVE Accounted(l)'
  <2>1. /\ (InSent(l) => InSent(l)') /\ (InBuffer(l) => InBuffer(l)')
        /\ (InHand(l) => l \in lost') /\ lost \subseteq lost'
    BY <1>8 DEF Refuse, InSent, InBuffer, InHand
  <2> QED
    BY <1>1, <1>2, <2>1
<1>9. ASSUME Ends PROVE Accounted(l)'
  <2>1. (InSent(l) => InSent(l)') /\ (InWaiting(l) => l \in lost') /\ lost \subseteq lost'
    BY <1>9 DEF Ends, InSent, InWaiting, Has
  <2> QED
    BY <2>1 DEF Accounted
<1>10. \/ UNCHANGED producer \/ Ends \/ TakeEvent \/ Deliver \/ Refuse
       \/ \E c \in Callers : Publish(c)
  BY DEF Next, FilterLogs, Call, FindContractFails, Exists, NotFound, BlockByNumber, BlockFails,
     PublishPanics, Create, CreateFails, Handler, Receive, HandlerFinds, HandlerMisses,
     HandlerCreates, HandlerFails, Producer, Main, StopProducer,
     StopServer, Exit, Crash, Restart, vars
<1> QED
  BY <1>4, <1>5, <1>6, <1>7, <1>8, <1>9, <1>10

LEMMA SettledStays ==
  ASSUME TypeOK, TypeOK', [Next]_vars, NEW l, Settled(l)
  PROVE  Settled(l)'
<1>1. givenUp \subseteq givenUp'
  BY DEF Next, FilterLogs, Call, FindContractFails, Exists, NotFound, BlockByNumber, BlockFails,
     Publish, PublishPanics, Create, CreateFails, Handler, Receive, HandlerFinds, HandlerMisses,
     HandlerCreates, HandlerFails, Producer, TakeEvent, Deliver, Refuse, Main, StopProducer,
     StopServer, Exit, Crash, Ends, Restart, vars
<1>2. Accounted(l) => Accounted(l)'
  BY AccountedStays
<1> QED
  BY <1>1, <1>2 DEF Settled

(* A step that stores nothing and moves neither callers nor handlers.      *)
LEMMA IdleSettles ==
  ASSUME TypeOK, TypeOK', [Next]_vars, RowsSettled, OffersSettled,
         UNCHANGED <<rows, pc, todo, answer, handlers>>
  PROVE  RowsSettled' /\ OffersSettled'
<1>1. RowsSettled'
  BY SettledStays DEF RowsSettled
<1>2. \A c \in Callers : pc'[c] = "create" => Accounted(Log(c))'
  <2> SUFFICES ASSUME NEW c \in Callers, pc[c] = "create"
               PROVE  Accounted(Log(c))'
    OBVIOUS
  <2>1. PICK l : l = Log(c)
    OBVIOUS
  <2>2. Accounted(l)'
    BY <2>1, AccountedStays DEF OffersSettled
  <2>3. l = Log(c)'
    BY <2>1 DEF Log
  <2> QED
    BY <2>2, <2>3 DEF Accounted, InSent, InWaiting
<1>3. \A c \in Callers : \A l \in answer'[c] \ todo'[c] : Settled(l)'
  BY SettledStays DEF OffersSettled
<1>4. \A t \in Listeners : \A l \in offered'[t] : Settled(l)'
  BY SettledStays DEF OffersSettled
<1>5. \A t \in Listeners : hpc'[t] # "loop" => Settled(event[t])'
  BY SettledStays DEF OffersSettled
<1> QED
  BY <1>1, <1>2, <1>3, <1>4, <1>5 DEF OffersSettled

(* A step of caller c, at a log that is settled if it is through with it,  *)
(* and accounted for if it is about to create it.                          *)
LEMMA CallerSettles ==
  ASSUME TypeOK, TypeOK', [Next]_vars, RowsSettled, OffersSettled,
         NEW c \in Callers, NEW k, k = Log(c), pc[c] # "idle",
         \A d \in Callers \ {c} : pc'[d] = pc[d] /\ todo'[d] = todo[d] /\ Log(d)' = Log(d),
         UNCHANGED <<hpc, event>>,
         \/ UNCHANGED <<todo, answer, offered>> /\ (pc'[c] = "create" => Accounted(k)')
         \/ NextLog(c) /\ Settled(k)'
  PROVE  OffersSettled'
<1>1. ASSUME NEW d \in Callers, pc'[d] = "create"
      PROVE  Accounted(Log(d))'
  <2>1. CASE d = c
    <3>1. UNCHANGED todo /\ Accounted(k)'
      BY <1>1, <2>1, NextLogLeaves
    <3>2. k = Log(d)'
      BY <2>1, <3>1 DEF Log
    <3> QED
      BY <3>1, <3>2 DEF Accounted, InSent, InWaiting
  <2>2. CASE d # c
    <3>1. PICK l : l = Log(d)
      OBVIOUS
    <3>2. Accounted(l)'
      BY <1>1, <2>2, <3>1, AccountedStays DEF OffersSettled
    <3>3. l = Log(d)'
      BY <2>2, <3>1
    <3> QED
      BY <3>2, <3>3 DEF Accounted, InSent, InWaiting
  <2> QED
    BY <2>1, <2>2
<1>2. \A d \in Callers : \A l \in answer[d] : l \in todo[d] \/ Settled(l)'
  BY SettledStays DEF OffersSettled
<1>3. \A t \in Listeners : \A l \in offered[t] : Settled(l)'
  BY SettledStays DEF OffersSettled
<1>4. \A t \in Listeners : hpc'[t] # "loop" => Settled(event[t])'
  BY SettledStays DEF OffersSettled
<1>5. CASE UNCHANGED <<todo, answer, offered>>
  BY <1>1, <1>2, <1>3, <1>4, <1>5 DEF OffersSettled
<1>6. CASE NextLog(c) /\ Settled(k)'
  <2>1. /\ todo' = [todo EXCEPT ![c] = @ \ {k}]
        /\ todo \in [Callers -> SUBSET Logs] /\ answer \in [Callers -> SUBSET Logs]
        /\ offered \in [Listeners -> SUBSET Logs]
    BY <1>6 DEF NextLog, TypeOK
  <2>2. \A d \in Callers : \A l \in todo[d] : l \in todo'[d] \/ Settled(l)'
    BY <1>6, <2>1
  <2>3. \A d \in Callers : \A l \in answer'[d] : l \in answer[d]
    BY <1>6, <2>1 DEF NextLog
  <2>4. ASSUME NEW t \in Listeners, NEW l \in offered'[t]
        PROVE  Settled(l)'
    <3>1. CASE l \in offered[t]
      BY <1>3, <3>1
    <3>2. CASE l \notin offered[t]
      <4>1. todo[c] = {k} /\ l \in answer[c]
        BY <1>6, <2>1, <2>4, <3>2 DEF NextLog
      <4> QED
        BY <1>2, <1>6, <4>1
    <3> QED
      BY <3>1, <3>2
  <2> QED
    BY <1>1, <1>2, <1>4, <2>2, <2>3, <2>4 DEF OffersSettled
<1> QED
  BY <1>5, <1>6

(* The steps of a call.                                                    *)
LEMMA CallSettles ==
  ASSUME TypeOK, TypeOK', [Next]_vars, RowsSettled, OffersSettled,
         NEW c \in Callers, FilterLogs(c) \/ (Call(c) /\ ~PublishPanics(c))
  PROVE  RowsSettled' /\ OffersSettled'
<1>1. /\ \A d \in Callers \ {c} : pc'[d] = pc[d] /\ todo'[d] = todo[d] /\ Log(d)' = Log(d)
      /\ UNCHANGED <<hpc, event>>
  BY OthersStay
<1>2. PICK k : k = Log(c)
  OBVIOUS
<1>3. pc[c] # "idle" => k \in Logs
  BY <1>2, LogOfCaller
<1>4. \A l \in Logs : rows'[l] = rows[l] => (rows'[l] > 0 => Settled(l)')
  BY SettledStays DEF RowsSettled
<1>5. CASE FilterLogs(c)
  <2>1. PICK S \in (SUBSET Logs) \ {{}} : /\ todo' = [todo EXCEPT ![c] = S]
                                          /\ answer' = [answer EXCEPT ![c] = S]
    BY <1>5, Zenon DEF FilterLogs
  <2>2. UNCHANGED <<rows, offered>> /\ pc'[c] = "check" /\ answer'[c] = todo'[c]
    BY <1>5, <2>1 DEF FilterLogs, Goto, TypeOK
  <2>3. \A d \in Callers \ {c} : answer'[d] = answer[d]
    BY <2>1 DEF TypeOK
  <2>4. \A d \in Callers : pc'[d] = "create" => Accounted(Log(d))'
    <3> SUFFICES ASSUME NEW d \in Callers \ {c}, pc[d] = "create"
                 PROVE  Accounted(Log(d))'
      BY <1>1, <2>2
    <3>1. PICK l : l = Log(d)
      OBVIOUS
    <3>2. Accounted(l)' /\ l = Log(d)'
      BY <1>1, <3>1, AccountedStays DEF OffersSettled
    <3> QED
      BY <3>2 DEF Accounted, InSent, InWaiting
  <2>5. \A d \in Callers : \A l \in answer'[d] \ todo'[d] : Settled(l)'
    BY <1>1, <2>2, <2>3, SettledStays DEF OffersSettled
  <2>6. /\ \A t \in Listeners : \A l \in offered'[t] : Settled(l)'
        /\ \A t \in Listeners : hpc'[t] # "loop" => Settled(event[t])'
    BY <1>1, <2>2, SettledStays DEF OffersSettled
  <2> QED
    BY <1>4, <2>2, <2>4, <2>5, <2>6 DEF RowsSettled, OffersSettled
<1>6. CASE FindContractFails(c) \/ BlockFails(c)
  <2>1. UNCHANGED rows /\ pc[c] # "idle" /\ NextLog(c) /\ Settled(k)'
    BY <1>2, <1>6 DEF FindContractFails, BlockFails, Settled
  <2> QED
    BY <1>1, <1>2, <1>4, <2>1, CallerSettles DEF RowsSettled
<1>7. CASE Exists(c)
  <2>1. UNCHANGED rows /\ pc[c] # "idle" /\ NextLog(c) /\ rows[k] > 0
    BY <1>2, <1>7 DEF Exists
  <2>2. Settled(k)'
    BY <1>3, <1>4, <2>1
  <2> QED
    BY <1>1, <1>2, <1>4, <2>1, <2>2, CallerSettles DEF RowsSettled
<1>8. CASE NotFound(c) \/ BlockByNumber(c)
  <2>1. /\ UNCHANGED <<rows, todo, answer, offered>> /\ pc[c] # "idle"
        /\ pc'[c] \in {"block", "publish"}
    BY <1>8 DEF NotFound, BlockByNumber, Goto, TypeOK
  <2> QED
    BY <1>1, <1>2, <1>4, <2>1, CallerSettles DEF RowsSettled
<1>9. CASE Publish(c)
  <2>1. /\ UNCHANGED <<rows, todo, answer, offered>> /\ pc[c] # "idle"
        /\ buffer' = Append(buffer, k) /\ buffer \in Seq(Logs)
    BY <1>2, <1>9 DEF Publish, TypeOK
  <2>2. InBuffer(k)'
    BY <1>3, <2>1, AppendHas DEF InBuffer
  <2>3. Accounted(k)'
    BY <2>2, AccountedIs
  <2> QED
    BY <1>1, <1>2, <1>4, <2>1, <2>3, CallerSettles DEF RowsSettled
<1>10. CASE Create(c) \/ CreateFails(c)
  <2>1. pc[c] = "create" /\ NextLog(c)
    BY <1>10 DEF Create, CreateFails
  <2>2. Settled(k)'
    BY <1>2, <2>1, AccountedStays DEF OffersSettled, Settled
  <2>3. \A l \in Logs \ {k} : rows'[l] = rows[l]
    BY <1>2, <1>3, <1>10, <2>1 DEF Create, CreateFails, MaybeStored, TypeOK
  <2>4. RowsSettled'
    BY <1>4, <2>2, <2>3 DEF RowsSettled
  <2> QED
    BY <1>1, <1>2, <2>1, <2>2, <2>4, CallerSettles
<1> QED
  BY <1>5, <1>6, <1>7, <1>8, <1>9, <1>10 DEF Call

(* The steps of a handler, which stores only what it was offered.          *)
LEMMA HandlerSettles ==
  ASSUME TypeOK, TypeOK', [Next]_vars, RowsSettled, OffersSettled,
         NEW t \in Listeners, Handler(t)
  PROVE  RowsSettled' /\ OffersSettled'
<1> USE DEF Continue
<1>1. UNCHANGED <<callers, producer, givenUp>>
  BY DEF Handler, Receive, HandlerFinds, HandlerMisses, HandlerCreates, HandlerFails
<1>2. /\ \A l : (Accounted(l)' <=> Accounted(l)) /\ (Settled(l)' <=> Settled(l))
      /\ \A c \in Callers : Log(c)' = Log(c)
  BY <1>1 DEF Accounted, InSent, InWaiting, Waiting, Settled, Log
<1>3. \A c \in Callers : pc'[c] = "create" => Accounted(Log(c))'
  <2> SUFFICES ASSUME NEW c \in Callers, pc[c] = "create"
               PROVE  Accounted(Log(c))'
    BY <1>1
  <2>1. PICK l : l = Log(c)
    OBVIOUS
  <2>2. Accounted(l)' /\ l = Log(c)'
    BY <1>2, <2>1 DEF OffersSettled
  <2> QED
    BY <2>2 DEF Accounted, InSent, InWaiting
<1>4. \A c \in Callers : \A l \in answer'[c] \ todo'[c] : Settled(l)'
  BY <1>1, <1>2 DEF OffersSettled
<1>5. \A u \in Listeners : \A l \in offered'[u] : Settled(l)
  BY DEF Handler, Receive, HandlerFinds, HandlerMisses, HandlerCreates, HandlerFails,
     OffersSettled, TypeOK
<1>6. \A u \in Listeners : \A l : hpc'[u] # "loop" /\ event'[u] = l => Settled(l)
  <2>1. CASE Receive(t)
    <3>1. First(offered[t]) \in offered[t]
      BY <2>1, FirstOfLogs DEF Receive, TypeOK
    <3>2. event'[t] = First(offered[t]) /\ Settled(First(offered[t]))
      BY <2>1, <3>1 DEF Receive, OffersSettled, TypeOK
    <3>3. \A u \in Listeners \ {t} : hpc'[u] = hpc[u] /\ event'[u] = event[u]
      BY <2>1 DEF Receive, TypeOK
    <3> QED
      BY <3>2, <3>3 DEF OffersSettled
  <2>2. CASE ~Receive(t)
    <3>1. \A u \in Listeners : hpc'[u] # "loop" => hpc[u] # "loop" /\ event'[u] = event[u]
      BY <2>2 DEF Handler, HandlerFinds, HandlerMisses, HandlerCreates, HandlerFails, TypeOK
    <3> QED
      BY <3>1 DEF OffersSettled
  <2> QED
    BY <2>1, <2>2
<1>7. \A l \in Logs : rows'[l] > 0 => Settled(l)
  <2>1. CASE HandlerCreates(t) \/ HandlerFails(t)
    <3>1. PICK n \in {0, 1} : rows' = [rows EXCEPT ![event[t]] = @ + n]
      BY <2>1 DEF HandlerCreates, HandlerFails, MaybeStored
    <3>2. Settled(event[t])
      BY <2>1 DEF HandlerCreates, HandlerFails, OffersSettled
    <3>3. \A l \in Logs \ {event[t]} : rows'[l] = rows[l]
      BY <3>1 DEF TypeOK
    <3> QED
      BY <3>2, <3>3 DEF RowsSettled
  <2>2. CASE ~(HandlerCreates(t) \/ HandlerFails(t))
    BY <2>2 DEF Handler, Receive, HandlerFinds, HandlerMisses, RowsSettled
  <2> QED
    BY <2>1, <2>2
<1>8. \A u \in Listeners : hpc'[u] # "loop" => Settled(event[u])'
  <2> SUFFICES ASSUME NEW u \in Listeners, hpc'[u] # "loop"
               PROVE  Settled(event[u])'
    OBVIOUS
  <2>1. PICK l : l = event'[u]
    OBVIOUS
  <2>2. Settled(l)'
    BY <1>2, <1>6, <2>1
  <2> QED
    BY <2>1, <2>2 DEF Settled, Accounted, InSent, InWaiting
<1> QED
  BY <1>2, <1>3, <1>4, <1>5, <1>7, <1>8 DEF RowsSettled, OffersSettled

LEMMA RestartSettles ==
  ASSUME TypeOK, TypeOK', [Next]_vars, RowsSettled, Restart
  PROVE  RowsSettled' /\ OffersSettled'
<1>1. RowsSettled'
  BY SettledStays DEF Restart, RowsSettled
<1>2. OffersSettled'
  BY DEF Restart, Fresh, OffersSettled
<1> QED
  BY <1>1, <1>2

LEMMA SettledStep ==
  ASSUME TypeOK, TypeOK', [Next]_vars, RowsSettled, OffersSettled
  PROVE  RowsSettled' /\ OffersSettled'
<1>1. CASE Producer \/ StopProducer \/ StopServer \/ UNCHANGED vars
  <2>1. UNCHANGED <<rows, pc, todo, answer, handlers>>
    BY <1>1 DEF Producer, TakeEvent, Deliver, Refuse, StopProducer, StopServer, vars
  <2> QED
    BY <2>1, IdleSettles
<1>2. ASSUME Exit \/ Crash \/ \E c \in Callers : PublishPanics(c)
      PROVE  RowsSettled' /\ OffersSettled'
  <2>1. UNCHANGED <<rows, pc, todo, answer, handlers>>
    BY <1>2 DEF Exit, Crash, PublishPanics, Ends
  <2> QED
    BY <2>1, IdleSettles
<1> QED
  BY <1>1, <1>2, CallSettles, HandlerSettles, RestartSettles DEF Next, Main, Call

-----------------------------------------------------------------------------
LEMMA InitIInv == Init => IInv
<1> SUFFICES ASSUME Init
             PROVE  IInv
  OBVIOUS
<1>1. OneAtATime /\ HandedOnce /\ CutOff
  BY DEF Init, OneAtATime, HandedOnce, CutOff, AtCall, AtHandler, Busy
<1>2. RowsSettled /\ OffersSettled
  BY DEF Init, RowsSettled, OffersSettled
<1> QED
  BY <1>1, <1>2, InitType DEF IInv

LEMMA StepIInv == IInv /\ [Next]_vars => IInv'
<1> SUFFICES ASSUME IInv, [Next]_vars
             PROVE  IInv'
  OBVIOUS
<1>1. TypeOK'
  BY TypeStep DEF IInv
<1>2. OneAtATime' /\ HandedOnce' /\ CutOff'
  BY OnceStep DEF IInv, OnceInv
<1>3. RowsSettled' /\ OffersSettled'
  BY <1>1, SettledStep DEF IInv
<1> QED
  BY <1>1, <1>2, <1>3 DEF IInv

(* The invariant holds in every state of every run.                        *)
THEOREM Invariance == Spec => []IInv
  BY InitIInv, StepIInv, PTL DEF Spec

(* The state of the goroutines stays well formed, and the channel within   *)
(* its capacity, whatever fails and whenever the process ends.             *)
THEOREM TypeCorrect == Spec => []TypeOK
<1>1. IInv => TypeOK
  BY DEF IInv
<1> QED
  BY <1>1, Invariance, PTL

(* The order of FilterLogs, first Publish, then CreateEvent, and what the  *)
(* handlers store: every stored log went to Redis, is on its way, was lost *)
(* there, or was given up before it was handed over.                       *)
THEOREM EveryRowAccounted == Spec => []StoredIsAccounted
<1>1. IInv => StoredIsAccounted
  BY DEF IInv, RowsSettled, Settled, Accounted, InSent, InWaiting, Has, StoredIsAccounted
<1> QED
  BY <1>1, Invariance, PTL

(* A log that no two goroutines were at, and whose lookups did not fail,   *)
(* is stored once at most, and handed over once at most unless its         *)
(* creation went wrong.                                                    *)
THEOREM OnceWhenAlone == Spec => []AloneOnce
<1>1. IInv => AloneOnce
  BY DEF IInv, OneAtATime, HandedOnce, AloneOnce
<1> QED
  BY <1>1, Invariance, PTL

-----------------------------------------------------------------------------
(* The channel, with the event in the hand of its goroutine, is an event   *)
(* feed: what the service publishes keeps the order in which it was handed *)
(* over, and nothing is published that was not.                            *)
LEMMA FeedInit == Init => Feed!Init
  BY DEF Init, Feed!Init, Waiting

LEMMA FeedStep == TypeOK /\ [Next]_vars => [Feed!Next]_(Feed!feed)
<1> SUFFICES ASSUME TypeOK, [Next]_vars
             PROVE  Feed!Next \/ UNCHANGED <<Waiting, sent>>
  BY DEF Feed!feed
<1>1. buffer \in Seq(Logs) /\ hand \in Logs \union {None}
  BY DEF TypeOK
<1>2. CASE UNCHANGED producer
  BY <1>2 DEF Waiting
<1>3. ASSUME NEW c \in Callers, Publish(c) PROVE Feed!HandOver
  <2>1. Log(c) \in Logs /\ buffer' = Append(buffer, Log(c)) /\ UNCHANGED <<sent, hand>>
    BY <1>3, LogOfCaller DEF Publish
  <2>2. Waiting' = Append(Waiting, Log(c))
    <3>1. CASE hand = None
      BY <2>1, <3>1 DEF Waiting
    <3>2. CASE hand # None
      <4>1. Waiting = <<hand>> \o buffer /\ Waiting' = <<hand>> \o Append(buffer, Log(c))
        BY <2>1, <3>2 DEF Waiting
      <4> QED
        BY <1>1, <2>1, <3>2, <4>1
    <3> QED
      BY <3>1, <3>2
  <2> QED
    BY <2>1, <2>2 DEF Feed!HandOver
<1>4. ASSUME TakeEvent PROVE UNCHANGED <<Waiting, sent>>
  <2>1. /\ Waiting = buffer /\ buffer # <<>> /\ UNCHANGED sent
        /\ hand' = Head(buffer) /\ buffer' = Tail(buffer)
    BY <1>4 DEF TakeEvent, Waiting
  <2>2. Head(buffer) # None /\ buffer = <<Head(buffer)>> \o Tail(buffer)
    BY <1>1, <2>1
  <2> QED
    BY <2>1, <2>2 DEF Waiting
<1>5. ASSUME Deliver \/ Refuse PROVE Feed!Deliver \/ Feed!Refuse
  <2>1. /\ hand \in Logs /\ Waiting = <<hand>> \o buffer /\ Waiting' = buffer
        /\ sent' = Append(sent, hand) \/ UNCHANGED sent
    BY <1>1, <1>5 DEF Deliver, Refuse, Waiting
  <2>2. Waiting # <<>> /\ Head(Waiting) = hand /\ Tail(Waiting) = buffer
    BY <1>1, <2>1
  <2> QED
    BY <2>1, <2>2 DEF Feed!Deliver, Feed!Refuse
<1>6. ASSUME Ends PROVE Feed!Lose
  BY <1>6 DEF Ends, Waiting, Feed!Lose
<1>7. \/ UNCHANGED producer \/ Ends \/ TakeEvent \/ Deliver \/ Refuse
      \/ \E c \in Callers : Publish(c)
  BY DEF Next, FilterLogs, Call, FindContractFails, Exists, NotFound, BlockByNumber, BlockFails,
     PublishPanics, Create, CreateFails, Handler, Receive, HandlerFinds, HandlerMisses,
     HandlerCreates, HandlerFails, Producer, Main, StopProducer,
     StopServer, Exit, Crash, Restart, vars
<1> QED
  BY <1>2, <1>3, <1>4, <1>5, <1>6, <1>7 DEF Feed!Next

(* Calls, handlers, the producer's goroutine and whatever ends the process *)
(* only do to the published events what an event feed may do.              *)
THEOREM FeedImplemented == Spec => Feed!Spec
  BY FeedInit, FeedStep, TypeCorrect, PTL DEF Spec, Feed!Spec
=============================================================================
