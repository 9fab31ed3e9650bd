------------------------- MODULE GrpcServer_proofs -------------------------
(***************************************************************************)
(* Safety of the two halves of pkg/grpc/server.go: of Subscribers for any  *)
(* streams, broadcasters and channel capacity, and of StreamSession for    *)
(* any handlers and disconnect calls of a token.                           *)
(***************************************************************************)
EXTENDS Subscribers, StreamSession, TLAPS

-----------------------------------------------------------------------------
Slots == Streams \union {Empty}

(* The parts of the state TypeOK says nothing of.                          *)
CallsType ==
  /\ view \in [Broadcasters -> [array : Nat, len : Nat]]
  /\ next \in [Broadcasters -> Nat]
  /\ ch \in [Broadcasters -> Slots]
  /\ members \in [Broadcasters -> Seq(Slots)]
  /\ attempted \in [Broadcasters -> Seq(Slots)]
  /\ left \in [Broadcasters -> SUBSET Streams]

(* The stream that shifts slots is the one that holds the lock.            *)
LockHeld ==
  /\ \A s \in Streams : stream[s] = "moving" <=> mover = s
  /\ mover # Empty => before \in Seq(Slots) /\ Len(before) = Len(arrays[array])

(* The slots of the slice hold the open streams, each once.                *)
ListExact ==
  /\ \A i \in 1 .. len : /\ arrays[array][i] \in Streams
                         /\ stream[arrays[array][i]] = "open"
  /\ \A s \in Streams : stream[s] = "open" => \E i \in 1 .. len : arrays[array][i] = s
  /\ \A i, j \in 1 .. len : arrays[array][i] = arrays[array][j] => i = j

(* What a broadcaster finds in its slots is an open stream or one that     *)
(* unregistered since its snapshot.                                        *)
Seen(b, s) == s \in Streams /\ (stream[s] = "open" \/ s \in left[b])

ViewSeen(b) ==
  /\ \A i \in 1 .. view[b].len :
       /\ Seen(b, arrays[view[b].array][i])
       /\ mover # Empty /\ view[b].array = array => Seen(b, before[i])
  /\ pc[b] = "send" => Seen(b, ch[b])
  /\ pc[b] = "idle" => view[b].len = 0 /\ next[b] = 1 /\ attempted[b] = <<>>
  /\ mover # Empty /\ pc[b] # "idle" => mover \in left[b]

(* No stream of the snapshot up to the i-th has unregistered since.        *)
Ahead(b, i) == \A j \in 1 .. i : members[b][j] \notin left[b]

(* The i-th slot is still that of the i-th stream of the snapshot, and no  *)
(* other slot shows it.                                                    *)
SlotKept(b, i) ==
  /\ view[b].array = array => i <= len
  /\ \A k \in 1 .. view[b].len :
       /\ arrays[view[b].array][k] = members[b][i] <=> k = i
       /\ mover # Empty /\ view[b].array = array => (before[k] = members[b][i] <=> k = i)

(* It was, or is being, sent to at its turn and at no other.               *)
TurnKept(b, i) ==
  /\ \A k \in 1 .. Len(attempted[b]) : attempted[b][k] = members[b][i] <=> k = i
  /\ pc[b] = "send" => (ch[b] = members[b][i] <=> next[b] - 1 = i)

(* Ahead of the streams that unregister, the slots keep the snapshot.      *)
ViewKept(b) ==
  pc[b] # "idle" =>
    /\ Len(members[b]) = view[b].len
    /\ Len(attempted[b]) = IF pc[b] = "send" THEN next[b] - 2 ELSE next[b] - 1
    /\ \A i \in 1 .. view[b].len : Ahead(b, i) => SlotKept(b, i) /\ TurnKept(b, i)

SlotsSeen == \A b \in Broadcasters : ViewSeen(b)

SnapshotKept == \A b \in Broadcasters : ViewKept(b)

SlotsInv == TypeOK /\ CallsType /\ LockHeld /\ ListExact /\ SlotsSeen /\ SnapshotKept

(* The inductive invariant.                                                *)
IInv == SlotsInv /\ PanicOnlyOnLeaver

USE ConstantsAssumption
USE DEF list, calls, array

-----------------------------------------------------------------------------
(* Writing a slot.                                                         *)
LEMMA SetSlot ==
  ASSUME NEW S, NEW a \in Seq(S), NEW k \in 1 .. Len(a), NEW s \in S
  PROVE  /\ [a EXCEPT ![k] = s] \in Seq(S)
         /\ Len([a EXCEPT ![k] = s]) = Len(a)
         /\ [a EXCEPT ![k] = s][k] = s
         /\ \A i \in 1 .. Len(a) : i # k => [a EXCEPT ![k] = s][i] = a[i]
OBVIOUS

(* The array append moves to: longer, with the same content.               *)
LEMMA GrownIs ==
  ASSUME NEW a \in Seq(Slots)
  PROVE  /\ Grown(a) \in Seq(Slots) /\ Len(Grown(a)) > Len(a)
         /\ \A i \in 1 .. Len(a) : Grown(a)[i] = a[i]
<1> DEFINE cap == IF a = <<>> THEN 1 ELSE 2 * Len(a)
           tail == [i \in 1 .. cap - Len(a) |-> Empty]
<1>1. Len(a) \in Nat /\ (a # <<>> => Len(a) > 0)
  OBVIOUS
<1>2. cap \in Nat /\ cap > Len(a)
  BY <1>1
<1> HIDE DEF cap
<1>3. cap - Len(a) \in Nat \ {0}
  BY <1>1, <1>2
<1>4. tail \in Seq(Slots) /\ Len(tail) = cap - Len(a)
  BY <1>3 DEF Slots
<1> HIDE DEF tail
<1>5. /\ a \o tail \in Seq(Slots) /\ Len(a \o tail) = Len(a) + Len(tail)
      /\ \A i \in 1 .. Len(a) : (a \o tail)[i] = a[i]
  BY <1>4
<1>6. Grown(a) = a \o tail
  BY DEF Grown, tail, cap
<1> QED
  BY <1>1, <1>2, <1>4, <1>5, <1>6

(* append puts the stream behind the others, and touches no other slot.    *)
LEMMA AppendIs ==
  ASSUME TypeOK, NEW s \in Streams, Append1(s)
  PROVE  /\ arrays' \in Seq(Seq(Slots)) /\ array' \in {array, array + 1}
         /\ len' = len + 1 /\ len' \in 1 .. Len(arrays'[array'])
         /\ arrays'[array'][len'] = s
         /\ \A i \in 1 .. len : arrays'[array'][i] = arrays[array][i]
         /\ \A j \in 1 .. array :
              /\ Len(arrays'[j]) = Len(arrays[j])
              /\ \A i \in 1 .. Len(arrays[j]) :
                   arrays'[j][i] = arrays[j][i] \/ (j = array' /\ i = len')
<1>1. /\ arrays \in Seq(Seq(Slots)) /\ array \in Nat \ {0} /\ len \in Nat
      /\ arrays[array] \in Seq(Slots) /\ len <= Len(arrays[array])
      /\ s \in Slots /\ len' = len + 1
  BY DEF TypeOK, Slots, Append1
<1>2. CASE len < Len(arrays[array])
  <2> DEFINE a == [arrays[array] EXCEPT ![len + 1] = s]
  <2>1. len + 1 \in 1 .. Len(arrays[array])
    BY <1>1, <1>2
  <2>2. /\ a \in Seq(Slots) /\ Len(a) = Len(arrays[array]) /\ a[len + 1] = s
        /\ \A i \in 1 .. Len(arrays[array]) : i # len + 1 => a[i] = arrays[array][i]
    BY <1>1, <2>1, SetSlot
  <2>3. arrays' = [arrays EXCEPT ![array] = a]
    BY <1>2 DEF Append1
  <2> HIDE DEF a
  <2>4. /\ arrays' \in Seq(Seq(Slots)) /\ array' = array /\ arrays'[array] = a
        /\ \A j \in 1 .. array : j # array => arrays'[j] = arrays[j]
    BY <1>1, <2>2, <2>3
  <2>5. \A i \in 1 .. len : i \in 1 .. Len(arrays[array]) /\ i # len + 1
    BY <1>1, <1>2
  <2>6. \A i \in 1 .. len : arrays'[array'][i] = arrays[array][i]
    BY <2>2, <2>4, <2>5
  <2>7. \A j \in 1 .. array :
          /\ Len(arrays'[j]) = Len(arrays[j])
          /\ \A i \in 1 .. Len(arrays[j]) :
               arrays'[j][i] = arrays[j][i] \/ (j = array' /\ i = len')
    BY <1>1, <2>2, <2>4
  <2> QED
    BY <1>1, <2>1, <2>2, <2>4, <2>6, <2>7
<1>3. CASE ~(len < Len(arrays[array]))
  <2> DEFINE g == Grown(arrays[array])
             a == [g EXCEPT ![len + 1] = s]
  <2>0. /\ g \in Seq(Slots) /\ Len(g) > Len(arrays[array])
        /\ \A i \in 1 .. Len(arrays[array]) : g[i] = arrays[array][i]
    BY <1>1, GrownIs, Zenon
  <2> HIDE DEF g
  <2>1. \A i \in 1 .. len : g[i] = arrays[array][i]
    BY <1>1, <2>0
  <2>2. len + 1 \in 1 .. Len(g)
    BY <1>1, <1>3, <2>0
  <2>3. /\ a \in Seq(Slots) /\ Len(a) = Len(g) /\ a[len + 1] = s
        /\ \A i \in 1 .. Len(g) : i # len + 1 => a[i] = g[i]
    BY <2>0, <2>2, <1>1, SetSlot
  <2>4. arrays' = Append(arrays, a)
    BY <1>3 DEF Append1, g
  <2> HIDE DEF a
  <2>5. /\ arrays' \in Seq(Seq(Slots)) /\ array' = array + 1 /\ arrays'[array + 1] = a
        /\ \A j \in 1 .. array : arrays'[j] = arrays[j]
    BY <1>1, <2>3, <2>4
  <2>6. \A i \in 1 .. len : i \in 1 .. Len(g) /\ i # len + 1
    BY <1>1, <2>2
  <2> QED
    BY <1>1, <2>1, <2>2, <2>3, <2>5, <2>6
<1> QED
  BY <1>2, <1>3

(* The position of an open stream in the slice.                            *)
Position(s) == SelectInSeq(Registered, LAMBDA x : x = s)

LEMMA PositionIs ==
  ASSUME TypeOK, ListExact, NEW s \in Streams, stream[s] = "open"
  PROVE  Position(s) \in 1 .. len /\ arrays[array][Position(s)] = s
<1>1. PICK p \in 1 .. len : arrays[array][p] = s /\ \A i \in 1 .. len : arrays[array][i] = s => i = p
  BY DEF ListExact
<1>2. Len(Registered) = len /\ \A i \in 1 .. len : Registered[i] = arrays[array][i]
  BY DEF TypeOK, Registered
<1>3. {i \in 1 .. Len(Registered) : Registered[i] = s} = {p}
  BY <1>1, <1>2
<1>4. Min({p}) = p
  BY <1>1 DEF Min
<1>5. Position(s) = p
  BY <1>3, <1>4 DEF Position, SelectInSeq
<1> QED
  BY <1>1, <1>5

(* The removal shifts the slots behind the stream's, and no others.        *)
LEMMA ShiftIs ==
  ASSUME TypeOK, ListExact, NEW s \in Streams, Unsubscribe(s)
  PROVE  /\ arrays' \in Seq(Seq(Slots)) /\ array' = array
         /\ len \in Nat \ {0} /\ len' = len - 1 /\ len <= Len(arrays[array])
         /\ \A j \in 1 .. array : Len(arrays'[j]) = Len(arrays[j])
         /\ \A j \in 1 .. array : j # array => arrays'[j] = arrays[j]
         /\ Position(s) \in 1 .. len /\ arrays[array][Position(s)] = s
         /\ \A k \in 1 .. Len(arrays[array]) :
              arrays'[array][k] = IF Position(s) <= k /\ k < len
                                    THEN arrays[array][k + 1] ELSE arrays[array][k]
<1> DEFINE a == Shifted(s)
<1>1. /\ arrays \in Seq(Seq(Slots)) /\ array \in Nat \ {0} /\ len \in Nat
      /\ arrays[array] \in Seq(Slots) /\ len <= Len(arrays[array])
  BY DEF TypeOK, Slots
<1>2. Position(s) \in 1 .. len /\ arrays[array][Position(s)] = s
  BY PositionIs DEF Unsubscribe
<1>3. a = [k \in 1 .. Len(arrays[array]) |->
             IF Position(s) <= k /\ k < len THEN arrays[array][k + 1] ELSE arrays[array][k]]
  BY DEF Shifted, Position
<1>4. arrays' = [arrays EXCEPT ![array] = a] /\ len' = len - 1
  BY DEF Unsubscribe
<1> HIDE DEF a
<1>5. \A k \in 1 .. Len(arrays[array]) :
        (IF Position(s) <= k /\ k < len THEN arrays[array][k + 1] ELSE arrays[array][k]) \in Slots
  BY <1>1, <1>2
<1>6. a \in Seq(Slots) /\ Len(a) = Len(arrays[array])
  BY <1>1, <1>3, <1>5
<1>7. /\ arrays' \in Seq(Seq(Slots)) /\ array' = array /\ arrays'[array] = a
      /\ \A j \in 1 .. array : j # array => arrays'[j] = arrays[j]
  BY <1>1, <1>4, <1>6
<1> QED
  BY <1>1, <1>2, <1>3, <1>4, <1>6, <1>7

-----------------------------------------------------------------------------
(* The views of the broadcasters, as TypeOK has them.                      *)
ViewsFit ==
  \A b \in Broadcasters :
    /\ view[b].array \in 1 .. array
    /\ view[b].len \in 0 .. Len(arrays[view[b].array])
    /\ next[b] \in 1 .. view[b].len + 1

ListType ==
  /\ arrays \in Seq(Seq(Slots)) /\ arrays # <<>>
  /\ len \in 0 .. Len(arrays[array])
  /\ mover \in Slots
  /\ stream \in [Streams -> {"new", "open", "moving", "unlocked", "closed"}]

ProgressType ==
  /\ buffered \in [Streams -> 0 .. Cap]
  /\ pc \in [Broadcasters -> {"idle", "loop", "send"}]
  /\ crashed \in BOOLEAN

LEMMA TypeIs ==
  /\ TypeOK <=> ListType /\ ProgressType /\ ViewsFit
  /\ TypeOK' <=> ListType' /\ ProgressType' /\ ViewsFit'
  BY DEF TypeOK, ListType, ProgressType, ViewsFit, Slots

LEMMA SubscribeSlots ==
  ASSUME SlotsInv, NEW s \in Streams, Subscribe(s)
  PROVE  SlotsInv'
<1>1. /\ TypeOK /\ CallsType /\ LockHeld /\ ListExact /\ SlotsSeen /\ SnapshotKept
  BY DEF SlotsInv
<1>2. /\ mover = Empty /\ stream[s] = "new" /\ Append1(s)
      /\ stream' = [stream EXCEPT ![s] = "open"]
      /\ UNCHANGED <<mover, before, buffered, calls, left, crashed>>
  BY DEF Subscribe, Unlocked
<1>3. /\ arrays' \in Seq(Seq(Slots)) /\ array' \in {array, array + 1}
      /\ len' = len + 1 /\ len' \in 1 .. Len(arrays'[array'])
      /\ arrays'[array'][len'] = s
      /\ \A i \in 1 .. len : arrays'[array'][i] = arrays[array][i]
      /\ \A j \in 1 .. array :
           /\ Len(arrays'[j]) = Len(arrays[j])
           /\ \A i \in 1 .. Len(arrays[j]) :
                arrays'[j][i] = arrays[j][i] \/ (j = array' /\ i = len')
  BY <1>1, <1>2, AppendIs
<1>4. /\ array \in Nat \ {0} /\ len \in Nat
      /\ stream \in [Streams -> {"new", "open", "moving", "unlocked", "closed"}]
  BY <1>1 DEF TypeOK
<1>5. stream'[s] = "open" /\ \A r \in Streams : r # s => stream'[r] = stream[r]
  BY <1>2, <1>4
<1>6. TypeOK'
  <2>1. ListType'
    BY <1>1, <1>2, <1>3, <1>4, TypeIs DEF ListType
  <2>2. ProgressType'
    BY <1>1, <1>2, TypeIs DEF ProgressType
  <2>3. ViewsFit'
    <3>1. ViewsFit
      BY <1>1, TypeIs
    <3> QED
      BY <1>2, <1>3, <1>4, <3>1 DEF ViewsFit
  <2> QED
    BY <2>1, <2>2, <2>3, TypeIs
<1>7. CallsType'
  BY <1>1, <1>2 DEF CallsType
<1>8. LockHeld'
  BY <1>1, <1>2, <1>5 DEF LockHeld
<1>9. ListExact'
  <2>1. ASSUME NEW i \in 1 .. len PROVE arrays'[array'][i] = arrays[array][i] /\ arrays[array][i] # s
    BY <1>1, <1>2, <1>3 DEF ListExact
  <2>2. \A i \in 1 .. len' : i = len' \/ i \in 1 .. len
    BY <1>3, <1>4
  <2>3. 1 .. len \subseteq 1 .. len' /\ len' \in 1 .. len'
    BY <1>3, <1>4
  <2>4. ASSUME NEW i \in 1 .. len'
        PROVE  /\ arrays'[array'][i] \in Streams
               /\ stream'[arrays'[array'][i]] = "open"
    <3>1. CASE i = len'
      BY <1>3, <1>5, <3>1
    <3>2. CASE i \in 1 .. len
      <4>1. arrays[array][i] \in Streams /\ stream[arrays[array][i]] = "open"
        BY <1>1, <3>2 DEF ListExact
      <4> QED
        BY <1>5, <2>1, <3>2, <4>1
    <3> QED
      BY <2>2, <3>1, <3>2
  <2>5. ASSUME NEW r \in Streams, stream'[r] = "open"
        PROVE  \E i \in 1 .. len' : arrays'[array'][i] = r
    <3>1. CASE r = s
      BY <1>3, <2>3, <3>1
    <3>2. CASE r # s
      <4>1. PICK i \in 1 .. len : arrays[array][i] = r
        BY <1>1, <1>5, <2>5, <3>2 DEF ListExact
      <4> QED
        BY <2>1, <2>3, <4>1
    <3> QED
      BY <3>1, <3>2
  <2>6. ASSUME NEW i \in 1 .. len', NEW j \in 1 .. len', arrays'[array'][i] = arrays'[array'][j]
        PROVE  i = j
    <3>1. \A k, l \in 1 .. len : arrays[array][k] = arrays[array][l] => k = l
      BY <1>1 DEF ListExact
    <3> QED
      BY <1>3, <2>1, <2>2, <2>6, <3>1
  <2> QED
    BY <2>4, <2>5, <2>6 DEF ListExact
<1>10. ASSUME NEW b \in Broadcasters
       PROVE  /\ view'[b] = view[b] /\ view[b].array \in 1 .. array
              /\ \A i \in 1 .. view[b].len :
                   /\ i \in 1 .. Len(arrays[view[b].array])
                   /\ \/ arrays'[view[b].array][i] = arrays[view[b].array][i]
                      \/ view[b].array = array' /\ i = len' /\ arrays'[view[b].array][i] = s
  <2>1. /\ view'[b] = view[b] /\ view[b].array \in 1 .. array
        /\ view[b].len \in 0 .. Len(arrays[view[b].array])
        /\ Len(arrays[view[b].array]) \in Nat
    BY <1>1, <1>2 DEF TypeOK
  <2>2. \A i \in 1 .. view[b].len : i \in 1 .. Len(arrays[view[b].array])
    BY <2>1
  <2> QED
    BY <1>3, <2>1, <2>2
<1>11. \A b \in Broadcasters : \A r : Seen(b, r) => Seen(b, r)'
  BY <1>2, <1>5 DEF Seen
<1>12. \A b \in Broadcasters : Seen(b, s)'
  BY <1>5 DEF Seen
<1>13. SlotsSeen'
  BY <1>1, <1>2, <1>10, <1>11, <1>12 DEF SlotsSeen, ViewSeen
<1>14. SnapshotKept'
  <2> SUFFICES ASSUME NEW b \in Broadcasters, pc[b] # "idle",
                      NEW i \in 1 .. view[b].len, Ahead(b, i)
               PROVE  SlotKept(b, i)'
    BY <1>1, <1>2 DEF SnapshotKept, ViewKept, Ahead, TurnKept
  <2> DEFINE q == view[b].array
  <2>1. q = array' => q = array
    BY <1>3, <1>4, <1>10
  <2>2. SlotKept(b, i)
    BY <1>1 DEF SnapshotKept, ViewKept
  <2>3. q = array' => i \in 1 .. len /\ i <= len' /\ i # len'
    BY <1>3, <1>4, <2>1, <2>2 DEF SlotKept
  <2>4. arrays[q][i] = members[b][i]
    BY <2>2 DEF SlotKept
  <2>5. q = array' => members[b][i] # s
    BY <1>1, <1>2, <2>1, <2>3, <2>4 DEF ListExact
  <2>6. ASSUME NEW k \in 1 .. view[b].len
        PROVE  arrays'[q][k] = members[b][i] <=> k = i
    <3>1. CASE arrays'[q][k] = arrays[q][k]
      BY <2>2, <3>1 DEF SlotKept
    <3>2. CASE q = array' /\ k = len' /\ arrays'[q][k] = s
      BY <2>3, <2>5, <3>2
    <3> QED
      BY <1>10, <3>1, <3>2
  <2> QED
    BY <1>2, <1>10, <2>3, <2>6 DEF SlotKept
<1> QED
  BY <1>6, <1>7, <1>8, <1>9, <1>13, <1>14 DEF SlotsInv

LEMMA UnsubscribeSlots ==
  ASSUME SlotsInv, NEW s \in Streams, Unsubscribe(s)
  PROVE  SlotsInv'
<1>1. /\ TypeOK /\ CallsType /\ LockHeld /\ ListExact /\ SlotsSeen /\ SnapshotKept
  BY DEF SlotsInv
<1>2. /\ mover = Empty /\ stream[s] = "open" /\ mover' = s /\ before' = arrays[array]
      /\ stream' = [stream EXCEPT ![s] = "moving"]
      /\ left' = [b \in Broadcasters |-> IF pc[b] = "idle" THEN {} ELSE left[b] \union {s}]
      /\ UNCHANGED <<buffered, calls, crashed>>
  BY DEF Unsubscribe, Unlocked
<1> DEFINE p == Position(s)
<1>3. /\ arrays' \in Seq(Seq(Slots)) /\ array' = array
      /\ len \in Nat \ {0} /\ len' = len - 1 /\ len <= Len(arrays[array])
      /\ \A j \in 1 .. array : Len(arrays'[j]) = Len(arrays[j])
      /\ \A j \in 1 .. array : j # array => arrays'[j] = arrays[j]
      /\ p \in 1 .. len /\ arrays[array][p] = s
      /\ \A k \in 1 .. Len(arrays[array]) :
           arrays'[array][k] = IF p <= k /\ k < len
                                 THEN arrays[array][k + 1] ELSE arrays[array][k]
  BY <1>1, <1>2, ShiftIs
<1> HIDE DEF p
<1>4. /\ array \in Nat \ {0} /\ arrays[array] \in Seq(Slots) /\ Len(arrays[array]) \in Nat
      /\ stream \in [Streams -> {"new", "open", "moving", "unlocked", "closed"}]
  BY <1>1 DEF TypeOK, Slots
<1>5. stream'[s] = "moving" /\ \A r \in Streams : r # s => stream'[r] = stream[r]
  BY <1>2, <1>4
<1>6. TypeOK'
  <2>1. ListType'
    <3>1. stream' \in [Streams -> {"new", "open", "moving", "unlocked", "closed"}]
      BY <1>2, <1>4
    <3>2. arrays' # <<>> /\ len' \in 0 .. Len(arrays'[array']) /\ mover' \in Slots
      BY <1>2, <1>3, <1>4 DEF Slots
    <3> QED
      BY <1>3, <3>1, <3>2 DEF ListType
  <2>2. ProgressType'
    BY <1>1, <1>2, TypeIs DEF ProgressType
  <2>3. ViewsFit'
    <3>1. ViewsFit
      BY <1>1, TypeIs
    <3> QED
      BY <1>2, <1>3, <1>4, <3>1 DEF ViewsFit
  <2> QED
    BY <2>1, <2>2, <2>3, TypeIs
<1>7. CallsType'
  BY <1>1, <1>2 DEF CallsType
<1>8. LockHeld'
  <2>1. \A r \in Streams : stream[r] # "moving"
    BY <1>1, <1>2 DEF LockHeld
  <2>2. \A r \in Streams : stream'[r] = "moving" <=> mover' = r
    BY <1>2, <1>5, <2>1
  <2>3. before' \in Seq(Slots) /\ Len(before') = Len(arrays'[array'])
    BY <1>2, <1>3, <1>4
  <2> QED
    BY <2>2, <2>3 DEF LockHeld
<1>9. ListExact'
  <2> DEFINE from(i) == IF i < p THEN i ELSE i + 1
  <2>1. ASSUME NEW i \in 1 .. len'
        PROVE  from(i) \in 1 .. len /\ from(i) # p /\ arrays'[array'][i] = arrays[array][from(i)]
    <3>1. i \in 1 .. Len(arrays[array]) /\ i < len
      BY <1>3, <1>4
    <3> QED
      BY <1>3, <3>1
  <2>2. \A i, j \in 1 .. len' : from(i) = from(j) => i = j
    BY <1>3
  <2>3. \A j \in 1 .. len : j # p => \E i \in 1 .. len' : from(i) = j
    <3> SUFFICES ASSUME NEW j \in 1 .. len, j # p
                 PROVE  \E i \in 1 .. len' : from(i) = j
      OBVIOUS
    <3>1. CASE j < p
      BY <1>3, <3>1
    <3>2. CASE j > p
      <4>1. j - 1 \in 1 .. len' /\ from(j - 1) = j
        BY <1>3, <3>2
      <4> QED
        BY <4>1
    <3> QED
      BY <1>3, <3>1, <3>2
  <2> HIDE DEF from
  <2>4. \A i, j \in 1 .. len : arrays[array][i] = arrays[array][j] => i = j
    BY <1>1 DEF ListExact
  <2>5. ASSUME NEW i \in 1 .. len'
        PROVE  /\ arrays'[array'][i] \in Streams
               /\ stream'[arrays'[array'][i]] = "open"
    <3>1. arrays[array][from(i)] \in Streams /\ stream[arrays[array][from(i)]] = "open"
      BY <1>1, <2>1 DEF ListExact
    <3>2. arrays[array][from(i)] # s
      BY <1>3, <2>1, <2>4
    <3> QED
      BY <1>5, <2>1, <3>1, <3>2
  <2>6. ASSUME NEW r \in Streams, stream'[r] = "open"
        PROVE  \E i \in 1 .. len' : arrays'[array'][i] = r
    <3>1. r # s /\ stream[r] = "open"
      BY <1>5, <2>6
    <3>2. PICK j \in 1 .. len : arrays[array][j] = r
      BY <1>1, <3>1 DEF ListExact
    <3>3. PICK i \in 1 .. len' : from(i) = j
      BY <1>3, <2>3, <3>1, <3>2
    <3> QED
      BY <2>1, <3>2, <3>3
  <2>7. ASSUME NEW i \in 1 .. len', NEW j \in 1 .. len', arrays'[array'][i] = arrays'[array'][j]
        PROVE  i = j
    BY <2>1, <2>2, <2>4, <2>7
  <2> QED
    BY <2>5, <2>6, <2>7 DEF ListExact
<1> DEFINE SeenNext(b, r) == r \in Streams /\ (stream'[r] = "open" \/ r \in left'[b])
<1>10. ASSUME NEW b \in Broadcasters, pc[b] # "idle"
       PROVE  s \in left'[b] /\ \A r : Seen(b, r) => SeenNext(b, r)
  BY <1>1, <1>2, <1>5, <1>10 DEF Seen, CallsType
<1>11. ASSUME NEW b \in Broadcasters, pc[b] # "idle", NEW i \in 1 .. view[b].len
       PROVE  /\ SeenNext(b, arrays'[view[b].array][i])
              /\ view[b].array = array => SeenNext(b, before'[i])
  <2> DEFINE q == view[b].array
  <2>1. /\ q \in 1 .. array /\ i \in 1 .. Len(arrays[q]) /\ Seen(b, arrays[q][i])
    BY <1>1, <1>11 DEF TypeOK, SlotsSeen, ViewSeen
  <2>2. SeenNext(b, arrays[q][i])
    BY <1>10, <1>11, <2>1
  <2>3. \A j \in 1 .. len : SeenNext(b, arrays[array][j])
    BY <1>1, <1>10, <1>11 DEF ListExact, Seen
  <2> HIDE DEF SeenNext
  <2>4. CASE q # array
    BY <1>3, <2>1, <2>2, <2>4
  <2>5. CASE q = array
    <3>1. before'[i] = arrays[q][i]
      BY <1>2, <2>5
    <3>2. CASE p <= i /\ i < len
      <4>1. arrays'[q][i] = arrays[array][i + 1] /\ i + 1 \in 1 .. len
        BY <1>3, <2>1, <2>5, <3>2
      <4> QED
        BY <2>2, <2>3, <3>1, <4>1
    <3>3. CASE ~(p <= i /\ i < len)
      <4>1. arrays'[q][i] = arrays[q][i]
        BY <1>3, <2>1, <2>5, <3>3
      <4> QED
        BY <2>2, <3>1, <4>1
    <3> QED
      BY <3>2, <3>3
  <2> QED
    BY <2>4, <2>5
<1>12. SlotsSeen'
  <2>1. ASSUME NEW b \in Broadcasters, pc[b] = "idle"
        PROVE  view[b].len = 0 /\ 1 .. view[b].len = {} /\ next[b] = 1 /\ attempted[b] = <<>>
    BY <1>1, <2>1 DEF SlotsSeen, ViewSeen
  <2>2. ASSUME NEW b \in Broadcasters, pc[b] = "send"
        PROVE  SeenNext(b, ch[b])
    BY <1>1, <1>10, <2>2 DEF SlotsSeen, ViewSeen
  <2>3. ASSUME NEW b \in Broadcasters
        PROVE  \A i \in 1 .. view[b].len :
                 /\ SeenNext(b, arrays'[view[b].array][i])
                 /\ view[b].array = array => SeenNext(b, before'[i])
    <3>1. CASE pc[b] = "idle"
      BY <2>1, <3>1
    <3>2. CASE pc[b] # "idle"
      BY <1>11, <3>2
    <3> QED
      BY <3>1, <3>2
  <2>4. pc' = pc /\ view' = view /\ ch' = ch /\ next' = next /\ attempted' = attempted
    BY <1>2
  <2>5. mover' = s
    BY <1>2
  <2> QED
    BY <1>3, <1>10, <2>1, <2>2, <2>3, <2>4, <2>5 DEF SlotsSeen, ViewSeen, Seen
<1>13. SnapshotKept'
  <2>1. ASSUME NEW b \in Broadcasters, pc[b] # "idle",
               NEW i \in 1 .. view[b].len, Ahead(b, i)'
        PROVE  Ahead(b, i) /\ SlotKept(b, i)'
    <3> DEFINE q == view[b].array
    <3>1. left'[b] = left[b] \union {s} /\ members'[b] = members[b] /\ view'[b] = view[b]
      BY <1>2, <2>1
    <3>2. Ahead(b, i) /\ \A j \in 1 .. i : members[b][j] # s
      BY <2>1, <3>1 DEF Ahead
    <3>3. SlotKept(b, i)
      BY <1>1, <2>1, <3>2 DEF SnapshotKept, ViewKept
    <3>4. /\ q \in 1 .. array /\ \A k \in 1 .. view[b].len : k \in 1 .. Len(arrays[q])
          /\ view[b].len \in Nat
      <4>1. /\ q \in 1 .. array /\ view[b].len \in 0 .. Len(arrays[q])
            /\ Len(arrays[q]) \in Nat
        BY <1>1 DEF TypeOK
      <4>2. \A k \in 1 .. view[b].len : k \in 1 .. Len(arrays[q])
        BY <4>1
      <4> QED
        BY <4>1, <4>2
    <3>5. CASE q # array
      <4>1. arrays'[q] = arrays[q]
        BY <1>3, <3>4, <3>5
      <4> QED
        BY <1>3, <3>1, <3>2, <3>3, <3>5, <4>1 DEF SlotKept
    <3>6. CASE q = array
      <4>1. i <= len /\ i \in 1 .. len /\ arrays[q][i] = members[b][i]
        BY <1>3, <3>3, <3>6 DEF SlotKept
      <4>2. p > i
        <5> SUFFICES ASSUME p \in 1 .. i
                     PROVE  FALSE
          BY <1>3
        <5>1. p \in 1 .. view[b].len /\ Ahead(b, p)
          BY <3>2, <3>4 DEF Ahead
        <5>2. arrays[q][p] = members[b][p]
          BY <1>1, <2>1, <5>1 DEF SnapshotKept, ViewKept, SlotKept
        <5> QED
          BY <1>3, <3>2, <3>6, <5>2
      <4>3. i <= len'
        BY <1>3, <4>2
      <4>4. ASSUME NEW k \in 1 .. view[b].len
            PROVE  /\ before'[k] = members[b][i] <=> k = i
                   /\ arrays'[q][k] = members[b][i] <=> k = i
        <5>1. before'[k] = arrays[q][k] /\ (arrays[q][k] = members[b][i] <=> k = i)
          BY <1>2, <3>3, <3>6 DEF SlotKept
        <5>2. CASE p <= k /\ k < len
          <6>1. arrays'[q][k] = arrays[array][k + 1] /\ k + 1 \in 1 .. len /\ k + 1 # i /\ k # i
            BY <1>3, <3>4, <3>6, <4>2, <5>2
          <6>2. arrays[array][k + 1] # arrays[array][i]
            BY <1>1, <4>1, <6>1 DEF ListExact
          <6> QED
            BY <3>6, <4>1, <5>1, <6>1, <6>2
        <5>3. CASE ~(p <= k /\ k < len)
          <6>1. arrays'[q][k] = arrays[q][k]
            BY <1>3, <3>4, <3>6, <5>3
          <6> QED
            BY <5>1, <6>1
        <5> QED
          BY <5>2, <5>3
      <4> QED
        BY <1>3, <3>1, <3>2, <3>6, <4>3, <4>4 DEF SlotKept
    <3> QED
      BY <3>5, <3>6
  <2>2. pc' = pc /\ view' = view /\ ch' = ch /\ next' = next /\ attempted' = attempted
        /\ members' = members
    BY <1>2
  <2>3. ASSUME NEW b \in Broadcasters, pc[b] # "idle",
               NEW i \in 1 .. view[b].len, Ahead(b, i)'
        PROVE  TurnKept(b, i)'
    BY <1>1, <2>1, <2>2, <2>3 DEF SnapshotKept, ViewKept, TurnKept
  <2>4. \A b \in Broadcasters : pc[b] # "idle" =>
          /\ Len(members[b]) = view[b].len
          /\ Len(attempted[b]) = IF pc[b] = "send" THEN next[b] - 2 ELSE next[b] - 1
    BY <1>1 DEF SnapshotKept, ViewKept
  <2> QED
    BY <2>1, <2>2, <2>3, <2>4 DEF SnapshotKept, ViewKept
<1> QED
  BY <1>6, <1>7, <1>8, <1>9, <1>12, <1>13 DEF SlotsInv

(* The other steps of a stream leave the slice and the open streams alone. *)
LEMMA StreamSlots ==
  ASSUME SlotsInv, NEW s \in Streams, Unlock(s) \/ Close(s) \/ Receive(s)
  PROVE  SlotsInv'
<1>1. /\ TypeOK /\ CallsType /\ LockHeld /\ ListExact /\ SlotsSeen /\ SnapshotKept
  BY DEF SlotsInv
<1>2. /\ UNCHANGED <<arrays, len, calls, left, crashed>>
      /\ mover' \in {Empty, mover} /\ (mover' # Empty => UNCHANGED <<mover, before>>)
  BY DEF Unlock, Close, Receive
<1>3. stream \in [Streams -> {"new", "open", "moving", "unlocked", "closed"}]
  BY <1>1 DEF TypeOK
<1>4. \A r \in Streams : stream'[r] = "open" <=> stream[r] = "open"
  BY <1>3 DEF Unlock, Close, Receive
<1>5. TypeOK'
  <2>1. ListType'
    <3>1. stream' \in [Streams -> {"new", "open", "moving", "unlocked", "closed"}]
      BY <1>3 DEF Unlock, Close, Receive
    <3> QED
      BY <1>1, <1>2, <3>1, TypeIs DEF ListType, Slots
  <2>2. ProgressType'
    BY <1>1, <1>2, TypeIs DEF Unlock, Close, Receive, ProgressType
  <2>3. ViewsFit'
    BY <1>1, <1>2, TypeIs DEF ViewsFit
  <2> QED
    BY <2>1, <2>2, <2>3, TypeIs
<1>6. CallsType'
  BY <1>1, <1>2 DEF CallsType
<1>7. LockHeld'
  BY <1>1, <1>2, <1>3 DEF LockHeld, Unlock, Close, Receive
<1>8. ListExact'
  BY <1>1, <1>2, <1>4 DEF ListExact
<1>9. \A b \in Broadcasters : \A r : Seen(b, r) => Seen(b, r)'
  BY <1>2, <1>4 DEF Seen
<1>10. SlotsSeen'
  BY <1>1, <1>2, <1>9 DEF SlotsSeen, ViewSeen
<1>11. SnapshotKept'
  BY <1>1, <1>2 DEF SnapshotKept, ViewKept, Ahead, SlotKept, TurnKept
<1> QED
  BY <1>5, <1>6, <1>7, <1>8, <1>10, <1>11 DEF SlotsInv

(* The steps of a broadcaster change nothing but its own call, the room in *)
(* a channel and the end of the process.                                   *)
LEMMA CallSlots ==
  ASSUME SlotsInv, NEW b \in Broadcasters,
         UNCHANGED <<list, stream>>, ProgressType', CallsType', ViewsFit',
         \A d \in Broadcasters \ {b} :
           /\ pc'[d] = pc[d] /\ view'[d] = view[d] /\ next'[d] = next[d] /\ ch'[d] = ch[d]
           /\ members'[d] = members[d] /\ attempted'[d] = attempted[d] /\ left'[d] = left[d],
         ViewSeen(b)', ViewKept(b)'
  PROVE  SlotsInv'
<1>1. /\ TypeOK /\ LockHeld /\ ListExact /\ SlotsSeen /\ SnapshotKept
  BY DEF SlotsInv
<1>2. ListType'
  BY <1>1, TypeIs DEF ListType
<1>3. TypeOK'
  BY <1>2, TypeIs
<1>4. LockHeld' /\ ListExact'
  BY <1>1 DEF LockHeld, ListExact
<1>5. \A d \in Broadcasters \ {b} : (ViewSeen(d) => ViewSeen(d)') /\ (ViewKept(d) => ViewKept(d)')
  <2> SUFFICES ASSUME NEW d \in Broadcasters \ {b}
               PROVE  (ViewSeen(d) => ViewSeen(d)') /\ (ViewKept(d) => ViewKept(d)')
    OBVIOUS
  <2>1. ViewSeen(d) => ViewSeen(d)'
    BY DEF ViewSeen, Seen
  <2>2. ViewKept(d) => ViewKept(d)'
    <3>1. \A i : (Ahead(d, i)' <=> Ahead(d, i)) /\ (TurnKept(d, i)' <=> TurnKept(d, i))
      BY DEF Ahead, TurnKept
    <3>2. \A i : SlotKept(d, i) => SlotKept(d, i)'
      BY DEF SlotKept
    <3> QED
      BY <3>1, <3>2 DEF ViewKept
  <2> QED
    BY <2>1, <2>2
<1>6. SlotsSeen' /\ SnapshotKept'
  BY <1>1, <1>5 DEF SlotsSeen, SnapshotKept
<1> QED
  BY <1>3, <1>4, <1>6 DEF SlotsInv

LEMMA SnapshotSlots ==
  ASSUME SlotsInv, NEW b \in Broadcasters, Snapshot(b)
  PROVE  SlotsInv'
<1>1. /\ TypeOK /\ CallsType /\ ListExact /\ SlotsSeen
  BY DEF SlotsInv
<1>2. /\ mover = Empty /\ pc[b] = "idle"
      /\ pc' = [pc EXCEPT ![b] = "loop"]
      /\ view' = [view EXCEPT ![b] = [array |-> array, len |-> len]]
      /\ members' = [members EXCEPT ![b] = Registered]
      /\ UNCHANGED <<list, stream, buffered, next, ch, attempted, left, crashed>>
  BY DEF Snapshot, Unlocked
<1>3. /\ array \in Nat \ {0} /\ len \in 0 .. Len(arrays[array]) /\ arrays[array] \in Seq(Slots)
      /\ Len(arrays[array]) \in Nat
  BY <1>1 DEF TypeOK, Slots
<1>4. /\ Registered \in Seq(Slots) /\ Len(Registered) = len
      /\ \A i \in 1 .. len : Registered[i] = arrays[array][i]
  BY <1>3 DEF Registered
<1>5. next[b] = 1 /\ attempted[b] = <<>>
  BY <1>1, <1>2 DEF SlotsSeen, ViewSeen
<1>6. ProgressType' /\ CallsType' /\ ViewsFit'
  <2>1. ProgressType'
    BY <1>1, <1>2, TypeIs DEF ProgressType
  <2>2. CallsType'
    BY <1>1, <1>2, <1>3, <1>4 DEF CallsType
  <2>3. ViewsFit'
    <3>1. ViewsFit
      BY <1>1, TypeIs
    <3>2. view'[b] = [array |-> array, len |-> len] /\ \A d \in Broadcasters \ {b} : view'[d] = view[d]
      BY <1>1, <1>2 DEF CallsType
    <3> QED
      BY <1>2, <1>3, <1>5, <3>1, <3>2 DEF ViewsFit
  <2> QED
    BY <2>1, <2>2, <2>3
<1>7. /\ view'[b].array = array /\ view'[b].len = len /\ members'[b] = Registered /\ pc'[b] = "loop"
      /\ UNCHANGED <<arrays, len, mover, before, stream, next, attempted, left>>
  BY <1>1, <1>2 DEF CallsType, TypeOK
<1>8. ViewSeen(b)'
  BY <1>1, <1>2, <1>7 DEF ListExact, ViewSeen, Seen
<1>9. ViewKept(b)'
  <2>1. Len(attempted[b]) = 0 /\ next[b] - 1 = 0
    BY <1>5
  <2>2. \A i, k \in 1 .. len : arrays[array][k] = Registered[i] <=> k = i
    BY <1>1, <1>4 DEF ListExact
  <2>3. \A i \in 1 .. len : i <= len
    BY <1>3
  <2>4. \A i \in 1 .. len : SlotKept(b, i)'
    BY <1>2, <1>7, <2>2, <2>3 DEF SlotKept
  <2>5. \A i \in 1 .. len : TurnKept(b, i)'
    BY <1>7, <2>1 DEF TurnKept
  <2> QED
    BY <1>4, <1>7, <2>1, <2>4, <2>5 DEF ViewKept
<1>10. \A d \in Broadcasters \ {b} :
         /\ pc'[d] = pc[d] /\ view'[d] = view[d] /\ next'[d] = next[d] /\ ch'[d] = ch[d]
         /\ members'[d] = members[d] /\ attempted'[d] = attempted[d] /\ left'[d] = left[d]
  BY <1>1, <1>2 DEF CallsType, TypeOK
<1> QED
  BY <1>2, <1>6, <1>8, <1>9, <1>10, CallSlots

LEMMA TakeSlotSlots ==
  ASSUME SlotsInv, NEW b \in Broadcasters, TakeSlot(b)
  PROVE  SlotsInv'
<1>1. /\ TypeOK /\ CallsType /\ SlotsSeen /\ SnapshotKept
  BY DEF SlotsInv
<1>2. /\ pc[b] = "loop" /\ next[b] <= view[b].len
      /\ pc' = [pc EXCEPT ![b] = "send"]
      /\ next' = [next EXCEPT ![b] = @ + 1]
      /\ UNCHANGED <<list, stream, buffered, view, members, attempted, left, crashed>>
  BY DEF TakeSlot
<1>3. PICK s \in SlotValues(b, next[b]) : ch' = [ch EXCEPT ![b] = s]
  BY DEF TakeSlot
<1>4. /\ next[b] \in 1 .. view[b].len + 1 /\ view[b].len \in Nat
  BY <1>1 DEF TypeOK, CallsType
<1>5. next[b] \in 1 .. view[b].len
  BY <1>2, <1>4
<1>6. /\ Seen(b, s) /\ s \in Slots
      /\ \/ s = arrays[view[b].array][next[b]]
         \/ mover # Empty /\ view[b].array = array /\ s = before[next[b]]
  <2>1. ViewSeen(b)
    BY <1>1 DEF SlotsSeen
  <2> QED
    BY <1>2, <1>3, <1>5, <2>1 DEF ViewSeen, SlotValues, Unlocked, Seen, Slots
<1>7. ProgressType' /\ CallsType' /\ ViewsFit'
  <2>1. ProgressType'
    BY <1>1, <1>2, TypeIs DEF ProgressType
  <2>2. CallsType'
    BY <1>1, <1>2, <1>3, <1>6 DEF CallsType
  <2>3. ViewsFit'
    <3>1. ViewsFit
      BY <1>1, TypeIs
    <3>2. next'[b] = next[b] + 1 /\ \A d \in Broadcasters \ {b} : next'[d] = next[d]
      BY <1>1, <1>2 DEF CallsType
    <3> QED
      BY <1>2, <1>4, <1>5, <3>1, <3>2 DEF ViewsFit
  <2> QED
    BY <2>1, <2>2, <2>3
<1>8. /\ pc'[b] = "send" /\ ch'[b] = s /\ next'[b] = next[b] + 1
      /\ UNCHANGED <<arrays, len, mover, before, stream, view, members, attempted, left>>
  BY <1>1, <1>2, <1>3 DEF CallsType, TypeOK
<1>9. ViewSeen(b)'
  BY <1>1, <1>2, <1>6, <1>8 DEF SlotsSeen, ViewSeen, Seen
<1>10. ViewKept(b)'
  <2>1. /\ Len(members[b]) = view[b].len /\ Len(attempted[b]) = next[b] - 1
        /\ \A i \in 1 .. view[b].len : Ahead(b, i) => SlotKept(b, i) /\ TurnKept(b, i)
    BY <1>1, <1>2 DEF SnapshotKept, ViewKept
  <2>2. next'[b] - 1 = next[b] /\ next'[b] - 2 = next[b] - 1
    BY <1>5, <1>8
  <2>3. ASSUME NEW i \in 1 .. view[b].len, Ahead(b, i)
        PROVE  SlotKept(b, i)' /\ TurnKept(b, i)'
    <3>1. s = members[b][i] <=> next[b] = i
      BY <1>5, <1>6, <2>1, <2>3 DEF SlotKept
    <3>2. SlotKept(b, i)'
      BY <1>8, <2>1, <2>3 DEF SlotKept
    <3>3. TurnKept(b, i)'
      BY <1>8, <2>1, <2>2, <2>3, <3>1 DEF TurnKept
    <3> QED
      BY <3>2, <3>3
  <2>4. \A i : Ahead(b, i)' <=> Ahead(b, i)
    BY <1>8 DEF Ahead
  <2> QED
    BY <1>8, <2>1, <2>2, <2>3, <2>4 DEF ViewKept
<1>11. \A d \in Broadcasters \ {b} :
         /\ pc'[d] = pc[d] /\ view'[d] = view[d] /\ next'[d] = next[d] /\ ch'[d] = ch[d]
         /\ members'[d] = members[d] /\ attempted'[d] = attempted[d] /\ left'[d] = left[d]
  BY <1>1, <1>2, <1>3 DEF CallsType, TypeOK
<1> QED
  BY <1>2, <1>7, <1>9, <1>10, <1>11, CallSlots

LEMMA SendSlots ==
  ASSUME SlotsInv, NEW b \in Broadcasters, Send(b)
  PROVE  SlotsInv'
<1>1. /\ TypeOK /\ CallsType /\ SlotsSeen /\ SnapshotKept
  BY DEF SlotsInv
<1>2. /\ pc[b] = "send"
      /\ pc' = [pc EXCEPT ![b] = "loop"]
      /\ attempted' = [attempted EXCEPT ![b] = Append(@, ch[b])]
      /\ UNCHANGED <<list, stream, view, next, ch, members, left>>
  BY DEF Send
<1>3. ch[b] \in Streams
  BY <1>1, <1>2 DEF SlotsSeen, ViewSeen, Seen
<1>4. /\ next[b] \in 1 .. view[b].len + 1 /\ view[b].len \in Nat
  BY <1>1 DEF TypeOK, CallsType
<1>5. ProgressType' /\ CallsType' /\ ViewsFit'
  <2>1. buffered' \in [Streams -> 0 .. Cap] /\ crashed' \in BOOLEAN
    <3>1. buffered \in [Streams -> 0 .. Cap] /\ crashed \in BOOLEAN
      BY <1>1 DEF TypeOK
    <3>2. CASE stream[ch[b]] = "closed"
      BY <3>1, <3>2 DEF Send
    <3>3. CASE stream[ch[b]] # "closed"
      <4>1. crashed' = crashed
        BY <3>3 DEF Send
      <4>2. CASE buffered[ch[b]] < Cap
        <5>1. buffered' = [buffered EXCEPT ![ch[b]] = @ + 1]
          BY <3>3, <4>2 DEF Send
        <5>2. buffered[ch[b]] + 1 \in 0 .. Cap
          BY <1>3, <3>1, <4>2
        <5> QED
          BY <3>1, <4>1, <5>1, <5>2
      <4>3. CASE ~(buffered[ch[b]] < Cap)
        BY <3>1, <3>3, <4>1, <4>3 DEF Send
      <4> QED
        BY <4>2, <4>3
    <3> QED
      BY <3>2, <3>3
  <2>2. ProgressType'
    BY <1>1, <1>2, <2>1, TypeIs DEF ProgressType
  <2>3. CallsType'
    BY <1>1, <1>2, <1>3 DEF CallsType, Slots
  <2>4. ViewsFit'
    BY <1>1, <1>2, TypeIs DEF ViewsFit
  <2> QED
    BY <2>2, <2>3, <2>4
<1>6. /\ pc'[b] = "loop" /\ attempted'[b] = Append(attempted[b], ch[b])
      /\ UNCHANGED <<arrays, len, mover, before, stream, view, next, ch, members, left>>
  BY <1>1, <1>2 DEF CallsType, TypeOK
<1>7. ViewSeen(b)'
  BY <1>1, <1>2, <1>6 DEF SlotsSeen, ViewSeen, Seen
<1>8. ViewKept(b)'
  <2> DEFINE n == next[b] - 1
             a == Append(attempted[b], ch[b])
  <2>1. /\ Len(members[b]) = view[b].len /\ Len(attempted[b]) = n - 1
        /\ \A i \in 1 .. view[b].len : Ahead(b, i) => SlotKept(b, i) /\ TurnKept(b, i)
    BY <1>1, <1>2, <1>4 DEF SnapshotKept, ViewKept
  <2>2. attempted[b] \in Seq(Slots) /\ ch[b] \in Slots /\ n \in Int
    BY <1>1, <1>4 DEF CallsType
  <2>3. /\ Len(a) = n /\ a[n] = ch[b]
        /\ \A k \in 1 .. n : k = n \/ (k \in 1 .. Len(attempted[b]) /\ a[k] = attempted[b][k])
    BY <2>1, <2>2
  <2> HIDE DEF a
  <2>4. ASSUME NEW i \in 1 .. view[b].len, Ahead(b, i)
        PROVE  SlotKept(b, i)' /\ TurnKept(b, i)'
    <3>1. SlotKept(b, i)'
      BY <1>6, <2>1, <2>4 DEF SlotKept
    <3>2. /\ \A k \in 1 .. Len(attempted[b]) : attempted[b][k] = members[b][i] <=> k = i
          /\ ch[b] = members[b][i] <=> n = i
      BY <1>2, <2>1, <2>4 DEF TurnKept
    <3>3. \A k \in 1 .. n : a[k] = members[b][i] <=> k = i
      BY <2>3, <3>2
    <3>4. TurnKept(b, i)'
      BY <1>6, <2>3, <3>3 DEF TurnKept, a
    <3> QED
      BY <3>1, <3>4
  <2>5. \A i : Ahead(b, i)' <=> Ahead(b, i)
    BY <1>6 DEF Ahead
  <2> QED
    BY <1>6, <2>1, <2>3, <2>4, <2>5 DEF ViewKept, a
<1>9. \A d \in Broadcasters \ {b} :
        /\ pc'[d] = pc[d] /\ view'[d] = view[d] /\ next'[d] = next[d] /\ ch'[d] = ch[d]
        /\ members'[d] = members[d] /\ attempted'[d] = attempted[d] /\ left'[d] = left[d]
  BY <1>1, <1>2 DEF CallsType, TypeOK
<1> QED
  BY <1>2, <1>5, <1>7, <1>8, <1>9, CallSlots

LEMMA ReturnSlots ==
  ASSUME SlotsInv, NEW b \in Broadcasters, Return(b)
  PROVE  SlotsInv'
<1>1. /\ TypeOK /\ CallsType
  BY DEF SlotsInv
<1>2. /\ pc' = [pc EXCEPT ![b] = "idle"] /\ view' = [view EXCEPT ![b] = NoView]
      /\ next' = [next EXCEPT ![b] = 1] /\ ch' = [ch EXCEPT ![b] = Empty]
      /\ members' = [members EXCEPT ![b] = <<>>] /\ attempted' = [attempted EXCEPT ![b] = <<>>]
      /\ left' = [left EXCEPT ![b] = {}]
      /\ UNCHANGED <<list, stream, buffered, crashed>>
  BY DEF Return
<1>3. /\ pc'[b] = "idle" /\ view'[b].array = 1 /\ view'[b].len = 0 /\ next'[b] = 1
      /\ attempted'[b] = <<>>
  BY <1>1, <1>2 DEF CallsType, TypeOK, NoView
<1>4. \A d \in Broadcasters \ {b} :
        /\ pc'[d] = pc[d] /\ view'[d] = view[d] /\ next'[d] = next[d] /\ ch'[d] = ch[d]
        /\ members'[d] = members[d] /\ attempted'[d] = attempted[d] /\ left'[d] = left[d]
  BY <1>1, <1>2 DEF CallsType, TypeOK
<1>5. ProgressType' /\ CallsType' /\ ViewsFit'
  <2>1. ProgressType'
    BY <1>1, <1>2, TypeIs DEF ProgressType
  <2>2. CallsType'
    BY <1>1, <1>2 DEF CallsType, NoView, Slots
  <2>3. ViewsFit'
    <3>0. ViewsFit
      BY <1>1, TypeIs
    <3>1. array \in Nat \ {0} /\ \A j \in 1 .. array : Len(arrays[j]) \in Nat
      BY <1>1 DEF TypeOK
    <3>2. UNCHANGED arrays
      BY <1>2
    <3> QED
      BY <1>3, <1>4, <3>0, <3>1, <3>2 DEF ViewsFit
  <2> QED
    BY <2>1, <2>2, <2>3
<1>6. ViewSeen(b)' /\ ViewKept(b)'
  BY <1>3 DEF ViewSeen, ViewKept
<1> QED
  BY <1>2, <1>4, <1>5, <1>6, CallSlots

-----------------------------------------------------------------------------
LEMMA InitIInv == Init => IInv
<1> SUFFICES ASSUME Init
             PROVE  IInv
  OBVIOUS
<1>1. /\ arrays = << <<>> >> /\ array = 1 /\ arrays[array] = <<>> /\ Len(arrays[array]) = 0
      /\ len = 0 /\ mover = Empty /\ stream = [s \in Streams |-> "new"]
      /\ crashed = FALSE
  BY DEF Init
<1>2. \A b \in Broadcasters :
        /\ pc[b] = "idle" /\ view[b].array = 1 /\ view[b].len = 0 /\ next[b] = 1
        /\ attempted[b] = <<>>
  BY DEF Init, NoView
<1>3. TypeOK
  <2>1. ListType
    <3>1. <<>> \in Seq(Slots)
      OBVIOUS
    <3>2. arrays \in Seq(Seq(Slots)) /\ arrays # <<>>
      BY <1>1, <3>1
    <3> QED
      BY <1>1, <3>2 DEF ListType, Slots
  <2>2. ProgressType
    <3>1. 0 \in 0 .. Cap /\ FALSE \in BOOLEAN
      OBVIOUS
    <3> QED
      BY <3>1 DEF Init, ProgressType
  <2>3. ViewsFit
    BY <1>1, <1>2 DEF ViewsFit
  <2> QED
    BY <2>1, <2>2, <2>3, TypeIs
<1>4. CallsType
  <2>1. <<>> \in Seq(Slots) /\ Empty \in Slots /\ NoView \in [array : Nat, len : Nat]
    BY DEF Slots, NoView
  <2> QED
    BY <2>1 DEF Init, CallsType
<1>5. LockHeld /\ ListExact
  BY <1>1 DEF LockHeld, ListExact
<1>6. SlotsSeen /\ SnapshotKept
  BY <1>1, <1>2 DEF SlotsSeen, ViewSeen, SnapshotKept, ViewKept
<1>7. PanicOnlyOnLeaver
  BY <1>1 DEF PanicOnlyOnLeaver
<1> QED
  BY <1>3, <1>4, <1>5, <1>6, <1>7 DEF IInv, SlotsInv

LEMMA SlotsStep == SlotsInv /\ [Next]_vars => SlotsInv'
<1> SUFFICES ASSUME SlotsInv, [Next]_vars
             PROVE  SlotsInv'
  OBVIOUS
<1>1. ASSUME UNCHANGED vars PROVE SlotsInv'
  <2> USE <1>1 DEF vars, SlotsInv
  <2>1. TypeOK' /\ CallsType'
    BY DEF TypeOK, CallsType
  <2>2. LockHeld' /\ ListExact'
    BY DEF LockHeld, ListExact
  <2>3. SlotsSeen'
    BY DEF SlotsSeen, ViewSeen, Seen
  <2>4. SnapshotKept'
    BY DEF SnapshotKept, ViewKept, Ahead, SlotKept, TurnKept
  <2> QED
    BY <2>1, <2>2, <2>3, <2>4
<1> QED
  BY <1>1, SubscribeSlots, UnsubscribeSlots, StreamSlots, SnapshotSlots, TakeSlotSlots,
     SendSlots, ReturnSlots DEF Next

(* Only a send can be the step that ends the process.                      *)
LEMMA PanicStep == IInv /\ [Next]_vars => PanicOnlyOnLeaver'
<1> SUFFICES ASSUME IInv, [Next]_vars, crashed'
             PROVE  \E b \in Broadcasters : attempted'[b] # <<>> /\ Last(attempted'[b]) \in left'[b]
  BY DEF PanicOnlyOnLeaver
<1>1. CASE UNCHANGED vars
  BY <1>1 DEF IInv, PanicOnlyOnLeaver, vars
<1>2. ASSUME NEW b \in Broadcasters, Send(b)
      PROVE  attempted'[b] # <<>> /\ Last(attempted'[b]) \in left'[b]
  <2>1. /\ stream[ch[b]] = "closed" /\ pc[b] = "send"
        /\ attempted' = [attempted EXCEPT ![b] = Append(@, ch[b])] /\ left' = left
    BY <1>2 DEF Send
  <2>2. /\ Seen(b, ch[b]) /\ attempted \in [Broadcasters -> Seq(Slots)] /\ ch[b] \in Slots
    BY <2>1 DEF IInv, SlotsInv, SlotsSeen, ViewSeen, CallsType
  <2>3. ch[b] \in left[b]
    BY <2>1, <2>2 DEF Seen
  <2>4. attempted'[b] = Append(attempted[b], ch[b]) /\ attempted[b] \in Seq(Slots)
    BY <2>1, <2>2
  <2>5. attempted'[b] # <<>> /\ Last(attempted'[b]) = ch[b]
    BY <2>2, <2>4 DEF Last
  <2> QED
    BY <2>1, <2>3, <2>5
<1>3. UNCHANGED vars \/ \E b \in Broadcasters : Send(b)
  BY DEF Next, Subscribe, Unsubscribe, Unlock, Close, Receive, Snapshot, TakeSlot, Return
<1> QED
  BY <1>1, <1>2, <1>3

THEOREM Invariance == Spec => []IInv
<1>1. IInv /\ [Next]_vars => IInv'
  BY SlotsStep, PanicStep DEF IInv
<1> QED
  BY <1>1, InitIInv, PTL DEF Spec

(* The slice and the views of it that broadcasters walk without the lock   *)
(* stay within their arrays, whatever is appended and removed meanwhile.   *)
THEOREM TypeCorrect == Spec => []TypeOK
<1>1. IInv => TypeOK
  BY DEF IInv, SlotsInv
<1> QED
  BY <1>1, Invariance, PTL

(* The registration and the cleanup of StreamEvents keep the slice of a    *)
(* key to the open streams, each once.                                     *)
THEOREM Subscribed == Spec => []SubscriptionExact
<1>1. IInv => SubscriptionExact
  <2> SUFFICES ASSUME IInv
               PROVE  SubscriptionExact
    OBVIOUS
  <2>1. DOMAIN Registered = 1 .. len /\ \A i \in 1 .. len : Registered[i] = arrays[array][i]
    BY DEF IInv, SlotsInv, TypeOK, Registered
  <2>2. ListExact
    BY DEF IInv, SlotsInv
  <2>3. ToSet(Registered) = {s \in Streams : stream[s] = "open"}
    BY <2>1, <2>2 DEF ListExact, ToSet
  <2>4. IsInjective(Registered)
    BY <2>1, <2>2 DEF ListExact, IsInjective
  <2> QED
    BY <2>3, <2>4 DEF SubscriptionExact
<1> QED
  BY <1>1, Invariance, PTL

(* BroadcastEvent without the lock: it goes through the streams of its     *)
(* snapshot in order, each at its turn only, up to the first that leaves.  *)
THEOREM BroadcastExact == Spec => []ExactAheadOfLeavers
<1>1. IInv => ExactAheadOfLeavers
  <2> SUFFICES ASSUME IInv, NEW b \in Broadcasters, pc[b] = "loop",
                      NEW i \in 1 .. next[b] - 1, Ahead(b, i)
               PROVE  \A k \in 1 .. next[b] - 1 : attempted[b][k] = members[b][i] <=> k = i
    BY DEF ExactAheadOfLeavers, Ahead
  <2>1. i \in 1 .. view[b].len
    BY DEF IInv, SlotsInv, TypeOK, CallsType
  <2>2. TurnKept(b, i) /\ Len(attempted[b]) = next[b] - 1
    BY <2>1 DEF IInv, SlotsInv, SnapshotKept, ViewKept
  <2> QED
    BY <2>2 DEF TurnKept
<1> QED
  BY <1>1, Invariance, PTL

(* The select of BroadcastEvent panics only on the channel of a stream     *)
(* that unregistered after the snapshot.                                   *)
THEOREM PanicOnLeaver == Spec => []PanicOnlyOnLeaver
<1>1. IInv => PanicOnlyOnLeaver
  BY DEF IInv
<1> QED
  BY <1>1, Invariance, PTL

-----------------------------------------------------------------------------
(* A call that is about to remove the entry, or has, cancelled the         *)
(* connection it looked up.                                                *)
CallCancelled ==
  \A d \in Calls :
    call[d] \in {"connCancelled", "removed"} => canceled[conn[d]]

(* The inductive invariant.                                                *)
ConnInv == ConnTypeOK /\ TrackedIsLive /\ UntrackedIsCancelled /\ CallCancelled

USE NoStreamAssumption

-----------------------------------------------------------------------------
LEMMA ConnInitInv == ConnInit => ConnInv
BY DEF ConnInit, ConnInv, ConnTypeOK, TrackedIsLive, UntrackedIsCancelled, CallCancelled, Live

(* The steps of a stream that touch activeConns.                           *)
LEMMA RegisterConn ==
  ASSUME ConnInv, NEW s \in Handlers, Register(s)
  PROVE  ConnInv'
<1> USE DEF Register, CloseConn, Goto, callVars
<1>1. ConnTypeOK'
  BY DEF ConnInv, ConnTypeOK
<1>2. \A r \in Handlers : /\ canceled[r] => canceled'[r]
                          /\ r = activeConn => canceled'[r]
                          /\ r # s => phase'[r] = phase[r]
  BY DEF ConnInv, ConnTypeOK
<1>3. TrackedIsLive'
  BY DEF ConnInv, ConnTypeOK, TrackedIsLive, Live
<1>4. UntrackedIsCancelled'
  BY <1>2 DEF ConnInv, UntrackedIsCancelled, Live
<1>5. CallCancelled'
  BY <1>2 DEF ConnInv, ConnTypeOK, CallCancelled
<1> QED
  BY <1>1, <1>3, <1>4, <1>5 DEF ConnInv

LEMMA UnregisterConn ==
  ASSUME ConnInv, NEW s \in Handlers, Unregister(s)
  PROVE  ConnInv'
<1> USE DEF Unregister, Goto, callVars
<1>1. ConnTypeOK'
  BY DEF ConnInv, ConnTypeOK
<1>2. ~Live(s)' /\ \A r \in Handlers \ {s} : phase'[r] = phase[r]
  BY DEF ConnInv, ConnTypeOK, Live
<1>3. TrackedIsLive'
  BY <1>2 DEF ConnInv, ConnTypeOK, TrackedIsLive, Live
<1>4. UntrackedIsCancelled'
  BY <1>2 DEF ConnInv, UntrackedIsCancelled, Live
<1>5. CallCancelled'
  BY DEF ConnInv, CallCancelled
<1> QED
  BY <1>1, <1>3, <1>4, <1>5 DEF ConnInv

(* The other steps of a stream leave the entry alone, cancel no context    *)
(* but their own and end no handler that is tracked.                       *)
LEMMA StreamConn ==
  ASSUME ConnInv, NEW s \in Handlers,
         \/ Intercept(s) \/ Admit(s)
         \/ SendHeader(s) \/ EndExpected(s) \/ TakeEvent(s)
         \/ SendReturns(s) \/ Finish(s) \/ ClientGone(s)
  PROVE  ConnInv'
<1> USE DEF Intercept, Admit, SendHeader, EndExpected, TakeEvent, SendReturns,
            Finish, ClientGone, Goto, callVars
<1>1. ConnTypeOK'
  BY DEF ConnInv, ConnTypeOK
<1>2. /\ activeConn' = activeConn /\ unlisted' = unlisted
      /\ call' = call /\ conn' = conn
      /\ \A r \in Handlers : /\ canceled[r] => canceled'[r]
                             /\ Live(r)' <=> Live(r)
  BY DEF ConnInv, ConnTypeOK, Live
<1>3. TrackedIsLive' /\ UntrackedIsCancelled'
  BY <1>2 DEF ConnInv, ConnTypeOK, TrackedIsLive, UntrackedIsCancelled
<1>4. CallCancelled'
  BY <1>2 DEF ConnInv, ConnTypeOK, CallCancelled
<1> QED
  BY <1>1, <1>3, <1>4 DEF ConnInv

LEMMA CallConn ==
  ASSUME ConnInv, NEW d \in Calls,
         \/ InterceptCall(d) \/ AdmitCall(d) \/ Lookup(d)
         \/ CancelReceipt(d) \/ CancelConn(d) \/ Blacklist(d)
  PROVE  ConnInv'
<1> USE DEF InterceptCall, AdmitCall, Lookup, CancelReceipt, CancelConn, Blacklist, Step, streamVars
<1>1. ConnTypeOK' /\ CallCancelled'
  <2>0. CASE InterceptCall(d) \/ AdmitCall(d)
    BY <2>0 DEF ConnInv, ConnTypeOK, CallCancelled
  <2>1. CASE Lookup(d)
    BY <2>1 DEF ConnInv, ConnTypeOK, CallCancelled
  <2>2. CASE CancelReceipt(d)
    BY <2>2 DEF ConnInv, ConnTypeOK, CallCancelled
  <2>3. CASE CancelConn(d)
    BY <2>3 DEF ConnInv, ConnTypeOK, CallCancelled
  <2>4. CASE Blacklist(d)
    BY <2>4 DEF ConnInv, ConnTypeOK, CallCancelled
  <2> QED
    BY <2>0, <2>1, <2>2, <2>3, <2>4
<1>2. /\ activeConn' = activeConn /\ unlisted' = unlisted /\ phase' = phase
      /\ \A r \in Handlers : canceled[r] => canceled'[r]
  BY DEF ConnInv, ConnTypeOK
<1>3. TrackedIsLive' /\ UntrackedIsCancelled'
  BY <1>2 DEF ConnInv, ConnTypeOK, TrackedIsLive, UntrackedIsCancelled, Live
<1> QED
  BY <1>1, <1>3 DEF ConnInv

LEMMA RemoveEntryConn ==
  ASSUME ConnInv, NEW d \in Calls, RemoveEntry(d)
  PROVE  ConnInv'
<1> USE DEF RemoveEntry, Step, streamVars
<1>1. ConnTypeOK'
  BY DEF ConnInv, ConnTypeOK
<1>2. TrackedIsLive'
  BY DEF TrackedIsLive
<1>3. canceled[conn[d]]
  BY DEF ConnInv, CallCancelled
<1>4. UntrackedIsCancelled'
  BY <1>3 DEF ConnInv, ConnTypeOK, UntrackedIsCancelled, Live
<1>5. CallCancelled'
  BY <1>3 DEF ConnInv, ConnTypeOK, CallCancelled
<1> QED
  BY <1>1, <1>2, <1>4, <1>5 DEF ConnInv

LEMMA ConnNextInv == ConnInv /\ [ConnNext]_connVars => ConnInv'
<1> SUFFICES ASSUME ConnInv, [ConnNext]_connVars
             PROVE  ConnInv'
  OBVIOUS
<1>1. ASSUME NEW s \in Handlers, Register(s) PROVE ConnInv'
  BY <1>1, RegisterConn
<1>2. ASSUME NEW s \in Handlers, Unregister(s) PROVE ConnInv'
  BY <1>2, UnregisterConn
<1>3. ASSUME NEW s \in Handlers,
             \/ Intercept(s) \/ Admit(s)
             \/ SendHeader(s) \/ EndExpected(s) \/ TakeEvent(s)
             \/ SendReturns(s) \/ Finish(s) \/ ClientGone(s)
      PROVE  ConnInv'
  BY <1>3, StreamConn
<1>4. ASSUME NEW d \in Calls,
             \/ InterceptCall(d) \/ AdmitCall(d) \/ Lookup(d)
             \/ CancelReceipt(d) \/ CancelConn(d) \/ Blacklist(d)
      PROVE  ConnInv'
  BY <1>4, CallConn
<1>5. ASSUME NEW d \in Calls, RemoveEntry(d) PROVE ConnInv'
  BY <1>5, RemoveEntryConn
<1>6. CASE Expire \/ SubmitReceipt \/ UNCHANGED connVars
  BY <1>6 DEF Expire, SubmitReceipt, connVars, streamVars, callVars, ConnInv, ConnTypeOK,
              TrackedIsLive, UntrackedIsCancelled, CallCancelled, Live
<1> QED
  BY <1>1, <1>2, <1>3, <1>4, <1>5, <1>6 DEF ConnNext

(* Every reachable state satisfies the inductive invariant.                *)
THEOREM ConnInvariance == ConnSpec => []ConnInv
BY ConnInitInv, ConnNextInv, PTL DEF ConnSpec

-----------------------------------------------------------------------------
(* Handlers and calls are well formed; no call dereferences a missing      *)
(* connection.                                                             *)
THEOREM ConnTypeCorrect == ConnSpec => []ConnTypeOK
<1>1. ConnInv => ConnTypeOK
  BY DEF ConnInv
<1> QED
  BY <1>1, ConnInvariance, PTL

(* The entry of activeConns never dangles.                                 *)
THEOREM Tracked == ConnSpec => []TrackedIsLive
<1>1. ConnInv => TrackedIsLive
  BY DEF ConnInv
<1> QED
  BY <1>1, ConnInvariance, PTL

(* A running stream that lost its entry was told to end, but for those a   *)
(* disconnect call removed in another's place.                             *)
THEOREM Untracked == ConnSpec => []UntrackedIsCancelled
<1>1. ConnInv => UntrackedIsCancelled
  BY DEF ConnInv
<1> QED
  BY <1>1, ConnInvariance, PTL
=============================================================================
