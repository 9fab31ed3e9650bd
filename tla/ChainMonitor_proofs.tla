------------------------ MODULE ChainMonitor_proofs ------------------------
(***************************************************************************)
(* Safety of ChainMonitor for every set of contracts, batch size and       *)
(* height of the chain.                                                    *)
(***************************************************************************)
EXTENDS ChainMonitor, TLAPS

Asked(c, b) == b \in seen[c] \union failed[c]

Covered(b) == b \in passed \/ \E c \in Contracts : Asked(c, b)

InLoop(c) == pc[c] \in {"fetch", "commit"}

(* Before the chain's cursor is seeded it is 0 and nobody has been through *)
(* the section that seeds it.                                              *)
SeededFirst ==
  /\ ~seeded => lastBlocks = 0
  /\ \A c \in Contracts : Entered(c) => seeded

(* Until Start is through nothing was passed over, and only goroutines of  *)
(* tasks are about; so it is one of them that seeded the cursor.           *)
StartFirst ==
  starter # "up" =>
    /\ passed = {} /\ ~overwrote
    /\ \A c \in Contracts \ Tasked : pc[c] = "start"
    /\ seeded => \E c \in Tasked : Entered(c)

(* Everything below the batch a goroutine is at was asked for by some      *)
(* goroutine or passed over, though others move the cursor meanwhile.      *)
CoveredBelow ==
  \A c \in Contracts : InLoop(c) =>
    /\ \A b \in base + 1 .. from[c] - 1 : Covered(b)
    /\ pc[c] = "commit" => Batch(c) \subseteq seen[c]

(* What a goroutine that alone writes the cursor knows of it.              *)
AloneLoop(c) ==
  /\ c \notin repeated
  /\ \A b \in base + 1 .. lastBlocks : Asked(c, b)
  /\ InLoop(c) =>
       /\ lastBlocks < from[c]
       /\ \A b \in base + 1 .. from[c] - 1 : Asked(c, b)
  /\ \A b \in seen[c] : b <= IF pc[c] = "commit" THEN ToBlock(c) ELSE lastBlocks

Alone == \A c \in Contracts : committed \subseteq {c} /\ ~overwrote => AloneLoop(c)

(* The inductive invariant.                                                *)
IInv ==
  TypeOK /\ SeededFirst /\ StartFirst /\ ChainCovered /\ CoveredBelow /\ Alone

USE ConstantsAssumption

-----------------------------------------------------------------------------
(* A batch starts at fromBlock, is not empty, and ends no later than       *)
(* currentBlock.                                                           *)
LEMMA BatchBounds ==
  ASSUME TypeOK, NEW c \in Contracts, InLoop(c)
  PROVE  /\ ToBlock(c) \in Nat /\ from[c] \in Nat /\ cur[c] \in Nat
         /\ from[c] <= ToBlock(c) /\ ToBlock(c) <= cur[c]
         /\ ToBlock(c) <= from[c] + BatchSize - 1
         /\ from[c] + BatchSize <= cur[c] => ToBlock(c) = from[c] + BatchSize - 1
         /\ \A b \in Batch(c) : b \in Nat
BY DEF TypeOK, InLoop, ToBlock, Batch

LEMMA InitIInv == Init => IInv
<1> SUFFICES ASSUME Init
             PROVE  IInv
  OBVIOUS
<1> USE DEF Init
<1>1. TypeOK
  <2>1. seeded \in BOOLEAN
    OBVIOUS
  <2>2. overwrote \in BOOLEAN
    OBVIOUS
  <2>3. pc \in [Contracts -> States] /\ starter \in {"probe", "write", "up"}
    BY DEF States
  <2>4. \A c \in Contracts : pc[c] \in {"fetch", "commit"} => from[c] <= cur[c]
    OBVIOUS
  <2>5. /\ head \in Nat /\ lastBlocks \in Nat /\ base \in Nat /\ initial \in Nat
        /\ passed \subseteq Nat /\ repeated \subseteq Contracts /\ committed \subseteq Contracts
    OBVIOUS
  <2>6. cur \in [Contracts -> Nat] /\ from \in [Contracts -> Nat]
    OBVIOUS
  <2>7. seen \in [Contracts -> SUBSET Nat] /\ failed \in [Contracts -> SUBSET Nat]
    OBVIOUS
  <2> QED
    BY <2>1, <2>2, <2>3, <2>4, <2>5, <2>6, <2>7, Zenon DEF TypeOK
<1>2. SeededFirst /\ CoveredBelow
  BY DEF SeededFirst, CoveredBelow, InLoop, Entered
<1>3. StartFirst
  BY DEF StartFirst
<1>4. ChainCovered /\ Alone
  BY DEF ChainCovered, Alone, AloneLoop, InLoop
<1> QED
  BY <1>1, <1>2, <1>3, <1>4 DEF IInv

(* A goroutine that has entered leaves Start's part of the invariant as it *)
(* is, whatever it does, when it does not touch what Start writes.         *)
LEMMA StartKept ==
  ASSUME IInv, NEW d \in Contracts, Entered(d), Entered(d)',
         \A c \in Contracts \ {d} : pc'[c] = pc[c],
         UNCHANGED <<seeded, passed, starter, overwrote>>
  PROVE  /\ StartFirst'
         /\ \A c \in Contracts : Entered(c)' => seeded'
         /\ passed' # {} => \E c \in Tasked : Entered(c)'
<1>1. \A c \in Contracts : Entered(c) => Entered(c)'
  BY DEF Entered
<1>2. \A c \in Contracts \ Tasked : pc[c] = "start" => c # d
  BY DEF Entered
<1>3. StartFirst'
  BY <1>1, <1>2 DEF IInv, StartFirst
<1>4. \A c \in Contracts : Entered(c)' => Entered(c)
  BY DEF Entered
<1> QED
  BY <1>1, <1>3, <1>4 DEF IInv, SeededFirst, ChainCovered

(* Steps outside the batch loop that leave the cursor alone.               *)
LEMMA OutsideIInv ==
  ASSUME IInv,
         NewBlock \/ StartProbeOK \/ StartProbeFails \/ UNCHANGED vars
           \/ \E c \in Contracts : ProbeOK(c) \/ ProbeFails(c) \/ Poll(c) \/ Exit(c)
  PROVE  IInv'
<1> USE DEF IInv, TypeOK, States, SeededFirst, StartFirst, ChainCovered, CoveredBelow,
            Alone, AloneLoop, InLoop, Entered, Covered, Asked, Batch, ToBlock, cursor,
            start, history
<1>1. CASE NewBlock
  BY <1>1 DEF NewBlock
<1>2. CASE UNCHANGED vars
  BY <1>2 DEF vars
<1>3. ASSUME NEW d \in Contracts, ProbeOK(d) PROVE IInv'
  BY <1>3 DEF ProbeOK, Goto, Launched
<1>4. ASSUME NEW d \in Contracts, ProbeFails(d) PROVE IInv'
  BY <1>4 DEF ProbeFails, Goto, Launched
<1>5. ASSUME NEW d \in Contracts, Poll(d) PROVE IInv'
  BY <1>5 DEF Poll, Goto
<1>6. ASSUME NEW d \in Contracts, Exit(d) PROVE IInv'
  BY <1>6 DEF Exit, Goto
<1>7. CASE StartProbeOK
  BY <1>7 DEF StartProbeOK
<1>8. CASE StartProbeFails
  BY <1>8 DEF StartProbeFails
<1> QED
  BY <1>1, <1>2, <1>3, <1>4, <1>5, <1>6, <1>7, <1>8

LEMMA NothingAbove ==
  ASSUME NEW n \in Nat, NEW m, m = n
  PROVE  \A b \in m + 1 .. n : FALSE
OBVIOUS

(* Start sets the cursor: what lies above the old one is passed over, and  *)
(* only the goroutine of a task can have set that.                         *)
LEMMA StartWritesIInv == IInv /\ StartWrites => IInv'
<1> SUFFICES ASSUME IInv, StartWrites
             PROVE  IInv'
  OBVIOUS
<1> USE DEF StartWrites, cursor, history
<1>0. /\ passed = {} /\ ~overwrote
      /\ lastBlocks \in Nat /\ initial \in Nat /\ base \in Nat
      /\ starter' = "up" /\ lastBlocks' = initial /\ seeded'
  BY DEF IInv, StartFirst, TypeOK
<1>1. TypeOK' /\ SeededFirst' /\ StartFirst'
  <2>1. overwrote' \in BOOLEAN /\ base' \in Nat
    BY <1>0 DEF IInv, TypeOK
  <2>2. passed' \subseteq Nat
    BY <1>0
  <2>3. TypeOK'
    BY <1>0, <2>1, <2>2 DEF IInv, TypeOK
  <2>4. SeededFirst' /\ StartFirst'
    BY <1>0 DEF SeededFirst, StartFirst
  <2> QED
    BY <2>3, <2>4
<1>2. CASE seeded
  <2>1. /\ base' = base /\ overwrote'
        /\ passed' = lastBlocks + 1 .. initial
    BY <1>2
  <2>2. \A b \in base + 1 .. initial : b \in base + 1 .. lastBlocks \/ b \in passed'
    BY <1>0, <2>1
  <2>3. \A b \in base + 1 .. lastBlocks : Covered(b)
    BY DEF IInv, ChainCovered, Covered, Asked
  <2>4. \A b : Covered(b) => Covered(b)'
    BY <1>0 DEF Covered, Asked
  <2>5. ChainCovered'
    <3>1. \A b \in base' + 1 .. lastBlocks' : Covered(b)'
      BY <1>0, <2>1, <2>2, <2>3, <2>4 DEF Covered
    <3>2. \E c \in Tasked : Entered(c)'
      BY <1>2 DEF IInv, StartFirst, Entered
    <3> QED
      BY <3>1, <3>2 DEF ChainCovered, Covered, Asked
  <2>6. CoveredBelow'
    BY <2>1, <2>4 DEF IInv, CoveredBelow, InLoop, Batch, ToBlock
  <2>7. Alone'
    BY <2>1 DEF Alone
  <2> QED
    BY <1>1, <2>5, <2>6, <2>7 DEF IInv
<1>3. CASE ~seeded
  <2>1. /\ base' = initial /\ overwrote' = overwrote /\ passed' = {}
        /\ lastBlocks = 0
    BY <1>0, <1>3 DEF IInv, SeededFirst
  <2>2. \A b \in base' + 1 .. lastBlocks' : FALSE
    BY <1>0, <2>1, NothingAbove
  <2>3. \A c \in Contracts : ~InLoop(c)' /\ pc'[c] # "commit" /\ pc[c] # "commit"
    BY <1>3 DEF IInv, SeededFirst, Entered, InLoop
  <2>4. ChainCovered' /\ CoveredBelow'
    BY <2>1, <2>2, <2>3 DEF ChainCovered, CoveredBelow
  <2>5. Alone'
    <3> SUFFICES ASSUME NEW c \in Contracts, committed \subseteq {c}, ~overwrote
                 PROVE  AloneLoop(c)'
      BY <2>1 DEF Alone
    <3>1. c \notin repeated /\ \A b \in seen[c] : b <= 0
      BY <2>1, <2>3 DEF IInv, Alone, AloneLoop
    <3>2. \A b \in seen[c] : b <= lastBlocks'
      BY <1>0, <3>1 DEF IInv, TypeOK
    <3> QED
      BY <2>2, <2>3, <3>1, <3>2 DEF AloneLoop
  <2> QED
    BY <1>1, <2>4, <2>5 DEF IInv
<1> QED
  BY <1>2, <1>3

(* The cursor is set once; no goroutine is in its loop before that.        *)
LEMMA SeedIInv ==
  ASSUME IInv, NEW d \in Contracts, Seed(d)
  PROVE  IInv'
<1> USE DEF Seed, EndPoll, Goto, history, cursor
<1>1. TypeOK' /\ SeededFirst'
  <2>1. seeded'
    OBVIOUS
  <2>2. TypeOK'
    BY <2>1 DEF IInv, TypeOK, States, start
  <2> QED
    BY <2>1, <2>2 DEF SeededFirst
<1>2. \A c \in Contracts : InLoop(c)' => c # d /\ InLoop(c) /\ seeded
  BY DEF IInv, TypeOK, SeededFirst, InLoop, Entered
<1>5. StartFirst' /\ (passed' # {} => \E c \in Tasked : Entered(c)')
  <2>1. /\ Entered(d)' /\ pc[d] = "seed"
        /\ \A c \in Contracts : Entered(c) => Entered(c)'
        /\ \A c \in Contracts \ {d} : pc'[c] = pc[c]
    BY DEF IInv, TypeOK, Entered
  <2>2. UNCHANGED <<starter, overwrote, passed>>
    BY DEF start
  <2> QED
    BY <2>1, <2>2 DEF IInv, StartFirst, ChainCovered
<1>3. ChainCovered' /\ CoveredBelow'
  <2>1. \A b \in base' + 1 .. lastBlocks' : Covered(b)'
    <3>1. CASE seeded
      BY <3>1 DEF IInv, ChainCovered, Covered, Asked
    <3>2. CASE ~seeded
      BY <3>2, NothingAbove DEF IInv, TypeOK
    <3> QED
      BY <3>1, <3>2
  <2>2. \A c \in Contracts : InLoop(c)' =>
          UNCHANGED <<base, passed, pc[c], from[c], cur[c]>>
    BY <1>2 DEF IInv, TypeOK
  <2>3. CoveredBelow'
    BY <1>2, <2>2 DEF IInv, CoveredBelow, Covered, Asked, Batch, ToBlock
  <2> QED
    BY <1>5, <2>1, <2>3 DEF ChainCovered, Covered, Asked
<1>4. Alone'
  <2>1. CASE seeded
    BY <1>2, <2>1 DEF IInv, TypeOK, Alone, AloneLoop, Asked, InLoop, ToBlock, start
  <2>2. CASE ~seeded
    <3>1. lastBlocks = 0 /\ \A c \in Contracts : pc[c] # "commit" /\ pc'[c] # "commit"
      BY <2>2 DEF IInv, TypeOK, SeededFirst, Entered
    <3>2. base' = lastBlocks' /\ lastBlocks' \in Nat /\ lastBlocks <= lastBlocks'
      BY <2>2, <3>1 DEF IInv, TypeOK
    <3>3. \A c \in Contracts : ~InLoop(c)'
      BY <1>2, <2>2
    <3> SUFFICES ASSUME NEW c \in Contracts, committed \subseteq {c}, ~overwrote
                 PROVE  AloneLoop(c)'
      BY DEF Alone, start
    <3>4. \A b \in seen[c] : b <= lastBlocks
      BY <3>1 DEF IInv, Alone, AloneLoop
    <3>5. \A b \in seen[c] : b <= lastBlocks'
      BY <3>2, <3>4 DEF IInv, TypeOK
    <3>6. c \notin repeated'
      BY DEF IInv, Alone, AloneLoop
    <3>7. \A b \in base' + 1 .. lastBlocks' : FALSE
      BY <3>2, NothingAbove
    <3>8. /\ seen'[c] = seen[c]
          /\ (IF pc'[c] = "commit" THEN ToBlock(c)' ELSE lastBlocks') = lastBlocks'
      BY <3>1
    <3> QED
      BY <3>3, <3>5, <3>6, <3>7, <3>8 DEF AloneLoop
  <2> QED
    BY <2>1, <2>2
<1> QED
  BY <1>1, <1>3, <1>4, <1>5 DEF IInv

LEMMA ReadCursorIInv ==
  ASSUME IInv, NEW d \in Contracts, ReadCursor(d)
  PROVE  IInv'
<1> USE DEF ReadCursor, EndPoll, Goto, history, cursor
<1>0. /\ Entered(d) /\ Entered(d)'
      /\ \A c \in Contracts \ {d} : pc'[c] = pc[c]
      /\ UNCHANGED <<seeded, passed, starter, overwrote>>
  BY DEF IInv, TypeOK, Entered, start
<1>1. TypeOK' /\ SeededFirst' /\ StartFirst'
  BY <1>0, StartKept DEF IInv, TypeOK, States, SeededFirst, start
<1>2. ChainCovered'
  BY <1>0, StartKept DEF IInv, ChainCovered
<1>3. CoveredBelow'
  BY DEF IInv, TypeOK, ChainCovered, CoveredBelow, Covered, Asked, InLoop,
         Batch, ToBlock
<1>4. Alone'
  BY DEF IInv, TypeOK, Alone, AloneLoop, Asked, InLoop, ToBlock, start
<1> QED
  BY <1>1, <1>2, <1>3, <1>4 DEF IInv

LEMMA FetchOKIInv ==
  ASSUME IInv, NEW d \in Contracts, FetchOK(d)
  PROVE  IInv'
<1> USE DEF FetchOK, Goto, history, cursor
<1>0. InLoop(d) /\ pc[d] = "fetch"
  BY DEF InLoop
<1>10. /\ Entered(d) /\ Entered(d)'
       /\ \A c \in Contracts \ {d} : pc'[c] = pc[c]
       /\ UNCHANGED <<seeded, passed, starter, overwrote>>
  BY DEF IInv, TypeOK, Entered, start
<1>1. TypeOK' /\ SeededFirst' /\ StartFirst'
  BY <1>0, <1>10, BatchBounds, StartKept DEF IInv, TypeOK, States, SeededFirst, start
<1>2. \A c \in Contracts : /\ seen[c] \subseteq seen'[c]
                           /\ ToBlock(c)' = ToBlock(c)
                           /\ c # d => seen'[c] = seen[c] /\ pc'[c] = pc[c]
  BY DEF IInv, TypeOK, ToBlock
<1>3. seen'[d] = seen[d] \union Batch(d) /\ pc'[d] = "commit"
  BY DEF IInv, TypeOK
<1>4. ChainCovered'
  BY <1>2, <1>10, StartKept DEF IInv, ChainCovered
<1>5. CoveredBelow'
  BY <1>0, <1>2, <1>3 DEF IInv, TypeOK, CoveredBelow, Covered, Asked, InLoop, Batch
<1>6. Alone'
  <2> SUFFICES ASSUME NEW c \in Contracts, committed \subseteq {c}, ~overwrote
               PROVE  AloneLoop(c)'
    BY DEF Alone, start
  <2>0. AloneLoop(c)
    BY DEF IInv, Alone
  <2>1. CASE c # d
    <3>1. c \in repeated' <=> c \in repeated
      BY <2>1
    <3> QED
      BY <2>0, <2>1, <3>1, <1>2 DEF AloneLoop, Asked, InLoop
  <2>2. CASE c = d
    <3>1. \A b \in seen[d] : b < from[d]
      BY <2>0, <2>2, <1>0 DEF AloneLoop, IInv, TypeOK
    <3>2. from[d] \in Nat /\ ToBlock(d) \in Nat /\ from[d] <= ToBlock(d)
      BY <1>0, BatchBounds DEF IInv
    <3>3. seen[d] \intersect Batch(d) = {}
      BY <3>1, <3>2 DEF Batch
    <3>4. \A b \in seen'[d] : b <= ToBlock(d)
      BY <1>3, <3>1, <3>2 DEF Batch, IInv, TypeOK
    <3> QED
      BY <2>0, <2>2, <3>3, <3>4, <1>0, <1>2, <1>3 DEF AloneLoop, Asked, InLoop
  <2> QED
    BY <2>1, <2>2
<1> QED
  BY <1>1, <1>4, <1>5, <1>6 DEF IInv

LEMMA FetchFailsIInv ==
  ASSUME IInv, NEW d \in Contracts, FetchFails(d)
  PROVE  IInv'
<1> USE DEF FetchFails, NextBatch, EndPoll, Goto, history, cursor
<1>0. InLoop(d) /\ pc[d] = "fetch"
  BY DEF InLoop
<1>10. /\ Entered(d) /\ Entered(d)'
       /\ \A c \in Contracts \ {d} : pc'[c] = pc[c]
       /\ UNCHANGED <<seeded, passed, starter, overwrote>>
  BY DEF IInv, TypeOK, Entered, start
<1>1. TypeOK' /\ SeededFirst' /\ StartFirst'
  BY <1>0, <1>10, BatchBounds, StartKept DEF IInv, TypeOK, States, SeededFirst, start
<1>2. \A c \in Contracts \ {d} : /\ failed'[c] = failed[c]
                                 /\ pc'[c] = pc[c]
                                 /\ from'[c] = from[c] /\ cur'[c] = cur[c]
  BY DEF IInv, TypeOK
<1>3. failed'[d] = failed[d] \union Batch(d)
  BY DEF IInv, TypeOK
<1>4. ChainCovered'
  BY <1>2, <1>3, <1>10, StartKept DEF IInv, ChainCovered
<1>5. CASE from[d] + BatchSize <= cur[d]
  <2>1. pc'[d] = "fetch" /\ from'[d] = from[d] + BatchSize
    BY <1>5 DEF IInv, TypeOK
  <2>2. \A b \in from[d] .. from'[d] - 1 : b \in Batch(d)
    BY <1>0, <1>5, <2>1, BatchBounds DEF IInv, Batch
  <2>3. CoveredBelow'
    <3> SUFFICES ASSUME NEW c \in Contracts, InLoop(c)'
                 PROVE  /\ \A b \in base + 1 .. from'[c] - 1 : Covered(b)'
                        /\ pc'[c] = "commit" => Batch(c)' \subseteq seen'[c]
      BY DEF IInv, CoveredBelow
    <3>1. CASE c = d
      BY <3>1, <2>1, <2>2, <1>0, <1>2, <1>3
      DEF IInv, TypeOK, CoveredBelow, Covered, Asked
    <3>2. CASE c # d
      BY <3>2, <1>2, <1>3
      DEF IInv, TypeOK, CoveredBelow, Covered, Asked, InLoop, Batch, ToBlock
    <3> QED
      BY <3>1, <3>2
  <2>4. Alone'
    <3> SUFFICES ASSUME NEW c \in Contracts, committed \subseteq {c}, ~overwrote
                 PROVE  AloneLoop(c)'
      BY DEF Alone, start
    <3>0. AloneLoop(c)
      BY DEF IInv, Alone
    <3>1. CASE c = d
      BY <3>0, <3>1, <2>1, <2>2, <1>0, <1>3
      DEF IInv, TypeOK, AloneLoop, Asked, InLoop
    <3>2. CASE c # d
      BY <3>0, <3>2, <1>2 DEF IInv, TypeOK, AloneLoop, Asked, InLoop, ToBlock
    <3> QED
      BY <3>1, <3>2
  <2> QED
    BY <1>1, <1>4, <2>3, <2>4 DEF IInv
<1>6. CASE ~(from[d] + BatchSize <= cur[d])
  <2>1. pc'[d] = "idle"
    BY <1>6 DEF IInv, TypeOK
  <2>2. CoveredBelow'
    <3> SUFFICES ASSUME NEW c \in Contracts \ {d}, InLoop(c)'
                 PROVE  /\ \A b \in base + 1 .. from'[c] - 1 : Covered(b)'
                        /\ pc'[c] = "commit" => Batch(c)' \subseteq seen'[c]
      BY <2>1 DEF IInv, CoveredBelow, InLoop
    <3> QED
      BY <1>2, <1>3
      DEF IInv, TypeOK, CoveredBelow, Covered, Asked, InLoop, Batch, ToBlock
  <2>3. Alone'
    <3> SUFFICES ASSUME NEW c \in Contracts, committed \subseteq {c}, ~overwrote
                 PROVE  AloneLoop(c)'
      BY DEF Alone, start
    <3>0. AloneLoop(c)
      BY DEF IInv, Alone
    <3>1. CASE c = d
      <4>1. \A b \in seen[d] : b <= lastBlocks
        BY <3>0, <3>1, <1>0 DEF AloneLoop
      <4> QED
        BY <3>0, <3>1, <4>1, <2>1, <1>3 DEF AloneLoop, Asked, InLoop
    <3>2. CASE c # d
      BY <3>0, <3>2, <1>2 DEF IInv, TypeOK, AloneLoop, Asked, InLoop, ToBlock
    <3> QED
      BY <3>1, <3>2
  <2> QED
    BY <1>1, <1>4, <2>2, <2>3 DEF IInv
<1> QED
  BY <1>5, <1>6

(* The batch just fetched is behind the cursor now, whatever the cursor    *)
(* was before.                                                             *)
LEMMA CommitIInv ==
  ASSUME IInv, NEW d \in Contracts, Commit(d)
  PROVE  IInv'
<1> USE DEF Commit, NextBatch, EndPoll, Goto, history, cursor
<1>0. /\ InLoop(d) /\ pc[d] = "commit" /\ Batch(d) \subseteq seen[d]
      /\ lastBlocks' = ToBlock(d)
  BY DEF IInv, CoveredBelow, InLoop
<1>10. /\ Entered(d) /\ Entered(d)'
       /\ \A c \in Contracts \ {d} : pc'[c] = pc[c]
       /\ UNCHANGED <<seeded, passed, starter, overwrote>>
  BY DEF IInv, TypeOK, Entered, start
<1>1. TypeOK' /\ SeededFirst' /\ StartFirst'
  BY <1>0, <1>10, BatchBounds, StartKept
  DEF IInv, TypeOK, States, SeededFirst, Entered, start
<1>2. \A c \in Contracts \ {d} : /\ pc'[c] = pc[c]
                                 /\ from'[c] = from[c] /\ cur'[c] = cur[c]
  BY DEF IInv, TypeOK
<1>3. pc'[d] # "commit" /\ (InLoop(d)' => from'[d] = ToBlock(d) + 1)
  BY <1>0, BatchBounds DEF IInv, TypeOK, InLoop
<1>4. \A b \in base + 1 .. ToBlock(d) : b \in base + 1 .. from[d] - 1 \/ b \in Batch(d)
  BY <1>0, BatchBounds DEF IInv, TypeOK, Batch
<1>5. \A b \in base + 1 .. ToBlock(d) : Covered(b)
  BY <1>0, <1>4 DEF IInv, CoveredBelow, Covered, Asked
<1>6. ChainCovered'
  BY <1>0, <1>5, <1>10, StartKept DEF ChainCovered, Covered, Asked
<1>7. CoveredBelow'
  <2> SUFFICES ASSUME NEW c \in Contracts, InLoop(c)'
               PROVE  /\ \A b \in base + 1 .. from'[c] - 1 : Covered(b)'
                      /\ pc'[c] = "commit" => Batch(c)' \subseteq seen'[c]
    BY DEF CoveredBelow
  <2>2. CASE c = d
    <3>1. from'[d] = ToBlock(d) + 1 /\ ToBlock(d) \in Nat /\ base \in Nat
      BY <2>2, <1>0, <1>3, BatchBounds DEF IInv, TypeOK
    <3> QED
      BY <2>2, <3>1, <1>3, <1>5 DEF Covered, Asked
  <2>3. CASE c # d
    BY <2>3, <1>2 DEF IInv, CoveredBelow, Covered, Asked, InLoop, Batch, ToBlock
  <2> QED
    BY <2>2, <2>3
<1>8. Alone'
  <2> SUFFICES ASSUME NEW c \in Contracts, committed' \subseteq {c}, ~overwrote
               PROVE  AloneLoop(c)'
    BY DEF Alone, start
  <2>0. c = d /\ AloneLoop(d)
    BY DEF IInv, Alone
  <2>1. \A b \in base + 1 .. ToBlock(d) : Asked(d, b)
    BY <2>0, <1>0, <1>4 DEF AloneLoop, Asked
  <2>2. InLoop(d)' => /\ lastBlocks' < from'[d]
                      /\ \A b \in base + 1 .. from'[d] - 1 : Asked(d, b)
    <3> SUFFICES ASSUME InLoop(d)' PROVE /\ lastBlocks' < from'[d]
                 /\ \A b \in base + 1 .. from'[d] - 1 : Asked(d, b)
      OBVIOUS
    <3>1. from'[d] = ToBlock(d) + 1 /\ ToBlock(d) \in Nat /\ base \in Nat
      BY <1>0, <1>3, BatchBounds DEF IInv, TypeOK
    <3> QED
      BY <3>1, <2>1, <1>0
  <2>3. \A b \in seen[d] : b <= ToBlock(d)
    BY <2>0, <1>0 DEF AloneLoop
  <2> QED
    BY <2>0, <2>1, <2>2, <2>3, <1>0, <1>3 DEF AloneLoop, Asked
<1> QED
  BY <1>1, <1>6, <1>7, <1>8 DEF IInv

LEMMA NextIInv == IInv /\ [Next]_vars => IInv'
<1> SUFFICES ASSUME IInv, [Next]_vars
             PROVE  IInv'
  OBVIOUS
<1>1. CASE NewBlock \/ StartProbeOK \/ StartProbeFails \/ UNCHANGED vars
  BY <1>1, OutsideIInv
<1>8. CASE StartWrites
  BY <1>8, StartWritesIInv
<1>2. ASSUME NEW c \in Contracts,
             ProbeOK(c) \/ ProbeFails(c) \/ Poll(c) \/ Exit(c)
      PROVE  IInv'
  BY <1>2, OutsideIInv
<1>3. ASSUME NEW c \in Contracts, Seed(c) PROVE IInv'
  BY <1>3, SeedIInv
<1>4. ASSUME NEW c \in Contracts, ReadCursor(c) PROVE IInv'
  BY <1>4, ReadCursorIInv
<1>5. ASSUME NEW c \in Contracts, FetchOK(c) PROVE IInv'
  BY <1>5, FetchOKIInv
<1>6. ASSUME NEW c \in Contracts, FetchFails(c) PROVE IInv'
  BY <1>6, FetchFailsIInv
<1>7. ASSUME NEW c \in Contracts, Commit(c) PROVE IInv'
  BY <1>7, CommitIInv
<1> QED
  BY <1>1, <1>2, <1>3, <1>4, <1>5, <1>6, <1>7, <1>8 DEF Next

(* Every reachable state satisfies the inductive invariant.                *)
THEOREM Invariance == Spec => []IInv
BY InitIInv, NextIInv, PTL DEF Spec

-----------------------------------------------------------------------------
(* The monitors' state is always well formed, and no request to the node   *)
(* has its bounds crossed.                                                 *)
THEOREM TypeCorrect == Spec => []TypeOK
<1>1. IInv => TypeOK
  BY DEF IInv
<1> QED
  BY <1>1, Invariance, PTL

(* Every block behind the shared cursor of a chain was asked for, save     *)
(* those Start's write passed over, which needs the goroutine of a task.   *)
THEOREM CursorCovered == Spec => []ChainCovered
<1>1. IInv => ChainCovered
  BY DEF IInv
<1> QED
  BY <1>1, Invariance, PTL

(* A goroutine that alone writes the cursor, Start having replaced none of *)
(* its values, fetches every block behind it once, save those the node     *)
(* failed.                                                                 *)
THEOREM AloneOnce == Spec => []AloneExactlyOnce
<1>1. IInv => AloneExactlyOnce
  BY DEF IInv, Alone, AloneLoop, Asked, AloneExactlyOnce
<1> QED
  BY <1>1, Invariance, PTL

-----------------------------------------------------------------------------
(* The blocks somebody asked for are those Cursor calls asked.             *)
AskedBlocks == UNION {seen[c] \union failed[c] : c \in Contracts}

LEMMA AskedIsCovered ==
  /\ \A b : Covered(b) <=> b \in AskedBlocks \union passed
  /\ TypeOK => AskedBlocks \in SUBSET Nat
BY DEF AskedBlocks, Covered, Asked, TypeOK

(* Start's step and a goroutine's step are steps of Cursor: Start sets the *)
(* cursor or gives up, once; a goroutine seeds the cursor, asks for a      *)
(* batch, or moves the cursor to the end of one, or changes nothing of it. *)
LEMMA StepImplementsCursor ==
  IInv /\ IInv' /\ [Next]_vars => [Abstract!Next]_(Abstract!cursor)
<1> SUFFICES ASSUME IInv, IInv', [Next]_vars
             PROVE  [Abstract!Next]_(Abstract!cursor)
  OBVIOUS
<1> USE DEF Abstract!Next, Abstract!cursor, AskedBlocks
<1>1. ASSUME UNCHANGED <<cursor, starter, seen, failed>>
      PROVE  UNCHANGED Abstract!cursor
  BY <1>1 DEF cursor
<1>2. ASSUME UNCHANGED <<cursor, starter>>, AskedBlocks \subseteq AskedBlocks'
      PROVE  Abstract!Ask
  BY <1>2, AskedIsCovered DEF Abstract!Ask, cursor, IInv, TypeOK
<1>3. CASE NewBlock \/ StartProbeOK \/ UNCHANGED vars
  <2>1. CASE StartProbeOK
    BY <2>1 DEF StartProbeOK, cursor, history
  <2> QED
    BY <1>1, <1>3, <2>1 DEF NewBlock, vars, history, start
<1>4. ASSUME NEW c \in Contracts, ProbeOK(c) \/ ProbeFails(c) \/ Poll(c) \/ Exit(c)
      PROVE  UNCHANGED Abstract!cursor
  BY <1>1, <1>4 DEF ProbeOK, ProbeFails, Poll, Exit, history, start
<1>5. ASSUME NEW c \in Contracts, ReadCursor(c)
      PROVE  UNCHANGED Abstract!cursor
  BY <1>1, <1>5 DEF ReadCursor, EndPoll, history, start
<1>6. ASSUME NEW c \in Contracts, Seed(c)
      PROVE  [Abstract!Next]_(Abstract!cursor)
  <2>1. CASE seeded
    BY <1>1, <1>6, <2>1 DEF Seed, history, start
  <2>2. CASE ~seeded
    BY <1>6, <2>2 DEF Seed, history, start, Abstract!Seed, IInv, TypeOK
  <2> QED
    BY <2>1, <2>2
<1>7. ASSUME NEW c \in Contracts, FetchOK(c) \/ FetchFails(c)
      PROVE  Abstract!Ask
  <2>1. UNCHANGED <<cursor, starter>>
    BY <1>7 DEF FetchOK, FetchFails, start
  <2>2. \A d \in Contracts : seen[d] \subseteq seen'[d] /\ failed[d] \subseteq failed'[d]
    BY <1>7 DEF FetchOK, FetchFails, IInv, TypeOK
  <2> QED
    BY <1>2, <2>1, <2>2
<1>8. ASSUME NEW c \in Contracts, Commit(c)
      PROVE  Abstract!Move
  <2>1. /\ UNCHANGED <<seeded, base, passed, starter, seen, failed>>
        /\ lastBlocks' \in Nat /\ seeded
    BY <1>8 DEF Commit, start, IInv, TypeOK, SeededFirst, Entered
  <2>2. base + 1 .. lastBlocks' \subseteq AskedBlocks \union passed
    BY <2>1 DEF IInv, ChainCovered
  <2> QED
    BY <2>1, <2>2 DEF Abstract!Move
<1>9. CASE StartProbeFails
  BY <1>9 DEF StartProbeFails, history, cursor, Abstract!StartGivesUp
<1>10. CASE StartWrites
  <2>1. /\ starter # "up" /\ starter' = "up" /\ seeded'
        /\ lastBlocks' = initial /\ initial \in Nat
        /\ UNCHANGED <<seen, failed>>
    BY <1>10 DEF StartWrites, history, IInv, TypeOK
  <2>2. CASE seeded
    BY <1>10, <2>1, <2>2 DEF StartWrites, Abstract!Overwrite
  <2>3. CASE ~seeded
    BY <1>10, <2>1, <2>3 DEF StartWrites, Abstract!Seed
  <2> QED
    BY <2>2, <2>3
<1> QED
  BY <1>3, <1>4, <1>5, <1>6, <1>7, <1>8, <1>9, <1>10 DEF Next

(* Start and the polling goroutines of a chain, any number of them,        *)
(* implement what Cursor promises of m.lastBlocks, in every order of       *)
(* Start's unlocked write and the goroutines of tasks.                     *)
THEOREM CursorImplemented == Spec => ImplementsCursor
<1>1. Init => Abstract!Init
  BY DEF Init, Abstract!Init
<1> QED
  BY <1>1, Invariance, StepImplementsCursor, PTL
     DEF Spec, ImplementsCursor, Abstract!Spec
=============================================================================
