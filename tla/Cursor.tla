------------------------------- MODULE Cursor -------------------------------
(***************************************************************************)
(* What Start and the goroutines that poll a chain promise of m.lastBlocks *)
(* of that chain: once seeded, it only ever stands at a block up to which, *)
(* from the first seed on, somebody has asked the node for every block,    *)
(* with one exception: Start may set a cursor that was seeded before it    *)
(* was through to any block, once, and so pass over blocks that nobody     *)
(* asks for.  It may go back.                                              *)
(***************************************************************************)
EXTENDS Naturals

VARIABLES
  seeded,      \* whether the chain has a cursor
  lastBlocks,  \* the cursor
  base,        \* the block it was seeded with
  asked,       \* the blocks the node was asked for
  starting,    \* whether Start may still set the cursor
  passed       \* the blocks it then passed over

cursor == <<seeded, lastBlocks, base, asked, starting, passed>>

Init ==
  /\ lastBlocks = 0 /\ base = 0 /\ asked = {} /\ passed = {}
  /\ seeded = FALSE /\ starting = TRUE

(* By a goroutine, or by Start, which is then through.                     *)
Seed ==
  /\ ~seeded
  /\ seeded' = TRUE
  /\ lastBlocks' \in Nat
  /\ base' = lastBlocks'
  /\ starting' \in {starting, FALSE}
  /\ UNCHANGED <<asked, passed>>

Overwrite ==
  /\ starting /\ seeded
  /\ starting' = FALSE
  /\ lastBlocks' \in Nat
  /\ passed' = lastBlocks + 1 .. lastBlocks'
  /\ UNCHANGED <<seeded, base, asked>>

StartGivesUp ==
  /\ starting
  /\ starting' = FALSE
  /\ UNCHANGED <<seeded, lastBlocks, base, asked, passed>>

Ask ==
  /\ asked' \in SUBSET Nat /\ asked \subseteq asked'
  /\ UNCHANGED <<seeded, lastBlocks, base, starting, passed>>

Move ==
  /\ seeded
  /\ lastBlocks' \in Nat
  /\ base + 1 .. lastBlocks' \subseteq asked \union passed
  /\ UNCHANGED <<seeded, base, asked, starting, passed>>

Next == Seed \/ Overwrite \/ StartGivesUp \/ Ask \/ Move

Spec == Init /\ [][Next]_cursor
=============================================================================
