--------------------------- MODULE ContractStatus ---------------------------
(***************************************************************************)
(* What GetContractStatus (pkg/grpc/http_server.go) tells of a contract    *)
(* while its chain is polled and its backfill runs: it reads the cursor of *)
(* the chain, then the backfill status, each under a lock of its own, and  *)
(* answers with the backfill's block if there is one and with the cursor   *)
(* if there is none.                                                       *)
(*                                                                         *)
(* The polling goroutines and the backfill are taken as what they promise, *)
(* Cursor and BackfillProgress, which ChainMonitor and Backfill implement. *)
(* Both keep what they report in memory: a restart forgets it, and seeds   *)
(* the cursor anew, while nothing of what was fetched is fetched again.    *)
(***************************************************************************)
EXTENDS Naturals

CONSTANTS
  StartBlock,  \* the contract's first block
  MaxBlock,    \* bound on the blocks of the chain
  MaxBoots,    \* bound on the starts of the process
  None         \* no backfill status, no answer

ASSUME StatusAssumption ==
  /\ StartBlock \in Nat /\ MaxBlock \in Nat /\ MaxBoots \in Nat \ {0}
  /\ None \notin Nat

VARIABLES
  seeded, lastBlocks, base, asked, starting, passed,  \* the chain's cursor
  status, fetched, completed,  \* the contract's backfill
  boots,                       \* starts of the process so far
  last,                        \* the cursor a request has read
  answer                       \* its answer: whose block, and the block

chain == <<seeded, lastBlocks, base, asked, starting, passed>>
backfill == <<status, fetched, completed>>
request == <<last, answer>>
statusVars == <<chain, backfill, boots, request>>

Blocks == 0 .. MaxBlock

Polling == INSTANCE Cursor
Progress == INSTANCE BackfillProgress

StatusTypeOK ==
  /\ seeded \in BOOLEAN /\ lastBlocks \in Blocks /\ base \in Blocks
  /\ starting \in BOOLEAN /\ passed \subseteq Blocks
  /\ asked \subseteq Blocks /\ fetched \subseteq Blocks
  /\ completed \subseteq Blocks
  /\ status \in Blocks \union {MaxBlock + 1, None}
  /\ boots \in 1 .. MaxBoots
  /\ last \in Blocks \union {None}
  /\ answer \in [backfill : BOOLEAN, current : Blocks \union {MaxBlock + 1}] \union {None}

StatusInit ==
  /\ Polling!Init /\ Progress!Init
  /\ boots = 1 /\ last = None /\ answer = None

-----------------------------------------------------------------------------
(* The steps of Cursor, on blocks of the instance.                         *)
Seed ==
  /\ \E b \in Blocks : lastBlocks' = b /\ Polling!Seed
  /\ UNCHANGED <<backfill, boots, request>>

Overwrite ==
  /\ \E b \in Blocks : lastBlocks' = b /\ Polling!Overwrite
  /\ UNCHANGED <<backfill, boots, request>>

StartGivesUp ==
  /\ Polling!StartGivesUp
  /\ UNCHANGED <<backfill, boots, request>>

Ask ==
  /\ \E b \in Blocks \ asked : asked' = asked \union {b} /\ Polling!Ask
  /\ UNCHANGED <<backfill, boots, request>>

(* Fault: a batch moves the cursor to the head before it is asked for.     *)
MoveEarly ==
  /\ \E b \in Blocks : lastBlocks' = b
  /\ UNCHANGED <<seeded, base, asked, starting, passed, backfill, boots, request>>

Move ==
  /\ \E b \in Blocks : lastBlocks' = b /\ Polling!Move
  /\ UNCHANGED <<backfill, boots, request>>

(* The steps of BackfillProgress.                                          *)
Fetch ==
  /\ \E b \in Blocks \ fetched : fetched' = fetched \union {b} /\ Progress!Fetch
  /\ UNCHANGED <<chain, boots, request>>

(* Fault: the status is moved before the chunk is fetched.                 *)
ReportEarly ==
  /\ \E b \in Blocks : status' = b + 1
  /\ UNCHANGED <<chain, fetched, completed, boots, request>>

Report ==
  /\ \E b \in StartBlock .. MaxBlock + 1 : status' = b /\ Progress!Report
  /\ UNCHANGED <<chain, boots, request>>

Complete ==
  /\ \E end \in Blocks : completed' = completed \union {end} /\ Progress!Complete
  /\ UNCHANGED <<chain, boots, request>>

(* The process ends and starts again, without a cursor and a status.       *)
Restart ==
  /\ boots < MaxBoots
  /\ boots' = boots + 1
  /\ seeded' = FALSE /\ lastBlocks' = 0 /\ base' = 0
  /\ starting' = TRUE /\ passed' = {}
  /\ status' = None /\ last' = None /\ answer' = None
  /\ UNCHANGED <<asked, fetched, completed>>

-----------------------------------------------------------------------------
(* GetMonitorLastBlock; without a cursor the answer is "not supported".    *)
ReadCursor ==
  /\ seeded /\ last = None
  /\ last' = lastBlocks
  /\ answer' = None
  /\ UNCHANGED <<chain, backfill, boots>>

(* The backfill status, if there is one, is the answer.                    *)
ReadStatus ==
  /\ last # None
  /\ answer' = [backfill |-> status # None,
                current |-> IF status = None THEN last ELSE status]
  /\ last' = None
  /\ UNCHANGED <<chain, backfill, boots>>

StatusNext ==
  \/ Seed \/ Overwrite \/ StartGivesUp \/ Ask \/ Move
  \/ Fetch \/ Report \/ Complete
  \/ Restart \/ ReadCursor \/ ReadStatus

StatusSpec == StatusInit /\ [][StatusNext]_statusVars

-----------------------------------------------------------------------------
(* A block that comes from the backfill is what is stored of the contract: *)
(* GetContractStatus never tells of a block that the listener has not      *)
(* fetched yet, though it reads the status without a lock and after the    *)
(* cursor, and the status is moved, cleared or lost meanwhile.             *)
ReportedIsCovered ==
  answer # None /\ answer.backfill => StartBlock .. answer.current - 1 \subseteq fetched

(* Once the contract has been backfilled up to a head, everything before   *)
(* the block of an answer was fetched for it or asked of the node for the  *)
(* chain, except what lies between that head and the block the cursor was  *)
(* first seeded with, and what Start passed over when it replaced a cursor *)
(* that was seeded early: backfill and polling hand over without agreeing  *)
(* on a block.  A restart seeds the cursor anew, so what the chain grew    *)
(* while the process was down is in that gap.  (Before the first backfill, *)
(* and when one has failed, the cursor says nothing about the contract.)   *)
GapOnlyAtHandOver ==
  answer # None =>
    \A end \in completed : \A b \in StartBlock .. answer.current - 1 :
      b \in fetched \union asked \union passed \/ (end <= b /\ b <= base)
=============================================================================
