-------------------------- MODULE BackfillProgress --------------------------
(***************************************************************************)
(* What the backfill of a contract promises of its status: a status is a   *)
(* block up to which everything from StartBlock on was fetched, and it is  *)
(* cleared only when everything before the head the backfill had asked for *)
(* was fetched.  Failed and cut off backfills leave it where it is.        *)
(***************************************************************************)
EXTENDS Naturals

CONSTANTS StartBlock, None

VARIABLES
  status,    \* the backfill status of the contract
  fetched,   \* the blocks fetched for it
  completed  \* the heads that backfills were completed up to

progress == <<status, fetched, completed>>

Init == status = None /\ fetched = {} /\ completed = {}

Fetch ==
  /\ fetched' \in SUBSET Nat /\ fetched \subseteq fetched'
  /\ UNCHANGED <<status, completed>>

Report ==
  /\ status' \in Nat
  /\ StartBlock .. status' - 1 \subseteq fetched
  /\ UNCHANGED <<fetched, completed>>

Complete ==
  /\ completed' \in SUBSET Nat /\ completed \subseteq completed'
  /\ \A end \in completed' \ completed : StartBlock .. end - 1 \subseteq fetched
  /\ status' = None
  /\ UNCHANGED fetched

Next == Fetch \/ Report \/ Complete

Spec == Init /\ [][Next]_progress
=============================================================================
