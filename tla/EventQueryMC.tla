---------------------------- MODULE EventQueryMC ----------------------------
(***************************************************************************)
(* Four events in three blocks: two of them share a block, and one is of a *)
(* second contract of the address.                                         *)
(***************************************************************************)
EXTENDS EventQuery

MCBlockOf == [e \in Events |-> IF e = 4 THEN 3 ELSE e]
MCContractOf == [e \in Events |-> IF e = 1 THEN "other" ELSE "main"]
=============================================================================
