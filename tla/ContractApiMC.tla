---------------------------- MODULE ContractApiMC ----------------------------
(***************************************************************************)
(* Requests that meet: the first has two events, the second is the same    *)
(* request once more with the address and the first event spelled in       *)
(* another way, the third asks for the second event only and without an    *)
(* ABI, the fourth names a chain that is not configured, the fifth has no  *)
(* list of signatures.                                                     *)
(***************************************************************************)
EXTENDS ContractApi

Lower == [of |-> 1, hex |-> TRUE, prefixed |-> TRUE, mixedCase |-> FALSE]
Checksummed == [Lower EXCEPT !.mixedCase = TRUE]

A == [name |-> "A", params |-> "p", parens |-> TRUE, spaced |-> FALSE, labels |-> "none"]
SpacedA == [A EXCEPT !.spaced = TRUE, !.labels = "indexed"]
B == [A EXCEPT !.name = "B"]

MCBody == [r \in Requests |->
  CASE r = 1 -> [chain |-> 1, address |-> Checksummed, signatures |-> <<A, B>>,
                 abi |-> {ParseEventSignature(A)}]
    [] r = 2 -> [chain |-> 1, address |-> Lower, signatures |-> <<SpacedA, B>>,
                 abi |-> {ParseEventSignature(A)}]
    [] r = 3 -> [chain |-> 1, address |-> Lower, signatures |-> <<B>>, abi |-> {}]
    [] r = 4 -> [chain |-> 2, address |-> Lower, signatures |-> <<>>, abi |-> {}]
    [] r = 5 -> [chain |-> 1, address |-> Lower, signatures |-> <<>>, abi |-> {}]]
=============================================================================
