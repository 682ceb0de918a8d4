---------------------------- MODULE MCEscrowToPay ----------------------------
(***************************************************************************)
(* Model checking of EscrowToPay.  One time unit is 30 days; a claim takes *)
(* two and a freeze three at first.  Both users may be payer, payee, owner *)
(* or fee address; the payee may also be the contract itself.              *)
(***************************************************************************)
EXTENDS EscrowToPay

CONSTANTS alice, bob

SupplyOf == [u \in Users |-> IF u = alice THEN 3 ELSE 0]
=============================================================================
