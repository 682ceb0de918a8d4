---------------------------- MODULE MCRequestLogic ----------------------------
(***************************************************************************)
(* Model checking of RequestLogic: a creation by each party and updates    *)
(* whose order matters, each with an event of its own.                     *)
(***************************************************************************)
EXTENDS RequestHistory

CONSTANTS payee, payer, contract, bad, decl, content, alien

Plain(name, signer, amount) ==
    [name |-> name, signer |-> signer, versionSupported |-> TRUE,
     withRequestId |-> TRUE, payee |-> None, payer |-> None,
     amount |-> amount, extensionsData |-> << >>]

Creation(signer) ==
    [Plain("create", signer, 1) EXCEPT !.payee = payee, !.payer = payer]

IncreaseThenReduce ==
    {Creation(payer), Plain("increaseExpectedAmount", payer, 2),
     Plain("reduceExpectedAmount", payee, 3)}

ASSUME DistinctEvents ==
    \A a, b \in Actions : Event(a) = Event(b) => a = b
=============================================================================
