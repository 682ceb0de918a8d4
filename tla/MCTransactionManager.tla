------------------------- MODULE MCTransactionManager -------------------------
(***************************************************************************)
(* Model checking of TransactionManager with two users who can decrypt and *)
(* one without a decryption provider, and transactions of others of every  *)
(* kind: malformed, unparsable, in clear, opening a channel for a user of  *)
(* this one (and not for the others), adding him to one, and copying the   *)
(* data of the opening.                                                    *)
(***************************************************************************)
EXTENDS ChannelHistory

CONSTANTS alice, bob, carol, update, key1

Circles == { {}, {alice}, {alice, bob} }

Malformed  == [ClearTransaction(update) EXCEPT !.form = "malformed"]
Garbage    == ClearTransaction(Unparsable)
OtherClear == ClearTransaction(update)
ForBob     == EncryptedInNewChannel(update, key1, {bob})
AddingBob  == EncryptedTransaction(update, key1, {bob})
SameData   == EncryptedInNewChannel(Opening, key1, {alice})

OtherTransactions ==
    {Malformed, Garbage, OtherClear, ForBob, AddingBob, SameData}
=============================================================================
