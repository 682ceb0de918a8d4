---------------------------- MODULE PaymentProxies ----------------------------
(***************************************************************************)
(* The ledger that the payment contracts of packages/smart-contracts share *)
(* and the two proxies with a fee: ERC20FeeProxy and EthereumFeeProxy.     *)
(*                                                                         *)
(* A transaction is atomic, so a contract function is an operator from the *)
(* world before its call to the world after it, and a world where `ok` is  *)
(* FALSE has reverted: nothing of it is kept.  Tokens follow the ERC20     *)
(* standard and every allowance a call needs has been given.               *)
(***************************************************************************)
EXTENDS Integers, SequencesExt, TLC

CONSTANTS Users, Tokens,
          Native,          \* the native token
          None             \* address(0)

(* The contracts, by the names of their sources.                           *)
ERC20FeeProxy        == "ERC20FeeProxy"
EthereumFeeProxy     == "EthereumFeeProxy"
Erc20ConversionProxy == "Erc20ConversionProxy"
EthConversionProxy   == "EthConversionProxy"
Receivable           == "ERC20TransferableReceivable"
Batch                == "BatchConversionPayments"
SwapToPay            == "ERC20SwapToPay"
SwapToConversion     == "ERC20SwapToConversion"
Router               == "SwapRouter"

Assets  == Tokens \cup {Native}
Contracts == {Batch, SwapToPay, SwapToConversion, Router}   \* those that hold assets
Holders == Users \cup Contracts \cup {None}

ASSUME LedgerAssumption ==
    /\ Native \notin Tokens /\ None \notin Users \cup Contracts
    /\ Users \cap Contracts = {}

(***************************************************************************)
(* A world: balances, the events of this transaction, and what the batch   *)
(* contract keeps in a call: payerAuthorized,                              *)
(* transferBackRemainingNativeTokens, its count `usd` of the batch fee in  *)
(* dollars, and the fees that the batch and swap contracts take themselves.*)
(***************************************************************************)
World(b) ==
    [ok |-> TRUE, balance |-> b, log |-> << >>, payerAuthorized |-> FALSE,
     transferBack |-> TRUE, usd |-> 0, fees |-> << >>]

Require(w, condition) == [w EXCEPT !.ok = @ /\ condition]

Shifted(b, asset, from, to, amount) ==
    [b EXCEPT ![asset] =
        [h \in DOMAIN b[asset] |-> b[asset][h] - (IF h = from THEN amount ELSE 0)
                                        + (IF h = to THEN amount ELSE 0)]]

(* Amounts are unsigned: a difference below zero reverts.                  *)
Credit(w, asset, from, to, amount) ==
    IF w.ok /\ amount \in Nat /\ w.balance[asset][from] >= amount
    THEN [w EXCEPT !.balance = Shifted(@, asset, from, to, amount)]
    ELSE [w EXCEPT !.ok = FALSE]

(* transferFrom and transfer of a token, which refuses address(0).         *)
SafeTransferFrom(w, token, from, to, amount) ==
    Credit(Require(w, to # None), token, from, to, amount)

(***************************************************************************)
(* A call with value.  Users and address(0) take it, the batch contract    *)
(* only from its conversion proxy (receive()), the swaps and proxies never.*)
(***************************************************************************)
TakesValue(w, to, amount) ==
    \/ to \in Users \cup {None}
    \/ to = Batch /\ (w.payerAuthorized \/ amount = 0)

SendValue(w, from, to, amount) ==
    Credit(Require(w, TakesValue(w, to, amount)), Native, from, to, amount)

(* A fee of the batch or swap contract, of which no event tells.           *)
PayContractFee(w, asset, from, to, fee) ==
    LET paid == IF asset = Native THEN SendValue(w, from, to, fee)
                                  ELSE SafeTransferFrom(w, asset, from, to, fee)
    IN  [paid EXCEPT !.fees = Append(@, [asset |-> asset, to |-> to, fee |-> fee])]

Emit(w, event) == IF w.ok THEN [w EXCEPT !.log = Append(@, event)] ELSE w

(***************************************************************************)
(* TransferWithReferenceAndFee as logged by the contract at `address`,     *)
(* which is a conversion proxy or the receivable contract if it delegated  *)
(* the call.  `payment` is a record of the arguments shared by the proxies.*)
(***************************************************************************)
FeeEvent(address, token, payment) ==
    [name |-> "TransferWithReferenceAndFee", address |-> address,
     tokenAddress |-> token, to |-> payment.to, amount |-> payment.amount,
     paymentReference |-> payment.ref, feeAmount |-> payment.feeAmount,
     feeAddress |-> payment.feeAddress]

FeeTwice(w, address, sender, token, payment) ==     \* mutant: fee on top for the payee
    Emit(SafeTransferFrom(w, token, sender, payment.to,
                          payment.amount + payment.feeAmount),
         FeeEvent(address, token, payment))

(* ERC20FeeProxy.transferFromWithReferenceAndFee                           *)
TransferFromWithReferenceAndFee(w, address, sender, token, payment) ==
    LET paid == SafeTransferFrom(w, token, sender, payment.to, payment.amount)
        withFee == IF payment.feeAmount # 0 /\ payment.feeAddress # None
                   THEN SafeTransferFrom(paid, token, sender,
                                         payment.feeAddress, payment.feeAmount)
                   ELSE paid
    IN  Emit(withFee, FeeEvent(address, token, payment))

(***************************************************************************)
(* EthereumFeeProxy.transferExactEthWithReferenceAndFee: the value beyond  *)
(* amount and fee goes back to the sender, whose receive() may refuse it.  *)
(***************************************************************************)
TransferExactEthWithReferenceAndFee(w, address, sender, value, payment) ==
    LET left == value - payment.amount - payment.feeAmount
        paid == SendValue(w, sender, payment.to, payment.amount)
        withFee == SendValue(paid, sender, payment.feeAddress, payment.feeAmount)
        sentBack == SendValue(Require(withFee, left >= 0), sender, sender, left)
    IN  Emit(sentBack, FeeEvent(address, Native, payment))

(* transferWithReferenceAndFee: the amount is the value less the fee.      *)
TransferWithReferenceAndFee(w, sender, value, payment) ==
    TransferExactEthWithReferenceAndFee(w, EthereumFeeProxy, sender, value,
        [payment EXCEPT !.amount = value - payment.feeAmount])
=============================================================================
