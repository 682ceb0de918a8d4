------------------------------ MODULE SwapToPay -------------------------------
(***************************************************************************)
(* ERC20SwapToPay and ERC20SwapToConversion: the payer spends one token,   *)
(* a router swaps it for the token of the payment, what is left goes back  *)
(* to the payer, and a swap fee in thousandths goes to the fee address.    *)
(***************************************************************************)
EXTENDS Conversion

SwapFee(amount, requestSwapFees) == (amount * requestSwapFees) \div 1000

(***************************************************************************)
(* swapTokensForExactTokens of the router, which is not in the repository: *)
(* it takes `cost` of the spent token, at most amountInMax, and gives      *)
(* exactly amountOut of the other.                                         *)
(***************************************************************************)
SwapTokensForExactTokens(w, contract, path, amountOut, amountInMax, cost) ==
    Credit(Credit(Require(w, cost <= amountInMax),
                  path[1], contract, Router, cost),
           Last(path), Router, contract, amountOut)

GiveChange(w, contract, payer, path) ==
    LET Give(acc, token) == SafeTransferFrom(acc, token, contract, payer,
                                             acc.balance[token][contract])
    IN  Give(Give(w, path[1]), Last(path))

(* ERC20SwapToPay.swapTransferWithReference and its approveAndPay.         *)
SwapTransferWithReference(w, payer, path, payment, amountInMax, requestSwapFees, cost) ==
    LET total   == payment.amount + payment.feeAmount
        swapFee == SwapFee(total, requestSwapFees)
        funded  == SafeTransferFrom(w, path[1], payer, SwapToPay, amountInMax)
        swapped == SwapTokensForExactTokens(funded, SwapToPay, path, total + swapFee,
                                            amountInMax, cost)
        paid    == TransferFromWithReferenceAndFee(swapped, ERC20FeeProxy, SwapToPay,
                                                   Last(path), payment)
        feed    == PayContractFee(paid, Last(path), SwapToPay, payment.feeAddress, swapFee)
    IN  GiveChange(feed, SwapToPay, payer, path)

(* ERC20SwapToConversion.swapTransferWithReference: the amount and the fee *)
(* are converted together to fund the payment, and one by one to pay it.   *)
SwapAndConvert(w, market, payer, path, chainlinkPath, payment, amountInMax, maxRateTimespan, requestSwapFees, cost) ==
    LET total   == GetConversion(market, chainlinkPath,
                                 payment.amount + payment.feeAmount)
        swapFee == SwapFee(total, requestSwapFees)
        checked == Require(w, /\ Last(path) = Last(chainlinkPath)
                              /\ payment.feeAddress # None
                              /\ GetRate(market, chainlinkPath).ok)
        funded  == SafeTransferFrom(checked, path[1], payer, SwapToConversion, amountInMax)
        swapped == SwapTokensForExactTokens(funded, SwapToConversion, path,
                                            total + swapFee, amountInMax, cost)
        paid    == PayErc20WithConversion(swapped, market, SwapToConversion,
                                          chainlinkPath, payment, total, maxRateTimespan)
        feed    == PayContractFee(paid, Last(path), SwapToConversion,
                                  payment.feeAddress, swapFee)
    IN  IF ~checked.ok THEN checked ELSE GiveChange(feed, SwapToConversion, payer, path)
=============================================================================
