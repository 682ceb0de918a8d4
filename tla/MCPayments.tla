------------------------------ MODULE MCPayments ------------------------------
(***************************************************************************)
(* Model checking of Payments: one request for each payment network.  The  *)
(* amounts are small since TLC computes with 32 bits: a rate has two       *)
(* decimals, and so has a fiat amount on chain; the euro has one in a      *)
(* request, so that padding multiplies it by ten.                          *)
(***************************************************************************)
EXTENDS Payments

CONSTANTS alice, bob, carol, dave,     \* payer, payee, fee address, buyer
          A, B, ETH, EUR, Dollar,
          r1, r2, r3, r4, r5

Bill(pn, currency, path, amount, fee, feeAddress, timespan) ==
    [pn |-> pn, currency |-> currency, path |-> path, acceptedTokens |-> {A},
     expectedAmount |-> amount, feeAmount |-> fee, feeAddress |-> feeAddress,
     paymentAddress |-> bob, refundAddress |-> IF currency = A THEN alice ELSE None,
     maxRateTimespan |-> timespan]

MCRequest ==
    r1 :> Bill(Erc20Fee, A, << A >>, 300, 20, carol, 0) @@
    r2 :> Bill(AnyToErc20, EUR, << EUR, Dollar, A >>, 50, 5, carol, 1) @@
    r3 :> Bill(EthFee, ETH, << ETH >>, 400, 30, carol, 0) @@
    r4 :> Bill(AnyToEth, EUR, << EUR, Dollar, ETH >>, 50, 5, carol, 1) @@
    r5 :> Bill(Transferable, A, << A >>, 100, None, None, 0)

MCDecimals == [c \in {A, B, ETH, EUR, Dollar} |-> 2]
MCCurrencyDecimals == (EUR :> 1) @@ (Dollar :> 2)
MCPathFromToken == (A :> << A, Dollar >>) @@ (B :> << >>) @@ (ETH :> << ETH, Dollar >>)

Answers(euro, euroTime, a, eth) ==
    << EUR, Dollar >> :> [answer |-> euro, timestamp |-> euroTime, decimals |-> 2] @@
    << A, Dollar >>   :> [answer |-> a, timestamp |-> 1, decimals |-> 2] @@
    << ETH, Dollar >> :> [answer |-> eth, timestamp |-> 1, decimals |-> 2]

MCInitialMarket == Answers(120, 1, 50, 200)
MCMarkets == {MCInitialMarket, Answers(120, 0, 40, 250)}

(* A limit that two payments reach, and no limit for the native token.     *)
MCConfigs ==
    {[batchFee |-> 200, limit |-> 15, pathsNativeToUSD |-> << << ETH, Dollar >> >>,
      requestSwapFees |-> 5],
     [batchFee |-> 100, limit |-> 500, pathsNativeToUSD |-> << >>,
      requestSwapFees |-> 0]}

MCInitialBalance ==
    [h \in Holders |-> [asset \in {A, B, ETH} |->
        CASE h = alice -> 4500 [] h = Router /\ asset = A -> 5000 [] OTHER -> 0]]

MCBatches == {<< r3 >>, << r1, r1 >>, << r2, r2 >>, << r4, r3 >>,
              << r3, r2, r1, r4 >>}

MCSwapPaths == {<< B, A >>}
MCReferences == {PaymentReference(r5, bob)}
=============================================================================
