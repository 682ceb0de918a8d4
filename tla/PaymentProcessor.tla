--------------------------- MODULE PaymentProcessor ---------------------------
(***************************************************************************)
(* packages/payment-processor: the transactions it prepares for a request  *)
(* of each payment network, for swaps and for batches.  `balance` is what  *)
(* request data said was paid of the request when it was last refreshed.   *)
(***************************************************************************)
EXTENDS BatchPayments, SwapToPay, PaymentDetection

CONSTANT PathFromToken      \* token -> conversion path to USD, << >> if none

(* getAmountToPay, which throws unless its result is positive.             *)
WholeAmount(r, balance) == request[r].expectedAmount       \* mutant of the next
GetAmountToPay(r, balance) == request[r].expectedAmount - balance

(***************************************************************************)
(* validateRequest, validateConversionFeeProxyRequest and getAmountToPay:  *)
(* what every preparation throws for.  A fee of 0 is a declared one.       *)
(***************************************************************************)
CanPay(r, balance) ==
    LET rq == request[r]
    IN  /\ rq.pn \in {Erc20Fee, AnyToErc20} =>
               ((rq.feeAddress = None) <=> (rq.feeAmount = None))
        /\ rq.pn = AnyToErc20 =>
               /\ rq.path[1] = rq.currency
               /\ Last(rq.path) \in rq.acceptedTokens
        /\ GetAmountToPay(r, balance) > 0

FeeToPay(r) == IF request[r].feeAmount = None THEN 0 ELSE request[r].feeAmount

(* The arguments of a payment; padded when the contract converts.          *)
Arguments(r, balance) ==
    LET rq == request[r]
        Padded(amount) ==
            IF Converts(rq) THEN PadAmountForChainlink(amount, rq.currency) ELSE amount
    IN  [to |-> rq.paymentAddress, amount |-> Padded(GetAmountToPay(r, balance)),
         ref |-> PaymentReference(r, rq.paymentAddress),
         feeAmount |-> Padded(FeeToPay(r)), feeAddress |-> rq.feeAddress]

(* payRequest: one transaction from the payer to the proxy of the network. *)
PayRequest(w, market, payer, r, balance, maxToSpend) ==
    LET rq   == request[r]
        args == Arguments(r, balance)
    IN  CASE rq.pn = Erc20Fee ->
                 TransferFromWithReferenceAndFee(w, ERC20FeeProxy, payer, rq.currency, args)
          [] rq.pn = EthFee ->
                 TransferWithReferenceAndFee(w, payer, args.amount + args.feeAmount, args)
          [] rq.pn = AnyToErc20 ->
                 PayErc20WithConversion(w, market, payer, rq.path, args, maxToSpend,
                                        rq.maxRateTimespan)
          [] rq.pn = AnyToEth ->
                 PayEthWithConversion(w, market, payer, maxToSpend, rq.path, args,
                                      rq.maxRateTimespan)

(* swapErc20FeeProxyRequest and swapToPayAnyToErc20Request (fiat requests):*)
(* `maxRateAge` is the payer's maxRateAge, or 0 without one.               *)
SwapToPayRequest(w, market, payer, r, balance, path, maxInputAmount, maxRateAge, swapFees, cost) ==
    LET rq == request[r]
    IN  IF rq.pn = AnyToErc20
        THEN SwapAndConvert(w, market, payer, path, rq.path, Arguments(r, balance),
                            maxInputAmount, maxRateAge, swapFees, cost)
        ELSE SwapTransferWithReference(w, payer, path, Arguments(r, balance),
                                       maxInputAmount, swapFees, cost)

(***************************************************************************)
(* Batches: getRequestDetailWithConversion and WithoutConversion, grouped  *)
(* by payment network in the order of the numbers of their functions.      *)
(* `balances` are those of the requests and maxToSpend is one for all.     *)
(***************************************************************************)
BatchId(r) ==
    CASE request[r].pn = AnyToErc20 -> 0
      [] request[r].pn = Erc20Fee   -> 2
      [] request[r].pn = EthFee     -> 3
      [] request[r].pn = AnyToEth   -> 4

IsNative(r) == request[r].pn \in {EthFee, AnyToEth}

RequestDetail(r, balance, maxToSpend) ==
    LET rq   == request[r]
        args == Arguments(r, balance)
    IN  [recipient |-> args.to, requestAmount |-> args.amount, path |-> rq.path,
         paymentReference |-> args.ref, feeAmount |-> args.feeAmount,
         maxToSpend |-> IF Converts(rq) THEN maxToSpend ELSE 0,
         maxRateTimespan |-> IF Converts(rq) THEN rq.maxRateTimespan ELSE 0]

(* The requests of a batch that go to the function n, in their order.      *)
Members(ids, n) ==
    FoldLeft(LAMBDA kept, r : IF BatchId(r) = n THEN Append(kept, r) ELSE kept, << >>, ids)

Group(ids, balances, maxToSpend, n) ==
    LET members == Members(ids, n)
    IN  [paymentNetworkId |-> n,
         requestDetails |-> [i \in DOMAIN members |->
             RequestDetail(members[i], balances[members[i]], maxToSpend)]]

MetaDetails(ids, balances, maxToSpend) ==
    FoldLeft(LAMBDA groups, n :
                 IF Members(ids, n) = << >> THEN groups
                 ELSE Append(groups, Group(ids, balances, maxToSpend, n)),
             << >>, << 0, 2, 3, 4 >>)

(* getUSDPathsForFeeLimit: [] skips the limit; the path of the native token*)
(* comes last, empty when there is none.                                   *)
UsdPathsForFeeLimit(ids, groups, skipFeeUSDLimit) ==
    LET details  == FlattenSeq([g \in DOMAIN groups |-> groups[g].requestDetails])
        tokens   == FoldLeft(LAMBDA seen, rd :
                                 IF Contains(seen, Token(rd)) \/ Token(rd) = Native
                                 THEN seen ELSE Append(seen, Token(rd)),
                             << >>, details)
        Found(p) == p # << >>
        paths    == SelectSeq([i \in DOMAIN tokens |-> PathFromToken[tokens[i]]], Found)
        hasNativePayment == \E i \in DOMAIN ids : IsNative(ids[i])
    IN  CASE skipFeeUSDLimit -> << >>
          [] ~skipFeeUSDLimit /\ hasNativePayment -> Append(paths, PathFromToken[Native])
          [] ~skipFeeUSDLimit /\ ~hasNativePayment -> paths

(* getBatchTxValue: no fee and no batch fee on top of a native request.    *)
BatchTxValue(ids, balances, maxToSpend) ==
    FoldLeft(LAMBDA sum, r :
                 IF ~IsNative(r) THEN sum
                 ELSE sum + (IF request[r].pn = AnyToEth THEN maxToSpend
                             ELSE GetAmountToPay(r, balances[r])),
             0, ids)

(* payBatchConversionProxyRequest; `extra` is what overrides add to the    *)
(* value.  The fee address is the first request's.                         *)
PayBatchRequest(w, market, config, payer, ids, balances, maxToSpend, skipFeeUSDLimit, extra) ==
    LET groups == MetaDetails(ids, balances, maxToSpend)
    IN  CallBatchPayments(
            [market |-> market, config |-> config, payer |-> payer, groups |-> groups,
             paths |-> UsdPathsForFeeLimit(ids, groups, skipFeeUSDLimit),
             feeAddress |-> request[ids[1]].feeAddress],
            w, BatchTxValue(ids, balances, maxToSpend) + extra)
=============================================================================
