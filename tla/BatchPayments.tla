---------------------------- MODULE BatchPayments -----------------------------
(***************************************************************************)
(* BatchNoConversionPayments and BatchConversionPayments: several payments *)
(* in one transaction, a batch fee on them, and a limit of that fee in     *)
(* dollars.  A detail is a record of the Solidity struct RequestDetail.    *)
(* `config` holds the settings of the owner: batchFee, limit (in dollars)  *)
(* and pathsNativeToUSD.  A `call` of the contract is a record of the      *)
(* market and the settings it meets, of its payer and of its arguments:    *)
(* groups of details, paths to the dollar (none to skip the limit) and the *)
(* fee address.                                                            *)
(***************************************************************************)
EXTENDS Conversion

CONSTANT USD               \* USDAddress

FeeDenominator == 10000
MaxBatchFee    == 200

BatchFee(config, amount) == (amount * config.batchFee) \div FeeDenominator

RequestAmounts(details)  == [i \in DOMAIN details |-> details[i].requestAmount]
FeesIn(details)   == [i \in DOMAIN details |-> details[i].feeAmount]
Total(amounts)    == FoldLeft(LAMBDA sum, a : sum + a, 0, amounts)
Token(detail)     == Last(detail.path)

Payment(detail, feeAddress) ==
    [to |-> detail.recipient, amount |-> detail.requestAmount,
     ref |-> detail.paymentReference, feeAmount |-> detail.feeAmount,
     feeAddress |-> feeAddress]

(***************************************************************************)
(* calculateBatchFeeToPay.  Only the first path that starts at the token   *)
(* and ends at the dollar counts; an empty path met before it reverts.     *)
(***************************************************************************)
PathToUSD(token, paths) ==
    SelectInSeq(paths, LAMBDA p : p = << >> \/ (p[1] = token /\ Last(p) = USD))

NotLimited(market, config, fee, token, usd, paths) ==    \* mutant: counts, never cuts
    LET at == PathToUSD(token, paths)
    IN  [ok |-> TRUE, fee |-> fee,
         usd |-> usd + (IF at = 0 \/ usd >= config.limit THEN 0
                        ELSE GetConversion(market, paths[at], fee))]

CalculateBatchFeeToPay(market, config, fee, token, usd, paths) ==
    LET at    == PathToUSD(token, paths)
        path  == paths[at]
        inUSD == GetConversion(market, path, fee)
        room  == config.limit - usd
    IN  CASE usd >= config.limit ->
                 [ok |-> TRUE, fee |-> 0, usd |-> usd]
          [] usd < config.limit /\ at = 0 ->
                 [ok |-> TRUE, fee |-> fee, usd |-> usd]
          [] usd < config.limit /\ at # 0 ->
                 IF path = << >> \/ ~GetRate(market, path).ok
                 THEN [ok |-> FALSE, fee |-> 0, usd |-> usd]
                 ELSE IF inUSD > room
                 THEN [ok |-> TRUE, fee |-> (fee * room) \div inUSD, usd |-> config.limit]
                 ELSE [ok |-> TRUE, fee |-> fee, usd |-> usd + inUSD]

(* What every function of the contract does with the fee it has computed;  *)
(* `from` is the payer for a token and the contract for the native token.  *)
PayBatchFee(call, w, toPay, asset, from) ==
    PayContractFee([Require(w, toPay.ok) EXCEPT !.usd = toPay.usd],
                   asset, from, call.feeAddress, toPay.fee)

PayTokenBatchFee(call, w, fee, token) ==
    PayBatchFee(call, w, CalculateBatchFeeToPay(call.market, call.config, fee, token,
                                                w.usd, call.paths),
                token, call.payer)

(***************************************************************************)
(* getUTokens: the tokens of the details with what the contract needs of   *)
(* each.  Only the last slot in use can have a zero amount (a conversion   *)
(* without maxToSpend): the next token takes it.                           *)
(***************************************************************************)
ToSpend(detail) ==
    IF Len(detail.path) > 1 THEN detail.maxToSpend
    ELSE detail.requestAmount + detail.feeAmount

Slot(detail) ==
    [tokenAddress |-> Token(detail), amountAndFee |-> ToSpend(detail),
     batchFeeAmount |-> IF Len(detail.path) > 1 THEN 0 ELSE detail.requestAmount]

AddToken(uTokens, detail) ==
    LET slot  == Slot(detail)
        same  == SelectInSeq(uTokens, LAMBDA u : u.tokenAddress = slot.tokenAddress)
        free  == SelectInSeq(uTokens, LAMBDA u : u.amountAndFee = 0)
        worth == \/ detail.maxToSpend > 0
                 \/ detail.requestAmount + detail.feeAmount > 0
    IN  CASE same # 0 ->
                 [uTokens EXCEPT ![same].amountAndFee = @ + slot.amountAndFee,
                                 ![same].batchFeeAmount = @ + slot.batchFeeAmount]
          [] same = 0 /\ worth /\ free # 0 -> [uTokens EXCEPT ![free] = slot]
          [] same = 0 /\ worth /\ free = 0 -> Append(uTokens, slot)
          [] same = 0 /\ ~worth -> uTokens

GetUTokens(details) ==
    LET uTokens == FoldLeft(AddToken, << >>, details)
        empty   == SelectInSeq(uTokens, LAMBDA u : u.amountAndFee = 0)
    IN  IF empty = 0 THEN uTokens ELSE SubSeq(uTokens, 1, empty - 1)

TransferToContract(call, w, token, amountAndFee, batchFeeAmount) ==
    SafeTransferFrom(
        Require(w, w.balance[token][call.payer] >= amountAndFee + batchFeeAmount),
        token, call.payer, Batch, amountAndFee)

PayDetail(call, w, rd) ==
    TransferFromWithReferenceAndFee(w, ERC20FeeProxy, Batch, rd.path[1],
                                    Payment(rd, call.feeAddress))

PayDetails(call, w, details) ==
    FoldLeft(LAMBDA acc, rd : PayDetail(call, acc, rd), w, details)

(***************************************************************************)
(* The private functions; w.usd is the count of the fee before and after.  *)
(***************************************************************************)
BatchERC20Payments(call, w, details) ==
    LET token  == details[1].path[1]
        amount == Total(RequestAmounts(details)) + Total(FeesIn(details))
        toPay  == CalculateBatchFeeToPay(call.market, call.config,
                      BatchFee(call.config, Total(RequestAmounts(details))), token,
                      w.usd, call.paths)
        funded == TransferToContract(call, w, token, amount, toPay.fee)
    IN  PayDetails(call, PayBatchFee(call, funded, toPay, token, call.payer), details)

FundPayments(call, w, u) ==
    LET fee == BatchFee(call.config, u.batchFeeAmount)
    IN  PayTokenBatchFee(call,
            TransferToContract(call, w, u.tokenAddress, u.amountAndFee, fee),
            fee, u.tokenAddress)

BatchMultiERC20Payments(call, w, details) ==
    PayDetails(call,
        FoldLeft(LAMBDA acc, u : FundPayments(call, acc, u), w, GetUTokens(details)),
        details)

FundConversions(call, w, u) ==
    TransferToContract(call, w, u.tokenAddress, u.amountAndFee,
                       BatchFee(call.config, u.amountAndFee))

PayConversion(call, w, rd) ==
    PayErc20WithConversion(w, call.market, Batch, rd.path, Payment(rd, call.feeAddress),
                           rd.maxToSpend, rd.maxRateTimespan)

(* What was not spent of a token goes back; the fee is on what was.        *)
Settle(call, w, u) ==
    LET excess == w.balance[u.tokenAddress][Batch]
    IN  PayTokenBatchFee(call,
            SafeTransferFrom(w, u.tokenAddress, Batch, call.payer, excess),
            BatchFee(call.config, u.amountAndFee - excess), u.tokenAddress)

BatchMultiERC20ConversionPayments(call, w, details) ==
    LET uTokens == GetUTokens(details)
        funded  == FoldLeft(LAMBDA acc, u : FundConversions(call, acc, u), w, uTokens)
        payed   == FoldLeft(LAMBDA acc, rd : PayConversion(call, acc, rd), funded, details)
    IN  FoldLeft(LAMBDA acc, u : Settle(call, acc, u), payed, uTokens)

(* The fee in the native token; no limit when the caller skips it.         *)
NativeFeeToPay(call, w, fee) ==
    LET paths == call.config.pathsNativeToUSD
    IN  IF call.paths = << >> THEN [ok |-> TRUE, fee |-> fee, usd |-> w.usd]
        ELSE IF paths = << >> THEN [ok |-> FALSE, fee |-> 0, usd |-> w.usd]  \* paths[0][0]
        ELSE CalculateBatchFeeToPay(call.market, call.config, fee, Native, w.usd, paths)

KeepChange(call, w) == w             \* mutant: what is left stays in the contract

SendBack(call, w) == SendValue(w, Batch, call.payer, w.balance[Native][Batch])

PayNative(call, w, rd) ==
    TransferWithReferenceAndFee(w, Batch, rd.requestAmount + rd.feeAmount,
                                Payment(rd, call.feeAddress))

BatchNativePayments(call, w, details) ==
    LET payed == FoldLeft(LAMBDA acc, rd : PayNative(call, acc, rd), w, details)
        fee   == BatchFee(call.config, Total(RequestAmounts(details)))
        feed  == PayBatchFee(call, payed, NativeFeeToPay(call, w, fee), Native, Batch)
    IN  IF feed.transferBack THEN SendBack(call, feed) ELSE feed

PayNativeConversion(call, w, rd) ==
    PayEthWithConversion(w, call.market, Batch, w.balance[Native][Batch], rd.path,
                         Payment(rd, call.feeAddress), rd.maxRateTimespan)

BatchNativeConversionPayments(call, w, details) ==
    LET payed == FoldLeft(LAMBDA acc, rd : PayNativeConversion(call, acc, rd),
                          [w EXCEPT !.payerAuthorized = TRUE], details)
        used  == w.balance[Native][Batch] - payed.balance[Native][Batch]
        fee   == BatchFee(call.config, used)
        feed  == PayBatchFee(call, payed, NativeFeeToPay(call, w, fee), Native, Batch)
    IN  [SendBack(call, feed) EXCEPT !.payerAuthorized = FALSE]

(***************************************************************************)
(* batchPayments: groups of details, by the number of their function.      *)
(* Native payments keep what is left if the last group converts.           *)
(***************************************************************************)
PayGroup(call, w, group) ==
    LET args == group.requestDetails
        back == [w EXCEPT !.transferBack = Last(call.groups).paymentNetworkId # 4]
    IN  CASE group.paymentNetworkId = 0 -> BatchMultiERC20ConversionPayments(call, w, args)
          [] group.paymentNetworkId = 1 -> BatchERC20Payments(call, w, args)
          [] group.paymentNetworkId = 2 -> BatchMultiERC20Payments(call, w, args)
          [] group.paymentNetworkId = 3 ->
                 [BatchNativePayments(call, back, args) EXCEPT !.transferBack = TRUE]
          [] group.paymentNetworkId = 4 -> BatchNativeConversionPayments(call, w, args)

(* What a function returns is its count of the fee, which started at the   *)
(* count before it: batchFeeAmountUSD += adds that count to itself.        *)
PayAndCount(call, w, group) == [PayGroup(call, w, group) EXCEPT !.usd = w.usd + @]

CallBatchPayments(call, w, value) ==
    FoldLeft(LAMBDA acc, group : PayAndCount(call, acc, group),
             Credit(Require(w, Len(call.groups) < 6), Native, call.payer, Batch, value),
             call.groups)
=============================================================================
