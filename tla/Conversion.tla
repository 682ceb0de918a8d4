------------------------------ MODULE Conversion ------------------------------
(***************************************************************************)
(* Payments in another currency than the request's: the rates that         *)
(* ChainlinkConversionPath computes along a path of aggregators, and the   *)
(* proxies Erc20ConversionProxy and EthConversionProxy that use them.      *)
(*                                                                         *)
(* `market` is what the chain shows a transaction: [aggregators, now].     *)
(* aggregators is a function from pairs <<input, output>> to the answer,   *)
(* its timestamp and its decimals.                                         *)
(***************************************************************************)
EXTENDS PaymentProxies

CONSTANTS Decimals,        \* currency -> its decimals (FIAT_DECIMALS for fiat)
          Ten,             \* base of the decimals: 10
          Precision        \* PRECISION: 1e18

ASSUME ConversionAssumption == Precision \in Nat \ {0} /\ Ten \in Nat \ {0, 1}

(* getAggregatorAndDecimals: the aggregator of the pair, or the reverse one.*)
HasAggregator(market, pair) ==
    \/ pair \in DOMAIN market.aggregators
    \/ << pair[2], pair[1] >> \in DOMAIN market.aggregators

IsReverse(market, pair) == pair \notin DOMAIN market.aggregators

Aggregator(market, pair) ==
    market.aggregators[IF IsReverse(market, pair)
                       THEN << pair[2], pair[1] >> ELSE pair]

Over(a, b) == IF a > b THEN Ten ^ (a - b) ELSE 1

(***************************************************************************)
(* One step of getRate: the factors of the decimals are multiplied before  *)
(* the current rate is applied and divided after it, each truncating.      *)
(***************************************************************************)
StepRate(rate, market, pair) ==
    LET a       == Aggregator(market, pair)
        input   == Decimals[pair[1]]
        output  == Decimals[pair[2]]
        scaled  == rate * Over(a.decimals, input) * Over(output, a.decimals)
        applied == IF IsReverse(market, pair)
                   THEN (scaled * Ten ^ a.decimals) \div a.answer
                   ELSE (scaled * a.answer) \div Ten ^ a.decimals
    IN  (applied \div Over(input, a.decimals)) \div Over(a.decimals, output)

LatestTimestamp(oldest, market, pair) ==    \* mutant: the last one, not the oldest
    Aggregator(market, pair).timestamp

OldestTimestamp(oldest, market, pair) ==
    IF Aggregator(market, pair).timestamp < oldest
    THEN Aggregator(market, pair).timestamp ELSE oldest

Pairs(path) == [i \in 1 .. Len(path) - 1 |-> << path[i], path[i + 1] >>]

GetRate(market, path) ==
    FoldLeft(LAMBDA acc, pair :
                 IF acc.ok /\ HasAggregator(market, pair)
                 THEN [ok |-> TRUE,
                       rate |-> StepRate(acc.rate, market, pair),
                       oldest |-> OldestTimestamp(acc.oldest, market, pair)]
                 ELSE [acc EXCEPT !.ok = FALSE],
             [ok |-> TRUE, rate |-> Precision, oldest |-> market.now],
             Pairs(path))

(* getConversion; the rate has Precision as its decimals.                  *)
GetConversion(market, path, amountIn) ==
    (amountIn * GetRate(market, path).rate) \div Precision

RateNotOutdated(market, rate, maxRateTimespan) ==
    maxRateTimespan = 0 \/ market.now - rate.oldest <= maxRateTimespan

(* getConversions of both proxies: the payment in the payment currency.    *)
Converted(market, path, payment) ==
    [payment EXCEPT !.amount = GetConversion(market, path, payment.amount),
                    !.feeAmount = GetConversion(market, path, payment.feeAmount)]

ConversionEvent(address, currency, payment, maxRateTimespan) ==
    [name |-> "TransferWithConversionAndReference", address |-> address,
     amount |-> payment.amount, currency |-> currency,
     paymentReference |-> payment.ref, feeAmount |-> payment.feeAmount,
     maxRateTimespan |-> maxRateTimespan]

(***************************************************************************)
(* Erc20ConversionProxy.transferFromWithReferenceAndFee.                   *)
(***************************************************************************)
PayOverTheLimit(converted, maxToSpend) ==       \* mutant: the fee is not counted
    converted.amount <= maxToSpend

WithinUserLimit(converted, maxToSpend) ==
    converted.amount + converted.feeAmount <= maxToSpend

PayErc20WithConversion(w, market, sender, path, payment, maxToSpend, maxRateTimespan) ==
    LET rate      == GetRate(market, path)
        converted == Converted(market, path, payment)
        checked   == Require(w, /\ rate.ok
                                /\ RateNotOutdated(market, rate, maxRateTimespan)
                                /\ WithinUserLimit(converted, maxToSpend))
    IN  IF ~checked.ok THEN checked
        ELSE Emit(TransferFromWithReferenceAndFee(checked, Erc20ConversionProxy,
                      sender, Last(path), converted),
                  ConversionEvent(Erc20ConversionProxy, path[1], payment,
                                  maxRateTimespan))

(* EthConversionProxy.transferWithReferenceAndFee: the limit is the value. *)
PayEthWithConversion(w, market, sender, value, path, payment, maxRateTimespan) ==
    LET rate    == GetRate(market, path)
        checked == Require(w, /\ Last(path) = Native
                              /\ rate.ok
                              /\ RateNotOutdated(market, rate, maxRateTimespan))
    IN  IF ~checked.ok THEN checked
        ELSE Emit(TransferExactEthWithReferenceAndFee(checked, EthConversionProxy,
                      sender, value, Converted(market, path, payment)),
                  ConversionEvent(EthConversionProxy, path[1], payment,
                                  maxRateTimespan))
=============================================================================
