--------------------------- MODULE PaymentDetection ---------------------------
(***************************************************************************)
(* packages/payment-detection: how the balance of a request is read from   *)
(* the events of the payment contracts, over an RPC node or TheGraph.      *)
(*                                                                         *)
(* `chain` is a sequence of transactions, each the sequence of its events. *)
(***************************************************************************)
EXTENDS Conversion

CONSTANTS
    request,           \* id -> the fields of a request that payments depend on
    Fiat,              \* the currencies of type ISO4217
    CurrencyDecimals,  \* their decimals in a request
    ChainlinkDecimals  \* 8

(* The payment networks modelled.                                          *)
Erc20Fee   == "pn-erc20-fee-proxy-contract"
EthFee     == "pn-eth-fee-proxy-contract"
AnyToErc20 == "pn-any-to-erc20-proxy"
AnyToEth   == "pn-any-to-eth-proxy"
Transferable == "pn-erc20-transferable-receivable"

Converts(rq) == rq.pn \in {AnyToErc20, AnyToEth}

(* PaymentReferenceCalculator: a hash of request, salt and address.        *)
RequestId(r) == << r >>
PaymentReference(r, address) == << r, address >>

(***************************************************************************)
(* padAmountForChainlink and unpadAmountFromChainlink                      *)
(***************************************************************************)
PaddingSize(currency) ==
    IF currency \in Fiat /\ ChainlinkDecimals > CurrencyDecimals[currency]
    THEN ChainlinkDecimals - CurrencyDecimals[currency] ELSE 0

PadAmountForChainlink(amount, currency) == amount * Ten ^ PaddingSize(currency)
NotUnpadded(amount, currency) == amount                \* mutant of the next
UnpadAmountFromChainlink(amount, currency) == amount \div Ten ^ PaddingSize(currency)

(* The contract whose events a payment network reads.                      *)
ProxyAddress(rq) ==
    CASE rq.pn = Erc20Fee     -> ERC20FeeProxy
      [] rq.pn = EthFee       -> EthereumFeeProxy
      [] rq.pn = AnyToErc20   -> Erc20ConversionProxy
      [] rq.pn = AnyToEth     -> EthConversionProxy
      [] rq.pn = Transferable -> Receivable

IsFeeEvent(e, rq, ref) ==
    /\ e.name = "TransferWithReferenceAndFee"
    /\ e.address = ProxyAddress(rq)
    /\ e.paymentReference = ref

Detected(name, amount, fee, feeAddress) ==
    [name |-> name, amount |-> amount, feeAmount |-> fee, feeAddress |-> feeAddress]

(***************************************************************************)
(* The info retrievers without conversion, over RPC or TheGraph: the token *)
(* must be the request's, and the payee its address except for receivables.*)
(***************************************************************************)
EveryPayee(rq) == TRUE                     \* mutant: receivables as well
PayeeIsChecked(rq) == rq.pn # Transferable

IsTransfer(e, rq, ref, to) ==
    /\ IsFeeEvent(e, rq, ref)
    /\ rq.pn # EthFee => e.tokenAddress = rq.currency
    /\ PayeeIsChecked(rq) => e.to = to

TransferEvents(transaction, rq, ref, to, name) ==
    FoldLeft(LAMBDA found, e :
                 IF IsTransfer(e, rq, ref, to)
                 THEN Append(found, Detected(name, e.amount, e.feeAmount, e.feeAddress))
                 ELSE found,
             << >>, transaction)

(***************************************************************************)
(* The retrievers with conversion read the amounts of the conversion event *)
(* and match it with an event of the fee proxy.  Over RPC that is the      *)
(* first one of the same transaction; TheGraph stores them together.  The  *)
(* two also compare the time span of the rate in opposite directions.      *)
(***************************************************************************)
ProxyLog(transaction, i, rq, ref, source) ==
    LET at == {j \in DOMAIN transaction : IsFeeEvent(transaction[j], rq, ref)}
    IN  IF source = "rpc"
        THEN transaction[CHOOSE j \in at : \A k \in at : j <= k]
        ELSE transaction[i - 1]

TimespanAccepted(rq, timespan, source) ==
    IF source = "rpc" THEN rq.maxRateTimespan >= timespan
                      ELSE rq.maxRateTimespan <= timespan

ConversionEvents(transaction, rq, ref, to, name, source) ==
    LET Found(i) ==
            LET e == transaction[i]
            IN  /\ e.name = "TransferWithConversionAndReference"
                /\ e.address = ProxyAddress(rq)
                /\ e.paymentReference = ref
                /\ e.currency = rq.currency
                /\ TimespanAccepted(rq, e.maxRateTimespan, source)
                /\ LET proxyLog == ProxyLog(transaction, i, rq, ref, source)
                   IN  /\ rq.pn = AnyToErc20 => proxyLog.tokenAddress \in rq.acceptedTokens
                       /\ proxyLog.to = to
        Event(i) ==
            Detected(name, UnpadAmountFromChainlink(transaction[i].amount, rq.currency),
                     UnpadAmountFromChainlink(transaction[i].feeAmount, rq.currency),
                     ProxyLog(transaction, i, rq, ref, source).feeAddress)
        found == SelectSeq([i \in DOMAIN transaction |-> i], Found)
    IN  [k \in DOMAIN found |-> Event(found[k])]

ExtractEvents(name, chain, rq, ref, to, source) ==
    IF to = None /\ rq.pn # Transferable THEN << >>
    ELSE FoldLeft(LAMBDA events, transaction :
                      events \o IF Converts(rq)
                                THEN ConversionEvents(transaction, rq, ref, to, name, source)
                                ELSE TransferEvents(transaction, rq, ref, to, name),
                  << >>, chain)

(***************************************************************************)
(* ReferenceBasedDetector.getEvents and computeBalance.  A refund is       *)
(* looked up with the id of the request instead of a payment reference.    *)
(* `declared` is what the payee and the payer have declared received.      *)
(***************************************************************************)
GetEvents(r, chain, declared, source) ==
    LET rq == request[r]
    IN  declared
        \o ExtractEvents("payment", chain, rq, PaymentReference(r, rq.paymentAddress),
                         rq.paymentAddress, source)
        \o ExtractEvents("refund", chain, rq, RequestId(r), rq.refundAddress, source)

ComputeBalance(events) ==
    FoldLeft(LAMBDA sum, e : IF e.name = "payment" THEN sum + e.amount
                             ELSE sum - e.amount, 0, events)

ComputeFeeBalance(events, feeAddress) ==
    FoldLeft(LAMBDA sum, e : IF e.feeAddress \in {None, feeAddress} THEN sum + e.feeAmount
                             ELSE sum, 0, events)

GetBalance(r, chain, declared, source) ==
    ComputeBalance(GetEvents(r, chain, declared, source))

=============================================================================
