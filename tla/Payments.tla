------------------------------- MODULE Payments -------------------------------
(***************************************************************************)
(* The payment side of the network as one system: payers send transactions *)
(* prepared by the payment processor from request data that may be stale,  *)
(* the contracts execute them one at a time, rates and settings change in  *)
(* between, and payment detection reads the events.                        *)
(*                                                                         *)
(* A transaction that would revert changes nothing and is not a step.      *)
(***************************************************************************)
EXTENDS PaymentProcessor, TransferableReceivable

CONSTANTS
    Payer, Payee, Buyer,   \* users: Buyer may take over a receivable
    InitialBalance,        \* holder -> asset -> balance
    InitialMarket,         \* the answers of the aggregators ...
    Markets,               \* ... and those that may come up
    Configs,               \* settings the owner of the contracts may make
    Batches,               \* sequences of request ids paid in one batch
    Budgets,               \* values for maxToSpend, maxInputAmount
    SwapPaths, SwapCosts,  \* what a payer swaps and what the router asks
    RateAges,              \* values for maxRateAge of a swap, 0 for none
    Extras,                \* values added to a batch by `overrides`
    Refunds, Declarations, \* amounts paid back, amounts declared received
    \* bounds on the length of a behaviour
    MaxTransactions, MaxReceivableTransactions, MaxChanges

VARIABLES
    balance,     \* asset -> holder -> balance
    log,         \* the events of each transaction, in order
    market,      \* aggregators and the time
    config,      \* settings of the batch and swap contracts
    declared,    \* request -> the events declared on it
    snapshots,   \* what refreshing the requests found so far: request -> balance
    paid,        \* history: request -> rate age asked for -> amount and fee sent
    tx,          \* history: what the last transaction was
    changes      \* number of changes of the market, settings and declarations

ledgerVars == << balance, log, paid, tx >>
vars == << ledgerVars, receivableVars, snapshots, market, config, declared, changes >>

Requests == DOMAIN request

(* The age that the payment of a request asks of its rates, 0 for any age: *)
(* the request's own, except for swaps.                                    *)
RequestAges == [r \in Requests |-> request[r].maxRateTimespan]
Ages == RateAges \cup Range(RequestAges)

NoTx == [payer |-> None, ids |-> << >>, fresh |-> FALSE, limited |-> FALSE,
         fees |-> << >>, budget |-> [a \in Assets |-> 0], ages |-> RequestAges]

(***************************************************************************)
(* The parties are users, not contracts; requests are as the request client*)
(* makes them; the batch and swap contracts start with nothing.            *)
(***************************************************************************)
ASSUME PartiesAssumption == {Payer, Payee, Buyer} \subseteq Users

ASSUME RequestAssumption ==
    \A r \in Requests :
        LET rq == request[r]
        IN  /\ rq.pn \in {Erc20Fee, EthFee, AnyToErc20, AnyToEth, Transferable}
            /\ rq.paymentAddress \in Users
            /\ {rq.feeAddress, rq.refundAddress} \subseteq Users \cup {None}
            /\ rq.expectedAmount \in Nat /\ rq.feeAmount \in Nat \cup {None}
            /\ rq.acceptedTokens \subseteq Tokens
            /\ rq.path \in Seq(DOMAIN Decimals) /\ rq.maxRateTimespan \in Nat
            /\ rq.pn \in {Erc20Fee, Transferable} =>
                   rq.currency \in Tokens /\ rq.path = << rq.currency >>
            /\ rq.pn = Transferable =>
                   PaymentReference(r, rq.paymentAddress) \in References

ASSUME ChoicesAssumption ==
    /\ \A ids \in Batches : ids \in Seq(Requests) /\ ids # << >>
    /\ \A path \in SwapPaths : path \in Seq(Tokens) /\ path # << >>
    /\ Refunds \cup Extras \cup RateAges \subseteq Nat

ASSUME MarketAssumption ==
    \A m \in Markets \cup {InitialMarket} : \A pair \in DOMAIN m : m[pair].timestamp \in Nat

ASSUME BalanceAssumption ==
    \A a \in Assets, h \in Holders :
        /\ InitialBalance[h][a] \in Nat
        /\ h \in {Batch, SwapToPay, SwapToConversion} => InitialBalance[h][a] = 0

Init ==
    /\ ReceivableInit
    /\ balance = [a \in Assets |-> [h \in Holders |-> InitialBalance[h][a]]]
    /\ log = << >>
    /\ market = [aggregators |-> InitialMarket, now |-> 1]
    /\ config \in Configs
    /\ declared = [r \in Requests |-> << >>]
    /\ snapshots = << [r \in Requests |-> 0] >>
    /\ paid = [r \in Requests |-> [a \in Ages |-> [amount |-> 0, fee |-> 0]]]
    /\ tx = NoTx
    /\ changes = 0

(***************************************************************************)
(* Request data is refreshed after any step that changes a balance; a payer*)
(* uses a snapshot `data` of any age.                                      *)
(***************************************************************************)
Refresh ==
    snapshots' = Append(snapshots,
                        [r \in Requests |-> GetBalance(r, log', declared'[r], "rpc")])

Occurrences(ids, r) == Cardinality({i \in DOMAIN ids : ids[i] = r})

(* A mined transaction `w`, sent for `ids` with the request data `data`;   *)
(* `budget` is what the payer agreed to spend of each asset, `ages` what   *)
(* the payment of each request asks of its rates.                          *)
Mine(w, payer, ids, data, limited, budget, ages) ==
    /\ w.ok
    /\ balance' = w.balance
    /\ log' = Append(log, w.log)
    /\ paid' = [r \in Requests |-> [a \in Ages |->
                    LET n == IF a = ages[r] THEN Occurrences(ids, r) ELSE 0
                    IN  [amount |-> paid[r][a].amount + n * GetAmountToPay(r, data[r]),
                         fee |-> paid[r][a].fee + n * FeeToPay(r)]]]
    /\ tx' = [payer |-> payer, ids |-> ids, limited |-> limited, fees |-> w.fees,
              fresh |-> data = Last(snapshots) /\ IsInjective(ids), budget |-> budget,
              ages |-> ages]
    /\ UNCHANGED << market, config, declared, changes >>
    /\ Refresh

Spend(asset, amount) == [a \in Assets |-> IF a = asset THEN amount ELSE 0]

(* payRequest for each payment network but the receivables'.               *)
Pay(r, data, maxToSpend) ==
    /\ request[r].pn # Transferable
    /\ CanPay(r, data[r])
    /\ Mine(PayRequest(World(balance), market, Payer, r, data[r], maxToSpend),
            Payer, << r >>, data, FALSE,
            Spend(Last(request[r].path),
                  IF Converts(request[r]) THEN maxToSpend
                  ELSE GetAmountToPay(r, data[r]) + FeeToPay(r)), RequestAges)
    /\ UNCHANGED receivableVars

(* swapErc20FeeProxyRequest, swapToPayAnyToErc20Request: the age of the    *)
(* rate is the payer's choice, none by default, and not the request's.     *)
SwapAndPay(r, data, path, maxInputAmount, cost, maxRateAge) ==
    /\ request[r].pn \in {Erc20Fee, AnyToErc20}
    /\ Last(path) = Last(request[r].path)
    /\ CanPay(r, data[r])
    /\ Mine(SwapToPayRequest(World(balance), market, Payer, r, data[r], path,
                             maxInputAmount, maxRateAge, config.requestSwapFees, cost),
            Payer, << r >>, data, FALSE, Spend(path[1], maxInputAmount),
            [RequestAges EXCEPT ![r] = maxRateAge])
    /\ UNCHANGED receivableVars

(* What a batch may cost of an asset: its payments and the batch fee.      *)
BatchBudget(groups, value, asset) ==
    LET details == FlattenSeq([g \in DOMAIN groups |-> groups[g].requestDetails])
        OfAsset(rd) == Token(rd) = asset
        spent   == Total([i \in DOMAIN SelectSeq(details, OfAsset) |->
                              ToSpend(SelectSeq(details, OfAsset)[i])])
    IN  IF asset = Native THEN value ELSE spent + BatchFee(config, spent)

(* payBatchConversionProxyRequest                                          *)
PayBatch(ids, data, maxToSpend, skipFeeUSDLimit, extra) ==
    LET groups == MetaDetails(ids, data, maxToSpend)
        value  == BatchTxValue(ids, data, maxToSpend) + extra
    IN  /\ \A i \in DOMAIN ids : CanPay(ids[i], data[ids[i]])
        /\ extra > 0 => \E i \in DOMAIN ids : IsNative(ids[i])
        /\ Mine(PayBatchRequest(World(balance), market, config, Payer, ids, data,
                                maxToSpend, skipFeeUSDLimit, extra),
                Payer, ids, data, ~skipFeeUSDLimit,
                [a \in Assets |-> BatchBudget(groups, value, a)], RequestAges)
        /\ UNCHANGED receivableVars

(* batchERC20Payments, which the processor never uses: one token only.     *)
PayBatchOfOneToken(ids, data) ==
    LET details == [i \in DOMAIN ids |-> RequestDetail(ids[i], data[ids[i]], 0)]
    IN  /\ \A i \in DOMAIN ids : /\ request[ids[i]].pn = Erc20Fee
                                 /\ request[ids[i]].currency = request[ids[1]].currency
                                 /\ CanPay(ids[i], data[ids[i]])
        /\ Mine(CallBatchPayments(
                    [market |-> market, config |-> config, payer |-> Payer,
                     groups |-> << [paymentNetworkId |-> 1, requestDetails |-> details] >>,
                     paths |-> << PathFromToken[request[ids[1]].currency] >>,
                     feeAddress |-> request[ids[1]].feeAddress],
                    World(balance), 0),
                Payer, ids, data, TRUE,
                [a \in Assets |->
                    BatchBudget(<< [requestDetails |-> details] >>, 0, a)],
                RequestAges)
        /\ UNCHANGED receivableVars

(* A refund as the specifications describe it: the reference is computed   *)
(* with the refund address.                                                *)
Refund(r, amount) ==
    LET rq == request[r]
    IN  /\ rq.pn = Erc20Fee
        /\ Mine(TransferFromWithReferenceAndFee(World(balance), ERC20FeeProxy, Payee,
                    rq.currency,
                    [to |-> rq.refundAddress, amount |-> amount,
                     ref |-> PaymentReference(r, rq.refundAddress),
                     feeAmount |-> 0, feeAddress |-> None]),
                Payee, << >>, Last(snapshots), FALSE, Spend(rq.currency, amount),
                RequestAges)
        /\ UNCHANGED receivableVars

(***************************************************************************)
(* Receivables: minted by the processor for the payee, sold, paid to their *)
(* owner.                                                                  *)
(***************************************************************************)
MintReceivable(r, data) ==
    LET rq == request[r]
    IN  /\ rq.pn = Transferable
        /\ CanPay(r, data[r])
        /\ Mint(rq.paymentAddress, PaymentReference(r, rq.paymentAddress),
                GetAmountToPay(r, data[r]), rq.currency)
        /\ Mine(World(balance), Payee, << >>, data, FALSE, NoTx.budget, RequestAges)

SellReceivable(id) ==
    /\ TransferFrom(id, Buyer)
    /\ owner[id] # Buyer
    /\ Mine(World(balance), owner[id], << >>, Last(snapshots), FALSE, NoTx.budget,
            RequestAges)

PayReceivable(r, data) ==
    LET rq   == request[r]
        args == Arguments(r, data[r])
        id   == receivableTokenIdMapping[<< rq.paymentAddress, args.ref >>]
    IN  /\ rq.pn = Transferable
        /\ CanPay(r, data[r])
        /\ id # 0
        /\ PayOwner(id, args.amount)
        /\ Mine(PayOwnerTokens(World(balance), Payer, id, args), Payer, << r >>, data,
                FALSE, Spend(rq.currency, args.amount + args.feeAmount), RequestAges)

(***************************************************************************)
(* What changes between transactions: the rates and the time, the settings *)
(* (setBatchFee, setBatchFeeAmountUSDLimit, setNativeAndUSDAddress,        *)
(* updateRequestSwapFees), and payments declared received by the payee.    *)
(***************************************************************************)
Change == /\ changes < MaxChanges
          /\ Len(log) < MaxTransactions
          /\ changes' = changes + 1
          /\ UNCHANGED << ledgerVars, receivableVars >>

UpdateMarket ==
    /\ Change
    /\ \E m \in Markets, later \in 0 .. 1 :
           /\ market' = [aggregators |-> m, now |-> market.now + later]
           /\ \A pair \in DOMAIN m : m[pair].timestamp <= market'.now
    /\ UNCHANGED << config, declared, snapshots >>

Configure ==
    /\ Change
    /\ \E c \in Configs : c.batchFee <= MaxBatchFee /\ config' = c
    /\ UNCHANGED << market, declared, snapshots >>

DeclareReceived(r, name, amount) ==
    /\ Change
    /\ request[r].pn = Erc20Fee
    /\ declared' = [declared EXCEPT ![r] = Append(@, Detected(name, amount, 0, None))]
    /\ UNCHANGED << market, config >>
    /\ Refresh

(* The limits worth trying: none when nothing is converted.                *)
Limits(ids) ==
    IF \E i \in DOMAIN ids : Converts(request[ids[i]]) THEN Budgets ELSE {0}

(* An age means something only for a conversion.                           *)
SwapAges(r) == IF Converts(request[r]) THEN RateAges ELSE {RequestAges[r]}

SendPayments ==
    \E data \in Range(snapshots) :
        \/ \E r \in Requests :
               \/ \E max \in Limits(<< r >>) : Pay(r, data, max)
               \/ \E path \in SwapPaths, max \in Budgets, cost \in SwapCosts,
                     age \in SwapAges(r) :
                      SwapAndPay(r, data, path, max, cost, age)
        \/ \E ids \in Batches : \E max \in Limits(ids), skip \in BOOLEAN,
                                     extra \in Extras :
               PayBatch(ids, data, max, skip, extra)
        \/ \E ids \in Batches : PayBatchOfOneToken(ids, data)

Receivables ==
    \/ \E data \in Range(snapshots), r \in Requests :
           \/ MintReceivable(r, data)
           \/ PayReceivable(r, data)
    \/ \E id \in 1 .. receivableTokenId : SellReceivable(id)

(* It takes more transactions to mint, sell and pay a receivable: the bound*)
(* is higher as long as nothing else is paid.                              *)
OnlyReceivables ==
    \A t \in DOMAIN log : \A i \in DOMAIN log[t] : log[t][i].address = Receivable

Next ==
    \/ /\ Len(log) < MaxTransactions
       /\ \/ SendPayments
          \/ \E r \in Requests, amount \in Refunds : Refund(r, amount)
    \/ /\ \/ Len(log) < MaxTransactions
          \/ Len(log) < MaxReceivableTransactions /\ OnlyReceivables
       /\ Receivables
    \/ UpdateMarket
    \/ Configure
    \/ \E r \in Requests, name \in {"payment", "refund"}, amount \in Declarations :
           DeclareReceived(r, name, amount)

Spec == Init /\ [][Next]_vars

(***************************************************************************)
(* Properties                                                              *)
(***************************************************************************)
Mined == log' # log

(***************************************************************************)
(* Whoever did not send a transaction receives exactly what its fee events *)
(* say, and the fees the batch and swap contracts take: no payment reaches *)
(* anybody twice or without a trace (the proxies behind every path).       *)
(***************************************************************************)
Received(e, asset, user) ==
    IF e.name = "TransferWithReferenceAndFee" /\ e.tokenAddress = asset
    THEN (IF e.to = user THEN e.amount ELSE 0)
         + (IF e.feeAddress = user THEN e.feeAmount ELSE 0)
    ELSE 0

ReceivedFee(f, asset, user) == IF f.asset = asset /\ f.to = user THEN f.fee ELSE 0

Explained(transaction, fees, asset, user) ==
    FoldLeft(LAMBDA sum, e : sum + Received(e, asset, user), 0, transaction)
    + FoldLeft(LAMBDA sum, f : sum + ReceivedFee(f, asset, user), 0, fees)

EventsExplainReceipts ==
    [][Mined => \A a \in Assets, u \in Users \ {tx'.payer} :
           balance'[a][u] - balance[a][u]
               = Explained(Last(log'), tx'.fees, a, u)]_vars

(***************************************************************************)
(* The batch and swap contracts keep nothing of a transaction: excess of   *)
(* maxToSpend, change of a swap and value sent on top all go back.         *)
(***************************************************************************)
NothingLeftBehind ==
    \A a \in Assets, c \in {Batch, SwapToPay, SwapToConversion} : balance[a][c] = 0

(***************************************************************************)
(* What leaves the payer's account is within maxToSpend, maxInputAmount,   *)
(* the value sent, or what a payment without conversion costs.             *)
(***************************************************************************)
SpentWithinBudget ==
    [][Mined => \A a \in Assets :
           balance[a][tx'.payer] - balance'[a][tx'.payer] <= tx'.budget[a]]_vars

(***************************************************************************)
(* The batch fees of one call are worth at most the limit in dollars, over *)
(* all its tokens with a path to the dollar, unless the payer skips it.    *)
(***************************************************************************)
InUSD(asset, fee) ==
    IF PathFromToken[asset] = << >> THEN 0
    ELSE GetConversion(market, PathFromToken[asset], fee)

BatchFeeWithinLimit ==
    [][Mined /\ tx'.limited =>
           SumFunction([i \in DOMAIN tx'.fees |-> InUSD(tx'.fees[i].asset, tx'.fees[i].fee)])
               <= config.limit]_vars

(***************************************************************************)
(* Detection finds exactly what was sent for each request, in its own      *)
(* currency, and its fees: through padding, proxies, conversion, batches,  *)
(* swaps and a receivable sold in between.  Of the payments with conversion*)
(* RPC leaves out those sent with a longer rate age than the request's, and*)
(* TheGraph those sent with a shorter one, which only swaps may be.        *)
(***************************************************************************)
Counted(r, source) ==
    {a \in Ages : CASE ~Converts(request[r]) -> TRUE
                    [] Converts(request[r]) /\ source = "rpc"   -> a <= RequestAges[r]
                    [] Converts(request[r]) /\ source = "graph" -> a >= RequestAges[r]}

PaidAmount(r, source) ==
    SumFunction([a \in Counted(r, source) |-> paid[r][a].amount])

PaidFee(r, source) ==
    SumFunction([a \in Counted(r, source) |-> paid[r][a].fee])

DetectedIsPaid ==
    \A r \in Requests :
        \A source \in IF Converts(request[r]) THEN {"rpc", "graph"} ELSE {"rpc"} :
            LET events == GetEvents(r, log, << >>, source)
            IN  /\ ComputeBalance(events) = PaidAmount(r, source)
                /\ ComputeFeeBalance(events, request[r].feeAddress) = PaidFee(r, source)

(***************************************************************************)
(* A transaction prepared from fresh data, no request twice in it, settles *)
(* its requests exactly over RPC, counting what the payee declared, unless *)
(* a swap asks for a longer rate age than the request's.  (Stale data or a *)
(* request repeated in a batch may overpay.)                               *)
(***************************************************************************)
FreshDataPaysInFull ==
    [][Mined /\ tx'.fresh => \A i \in DOMAIN tx'.ids :
           LET r == tx'.ids[i]
           IN  tx'.ages[r] <= RequestAges[r] =>
                   Last(snapshots')[r] = request[r].expectedAmount]_vars

(***************************************************************************)
(* A payment with conversion uses no rate of its path older than the age   *)
(* it was to be sent with, alone, in a batch and through a swap: the       *)
(* request's time span, or what the payer of a swap chose instead.         *)
(***************************************************************************)
NoRateOlder(r, age) ==
    LET pairs == Pairs(request[r].path)
    IN  \A k \in DOMAIN pairs :
            market.now - Aggregator(market, pairs[k]).timestamp <= age

RatesFreshEnough ==
    [][Mined => \A i \in DOMAIN tx'.ids :
           LET r == tx'.ids[i]
           IN  Converts(request[r]) /\ tx'.ages[r] > 0 =>
                   NoRateOlder(r, tx'.ages[r])]_vars

(***************************************************************************)
(* payment-network-any-to-erc20-proxy-0.1.0.md: maxRateTimespan of a       *)
(* request is the maximum accepted between the payment and the rate.  Of a *)
(* payment that detection over RPC counts, no rate is older.  A swap is    *)
(* sent with another age, and a shorter one, or none, is accepted.         *)
(***************************************************************************)
RequestSpanKept ==
    [][Mined => \A i \in DOMAIN tx'.ids :
           LET r == tx'.ids[i]
           IN  /\ Converts(request[r]) /\ RequestAges[r] > 0
               /\ Last(snapshots')[r] > Last(snapshots)[r]
               => NoRateOlder(r, RequestAges[r])]_vars

(***************************************************************************)
(* What a receivable says was paid of it is what detection finds for its   *)
(* request, whoever owned it at each payment.                              *)
(***************************************************************************)
ReceivableBalanceIsDetected ==
    \A r \in Requests :
        LET id == receivableTokenIdMapping[<< request[r].paymentAddress,
                      PaymentReference(r, request[r].paymentAddress) >>]
        IN  request[r].pn = Transferable =>
                Last(snapshots)[r]
                    = (IF id = 0 THEN 0 ELSE receivableInfoMapping[id].balance)

(***************************************************************************)
(* payment-network-erc20-fee-proxy-contract-0.1.0.md: TransferWithReference*)
(* AndFee events to the refund address, with the reference of that address,*)
(* are refunds.  The detector looks them up with the id of the request.    *)
(***************************************************************************)
Refunded(r) ==
    LET rq == request[r]
        Back(e) == /\ IsFeeEvent(e, rq, PaymentReference(r, rq.refundAddress))
                   /\ e.to = rq.refundAddress /\ e.tokenAddress = rq.currency
        back == SelectSeq(FlattenSeq(log), Back)
    IN  SumFunction([i \in DOMAIN back |-> back[i].amount])

RefundsDetected ==
    \A r \in Requests : request[r].pn = Erc20Fee =>
        GetBalance(r, log, << >>, "rpc") = PaidAmount(r, "rpc") - Refunded(r)
=============================================================================
