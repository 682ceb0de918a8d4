# Request Network: a TLA+ verification project

Models, model-checking configurations and machine-checked proofs for the Request Network
monorepo (`src/packages/*`). A *request* is an invoice between a payee and a payer. It is not a
record in a database: it is what an interpretation of a list of signed actions yields. Clients sign
actions and hand them to a node; the node puts them in IPFS and the hash on a chain; a subgraph
indexes them; a reader fetches the list and interprets it. Money moves separately, through smart
contracts, and is matched to a request by a payment reference.

## 1. The system

| Layer | Code (`src/packages/`) | State | Operations | Talks to |
|---|---|---|---|---|
| Request client | `request-client.js` | cached request data of a `Request` object | create, accept, cancel, ..., refresh; HTTP post, deferred confirmation polling | node over HTTP |
| Request logic | `request-logic` | none of its own: everything is recomputed from transactions | seven writers, reads by id and by topic, `applyActionToRequest` | advanced logic (call), transaction manager (async calls, `confirmed` / `error` events) |
| Advanced logic | `advanced-logic` | `extensions` of the request | creation and updates of extensions | called by request logic, once per entry of `extensionsData` |
| Transaction manager | `transaction-manager` | none; keys live in the channel | clear and encrypted channels, decryption and cleaning on reads | data access |
| Data access | `data-access`, `thegraph-data-access` | `PendingStore` (one item per channel) | `persistTransaction`, reads by channel and by topic, confirmation with retries | storage and subgraph, all asynchronous |
| Storage | `ethereum-storage` | the chain, IPFS | `append` with `confirmed` / `error` events | chain |
| Node | `request-node` | `ConfirmedTransactionStore` | HTTP handlers | data access |
| Contracts | `smart-contracts` | escrow requests, balances, periods, batch fee and limit, receivables and their owners, rates and their dates | payments with fee, freeze, emergency claim, batches, swaps, conversions, mint and transfer of a receivable | ERC20 tokens, exchange, each other |
| Payment processor | `payment-processor` | none: reads the chain, then sends a transaction | validation of a request, approval, payment of one request or of a batch | contracts, request data |
| Payment detection | `payment-detection` | none | balance from events and declarations | subgraphs, chain |
| Others | `currency`, `multi-format`, `data-format`, `types`, `utils`, signature and decryption providers | none | encoding, tables, cryptography | |

What is hard in it:

- **Order and duplication.** Anybody may append anything to a channel, any number of times, and
  transactions confirm in an order nobody chose. The interpretation must still be a function of
  what was confirmed, and must apply an action once.
- **Pending against confirmed.** A channel holds confirmed transactions and one remembered pending
  item, written by other calls while a read is between two of its asynchronous steps.
- **Guards that depend on history.** Who may cancel or reduce depends on the state the request has
  reached; extension actions are folded with exceptions that discard the whole action.
- **Answers that overlap.** The client posts a transaction once, then polls until it sees it
  confirmed; one `Request` object is refreshed by several operations at once, and the answers come
  late, out of order or not at all.
- **Keys learnt from the channel.** Whether a channel is encrypted, and its key, are themselves
  read from the channel's messages, to which anybody may add his own ahead of or among the others.
- **Time and deadlock in contracts.** An escrow passes through freezes, claims and refunds whose
  dates depend on periods the owner may change while money is locked.
- **A payment prepared now and mined later.** The processor reads the request, the rates, the
  balance and the allowance; by the time its transaction is mined the request has been paid by
  somebody else, the receivable has been sold, the rates have moved or grown old, the owner has
  changed the batch fee.
- **Money that passes through contracts.** A batch, a swap and a conversion take tokens from the
  payer, pay through another contract and give back what is left, in integer arithmetic with
  different decimals; detection sees only the events, and matches them by reference.

What makes each part correct: request logic: the state, amount and parties are explained by the
events and each event was signed by whom the rules entitle; a replay changes nothing; pending
transactions never change what is confirmed. Extensions: created once, never reset, declarations
made by the right side. Data access: a read misses nothing it could have known; each persisted
transaction is settled. Transaction manager: all parties of a channel, and nobody else, read its
contents, and every party can write to it, as far as no transaction of others misleads him. Client: an operation has one
outcome, the user is told of it, and "confirmed" is said only of what the subgraph has. Escrow: solvent, never stuck, closed only under the
rules agreed, with the waiting periods that were in force. Payments: nothing stays in an
intermediate contract, a payer spends no more than the bounds given with the payment, what was
received is what the events say, and a balance says of a request what was paid for it. Receivable:
one reference each, terms fixed for good, its balance equal to what is detected.

## 2. Modules

```
RequestTypes -> PaymentNetworks -> AdvancedLogic -> RequestCore
RequestCore -+-> RequestLifecycle -> RequestLifecycleProofs, MCRequestLifecycle
             |          ^ (refined by)
             +-> RequestLogic -> RequestHistory -> RequestLogicProofs, MCRequestLogic
TransactionManager -> ChannelHistory -> TransactionManagerProofs, MCTransactionManager
                      (refines Channel)
DataAccess         -> DataAccessProofs,  MCDataAccess
RequestClient      -> RequestClientProofs
EscrowToPay        -> EscrowToPayProofs, MCEscrowToPay
PaymentProxies -+-> Conversion -+-> BatchPayments ----+-> PaymentProcessor -+-> Payments -> MCPayments
                |               +-> SwapToPay --------+                     |
                |               +-> PaymentDetection -+                     |
                +-> TransferableReceivable ---------------------------------+
Payments -> PaymentContractsProofs
SequenceFolds: instantiated by the proof modules
```

**RequestTypes** — identities, actions, events, `IsValidAmount`, `GetRole` (`utils`, `types`,
`role.ts`). A signature is the identity of its signer. Identities are divided into Ethereum
addresses, smart contracts and malformed ones, the classes the code tells apart.

**PaymentNetworks** — the extensions one by one. The classes of `advanced-logic` derive from one
another (declarative, address based, fee based; conversion, stream and native-token networks on top),
so a set of ids for each class, contained in the set of its base, says which rules an id follows.
The operators `...Accepted` are the conditions under which the code does not throw. A creation's
required parameters are one bit, `complete`; which currency a network supports is a constant, since
a request never changes its currency. `subsequent` marks a stream that continues another.

**AdvancedLogic** — one application of `extensionsData` to `extensions`: the fold of
`requestLogicCore.ts`, the shell of `AbstractExtension` (creation or update, once, exceptions) and
the meta network, whose networks (`subs`, by salt) are updated through it. An exception is
`ok = FALSE`. Note that each entry is checked against the request as it was *before* the action; the
extensions accumulate beside it.

**RequestCore** — `applyActionToRequest`: for each action its guard (`CreateAccepted`,
`AcceptAccepted`, ...) and its effect on state, amount, events and `extensionsData`
(`Applied(request, action)`), and `ApplyOrIgnore`, the `try/catch` around it.

**RequestLifecycle** — the state machine: one variable, `request` (or `None`), one action per
action name; a step is one signed action accepted by `RequestCore`. `MaxEvents` bounds its history.
It is the *abstract specification* of what a request is.

**RequestLogic** — the channel: confirmed `log`, the one `pendingItem`, the `mempool`, a `writer`
between its validation and its persist, and the clock. It models `createRequest`, the other
writers with and without `validateAction`, confirmation and failure in any order, replays, garbage,
and the three stages of interpretation (sort, drop of old pendings, uniqueness by action), then
`computeDiffBetweenPendingAndConfirmedRequestState`. **RequestHistory** adds the confirmed request
as a history variable and states that the channel implements `RequestLifecycle`.

**TransactionManager** — clear and encrypted channels over data access: the transactions of one
channel (confirmed `log` and a pending item), the folds `GetChannelTypeAndChannelKey` and
`DecryptAndCleanChannel` of the channel parser, and writers that look the channel up, keep what they
learnt and submit later, when the channel may have changed. Encryption is the set of identities a
key is given to. `opening`, not a variable of the code, is the transaction that creates the request; `Stray`
is any transaction that somebody else writes under the channel's topic once the opening is
published, `Copy` one of the channel's that is published again, whole or without its keys or its
method. **Channel** is what it promises: a channel has a growing group of parties and a
growing sequence of contents that they read. **ChannelHistory** keeps
both as history variables (`parties`, `contents`) and states that TransactionManager implements
Channel.

**RequestClient** — one `Request` object of `request-client.js` with its `HttpDataAccess` and the
node's handlers behind it: posting, the deferred polling of `getConfirmedTransaction` with its
retries, and refreshes in the steps the code awaits (asked, answered, balance, returned). Two
variables are not fields of the code: `reported`, what the user was told (an `error` event without
a listener counts: Node.js raises it), and `waiter`, a caller of `waitForConfirmation`.

**DataAccess** — asynchronous steps of `persistTransaction`, of a read by channel
(`getPending` = take item / look it up / maybe remove it, then query), of a read by topic (query
first, pending store last) and of the confirmation in `TheGraphDataAccess` with its retries.
Transactions are model values; `known` is a history field of a read, not in the code.

**EscrowToPay** — `ERC20EscrowToPay.sol`: every external function that changes state as one atomic
action (the EVM gives atomicity), balances of each token, allowance to the fee proxy, the two
periods and block time.

The payment side is one system of contracts, each an operator from the *world* before a call (the
balances, the events of the transaction, whether it reverted) to the world after it: a transaction
is atomic, so a contract function needs no state between its statements, and its calls to other
contracts are applications of their operators.

**PaymentProxies** — the ledger, `SafeTransferFrom`, and the two proxies that emit
`TransferWithReferenceAndFee` (`ERC20FeeProxy.sol`, `EthereumFeeProxy.sol`, with the return of what
was sent on top). **Conversion** — `ChainlinkConversionPath.sol` (rate along a path, in integer
arithmetic, and the oldest date on it) and the two conversion proxies with their checks of
`maxToSpend` and of the age of the rate. **BatchPayments** — `BatchNoConversionPayments.sol` and
`BatchConversionPayments.sol`: groups of payments, the batch fee and its limit in dollars. A `call`
is the record of what does not change during it (market, settings, payer, arguments); the body of
each Solidity loop is an operator of its own (`FundPayments`, `PayDetail`, `Settle`, `AddToken`, ...)
and the loop a fold of it.
**SwapToPay** — `ERC20SwapToPay.sol`, `ERC20SwapToConversion.sol`; the router of the exchange is
external: it takes a given cost, at most the maximum, and gives the exact amount.

**PaymentDetection** — `payment-detection`: the events of a reference over an RPC node and over
TheGraph, padding and unpadding of fiat amounts, the balance and the fee balance as folds over the
events. **PaymentProcessor** — `payment-processor`: what it refuses, the arguments it computes from
the request data it was given, the batches it groups and the value it sends.

**TransferableReceivable** — `ERC20TransferableReceivable.sol`: mint, transfer, `payOwner`, with the
id of a receivable found by its payee and reference. The amount of the mint and the caller are any.

**Payments** — the composition: one request for each payment network; payers prepare payments from
a *snapshot* of the request data of any age and the transaction is mined later; the payee refunds,
mints, declares; the owner of the contracts configures them; the market moves. `snapshots` are what
each refresh returned; `paid`, the amounts the payers meant to pay, and `tx`, what the last
transaction promised its payer, are history variables, not state of the code.

## 3. Runs

| Run | Module | Shows |
|---|---|---|
| `lifecycle` | MCRequestLifecycle | state and amount explained by events; every event signed by somebody entitled; nothing changes after a cancel; declarations were made by the side that could make them; no later action resets an extension or replaces an address, a fee, a delegate or an instruction, and only the party concerned assigns one, inside a meta network too |
| `ChannelReads` | MCRequestLogic | replays are applied once; pendings never change the confirmed request; the pending request is what confirmation would give; the difference restores it; the confirmed request of the channel implements RequestLifecycle: each confirmation is one of its steps or a stutter |
| `PendingReads` | MCDataAccess | a read by channel misses nothing that was pending or indexed when it began; each persisted transaction ends in `confirmed` or `error` |
| `Channels` | MCTransactionManager | each party whom no transaction of others misled reads all the contents of the channel and can write to it; users who are no party and were not misled read nothing; nobody reads an encrypted channel who was not given its key, whatever the log holds; the refinement of Channel |
| `Client` | RequestClient | an operation has one outcome and the user is told; "confirmed" means indexed; the object never loses its request; a failed creation stays failed; a waiter who asked in time is settled |
| `Escrow` | MCEscrowToPay | solvency, well-formed and never-stuck requests, terms kept, closing rules, waiting periods |
| `Payments` | MCPayments | nothing stays in the batch and swap contracts; nobody receives more or less than the events and fees say; a payer never spends more than agreed; the batch fees of a call stay within their limit; what detection finds, over RPC and TheGraph, is what was meant to be paid, of swaps what their rate age lets each of them count; a payment from fresh data settles its request exactly; no rate older than the age the payment asks for; one receivable per reference, whose balance is the detected one |

Runs that refute a sentence of the repository (each is a row of `findings` with the quotation):

| Run | What the code does instead |
|---|---|
| `ConfirmedBeforeIndexed` | `confirmed` may be emitted before the subgraph has the transaction |
| `NewerPendingRemoved` | a read can remove a pending item registered while it waited |
| `ClientStale` | a refresh that took long can give the object older data than it had: a request it has seen confirmed is pending again |
| `StaleRateSwap` | a swap sent with no rate age, the default, pays at a rate older than the request's span, and detection over RPC counts it |
| `RefundUndetected` | a refund is looked up with the request's id in the place of its payment reference: it is not found |

Other divergences met while modelling, in the models as the code has them but without a run of
their own (paths under `src/packages/`):

- `advanced-logic/src/extensions/payment-network/declarative.ts:190` copies both delegates whoever
  signed; `specs/payment-network-any-declarative-0.2.0.md:80` wants the payee's signature for the
  payee's delegate.
- `request-logic/src/requestLogicCore.ts:115`: an unknown extension makes the whole update ignored;
  `specs/advanced-logic-specs-0.1.0.md:241` has its extensionsData alone ignored.
- `request-logic/src/request.ts:63`: every update of a request whose payer is a smart contract is
  refused, the payee's cancel too; the specification makes that cancel valid.
- `data-access/src/data-read.ts:189`: a read by topic gives pending items the state CONFIRMED.
- `data-access/src/pending-store.ts:26`: one item per channel; `request-client.js/README.md:308`
  speaks of all pending changes.
- `smart-contracts/src/contracts/ERC20EscrowToPay.sol:239`: the owner may shorten the freeze that
  the comments give as twelve months.
- `request-client.js/src/api/request.ts:149`: `waitForConfirmation` listens for the next
  `confirmed`; called after that event it never settles, where `README.md:86` of the package gives
  it as the way to wait for the confirmation.
- `request-client.js/src/api/request.ts:672`: the error of an update is emitted by the request: it
  rejects the creation's `waitForConfirmation`, and a listener put on the update's answer, as in
  `test/declarative-payments.test.ts:34`, hears none.
- `transaction-manager/src/channel-parser.ts:145`: `getChannelTypeAndChannelKey` takes the type and
  key from the first valid transaction, whatever its hash; `decryptAndCleanChannel` ignores that
  transaction when its hash is not the channel's id. A readable one in front of the opening, or one
  encrypted for a user who has no key yet, misleads him: he cannot write, nor read if
  he took a wrong key, where `specs/encryption.md:50` lets each party encrypt with the channel's key.
  `Misleads` is that condition; the properties of the parties exempt those it holds of, and no others.
  Without the exemption TLC refutes them in five steps.
- `advanced-logic/src/extensions/abstract-extension.ts:66` looks for an existing extension in the
  request as it was before the action: two creations of one extension in one action are both
  applied, and the second resets the first.
- `advanced-logic/src/extensions/payment-network/any-to-eth-proxy.ts:73` and its NEAR sibling look for
  the chain of an update in the request's own extensions as they were before the action. So an update
  in the action that creates the network is refused, where `any-to-erc20-proxy` accepts it, and inside
  a meta network no update of an any-to-eth network is ever accepted.
- `advanced-logic/src/extensions/payment-network/fee-reference-based.ts:97-111`: an applied creation takes
  a fee amount without an address, which `createCreationAction` (lines 49-54) refuses to write, and
  no fee can be added afterwards.
- `advanced-logic/src/extensions/payment-network/meta.ts`: a declaration on the meta network itself,
  like one on a subsequent stream, always throws: these have no declared amounts to add to. That
  `applyActionToPn` cannot create a network again, which would reset it, is only because the action it
  builds carries no version.
- Anybody may create an extension through `addExtensionsData`, payment address included: a creation
  checks no signer.
- `request-logic/src/request-logic.ts:683`: an update of a request that does not exist passes
  `validateAction`, whose comment (line 661) has the action tried on the request.
- `data-access/src/data-read.ts:61`: a read by topic asks the pending store last, and can miss a
  transaction that was pending when it began and is removed meanwhile.
- `smart-contracts/src/contracts/BatchConversionPayments.sol:105-143`: the fee in dollars handed to
  the next group is added to itself. The error is on the side of the limit, which holds.
- `smart-contracts/src/contracts/BatchConversionPayments.sol`: a batch without native payments
  is payable and keeps what is sent with it; in the model a batch gets extra value only when it has a
  native payment, the case the code refunds. Two groups with id 3 make the second one revert, and
  `pathsNativeToUSD[0][0]` is out of bounds until it is set.
- `payment-processor/src/payment/batch-conversion-proxy.ts:316`: the value computed for a batch of native
  payments leaves out their fees and the batch fee, which
  `BatchNoConversionPayments.sol:111` asks for: the contract refuses the batch unless the caller adds them
  (`BatchTxValue`; the `Extras` of the run are such additions).
- `payment-processor/src/payment/batch-conversion-proxy.ts:168`: the fee address of the first request
  receives the batch fee of all.
- `payment-processor/src/payment/swap-any-to-erc20.ts:130`: the amounts are padded for every
  currency, not only for fiat, and a currency without decimals makes it throw (the model swaps for
  fiat requests); line 170: the age of the rate is the caller's setting, or none, never the
  request's (`StaleRateSwap`); the deadline of
  a swap is documented in milliseconds (`swap-erc20-fee-proxy.ts:26`) and sent divided by 1000, but
  compared as `deadline * 1000` (lines 134 and 147), so a past one is never refused before sending.
- `payment-detection`: TheGraph (`conversion-info-retriever.ts:52`) drops a payment whose rate age is
  below the request's span, RPC (`any-to-any-proxy.ts:122`) one whose age is above it, and
  `advanced-logic/specs/payment-network-any-to-erc20-proxy-0.1.0.md:372` has equality. `payRequest` and the
  batches send the request's value, which both find. A swap sends the caller's: with the default 0
  TheGraph misses it when the request has a span, with a longer one RPC does. `DetectedIsPaid` says of
  each source exactly what it counts (`Counted`).
- `payment-detection`: over RPC the first event of the proxy in a transaction with the reference is
  taken for each of its conversions, so a batch that pays one request twice reads the first twice.
- `payment-detection/src/fee-reference-based-detector.ts`: the fee balance of a request without a
  fee address throws outside the `try` that turns errors into a balance with an error.
- A payee who declares a payment received that is also found on chain counts it twice.
- `smart-contracts/src/contracts/ERC20TransferableReceivable.sol`: anybody may mint a payee's reference
  first, with other terms. TransferableReceivable has it; the composition mints what the
  processor prepares.

### Bounds, and why they are enough

- *lifecycle*: `MaxEvents` limits the history. The signed actions cover every pair of parties,
  each signer, valid and invalid amounts and missing ids; guards depend on the request's state,
  parties and amount, not on how long ago an event was, so a creation and three updates reach each
  pair of consecutive guards and leave one more to undo what they did. The actions on extensions are
  added to these: creations with and without parameters, incomplete, unknown, for another currency,
  twice in one action, and each declaration, address, fee and delegate by each signer. One network of
  each class: `decl`, `toErc20` (addresses and fees), `toEth` (pays in a native token), `bitcoin` (of
  another currency), and a meta network of two others.
- *ChannelReads*: three confirmed transactions, two in the mempool, one tick and a skew of one
  give every order of a creation, two updates and a replay, equal and different timestamps, and a
  pending item before, at and after the last confirmed time.
- *Channels*: two users who have keys, one who has none, groups of parties among them; three
  confirmed transactions, two on their way and one update being made at a time (`MaxWriting`) give an
  opening, a message that adds a party and a transaction of somebody else in any order. `Strays` is what
  anybody may write under the topic from the publication of the opening on, with no other condition
  than that it is well-formed: one malformed, one with garbage for data, one in clear, one that opens an
  encrypted channel for bob, one that adds him to it, and one with the opening's own data under another
  key, which needs a clear opening for its author to know the data. The last four mislead some user at
  some place of the log and are harmless at others. Ahead of publication nobody knows the topic, a hash of the
  data with its timestamp and nonce.
- *Client*: a creation and an update, up to five refreshes that overlap, one retry of each poll:
  the fewest in which an older answer can overtake a newer one of another operation.
- *DataAccess*: channels share nothing but the readers, so one channel is enough; two
  calls on it are the least that can overwrite, and one client with the two confirmations' own
  reads makes three concurrent readers. One retry distinguishes retrying from giving up.
- *Escrow*: two references show that one request's money cannot pay another's; a unit of time is
  30 days; claims wait two units and freezes three; `MaxTime` lets both expire. The period 9 of the
  owner's choices reaches beyond the date limit `MaxUint`, where the checked addition reverts.
- *Payments*: one request for each payment network, so two can meet in a batch; two transactions
  are the least in which the second is prepared before the first is mined or pays the same
  request again; four while only receivables are paid allow mint, sale and a payment to each
  owner. One change of market, settings or declarations falls before, between or after them.
  Budgets lie below and above the cost at the second rate, one batch exceeds the fee limit, one pays
  a request twice, one has both native networks. TLC computes with 32 bits, hence rates of two
  decimals and `Precision` 100; the euro has one decimal less than a rate, so padding matters.
  A swap asks for a rate age of 0 (the default, no check), 1 (a request's span) or 2 (`RateAges`), so
  below, at and above the span.

`CHECK_DEADLOCK FALSE` is stated because these systems may stop: clients need not call.

### Fairness

Liveness is checked by `PendingReads` and `Client`, under the `FairSpec` of each module. A promise the node is waiting for is resolved or rejected
(`PersistTransaction`, `GetPending`, `QueryStorage`), a submitted transaction is mined or fails in
the end, and the emitters call their listeners. In RequestClient a timer fires and an HTTP request
is answered or fails. No fairness is put on clients, on the subgraph's
indexing, or on failing reads: retries are bounded by `MaxRetries`.

## 4. Proofs

TLAPS proves, for all constants that satisfy the named assumptions:

- **SequenceFolds** — the loops of the code are folds, and a fold is proved about by induction.
  The provers cannot instantiate an induction theorem that takes a predicate; they can instantiate a
  set: `NatInductive` says that a set with 0 in it and closed under successor holds every natural
  number. From it, for a step `Op` that is a parameter of the module: a fold goes through a sequence
  of intermediate results (`FoldTrace`, `TraceUnique`), one element more is one step more
  (`FoldAppend`), and what each step preserves the result has (`FoldInvariant`). A proof module gives
  each loop a named step and instantiates SequenceFolds with it.
- **RequestLifecycleProofs** — types, `StateExplainedByEvents`, `EventsAuthorised`,
  `CancelIsFinal`, `AmountExplainedByEvents`, `DeclaredExplainedByEvents`, `ExtensionsNeverReset`.
  The invariant `IInv` is their conjunction with the facts they need about each
  other: the state at an event is a function of the names before it, so authorisation of a new
  event follows from its guard on the present state, and a canceled request accepts no event
  that changes it. `CreatedFields` and `UpdatedFields` say what the core does to the fields and
  keep the proof of each step independent of the extensions. An event adds its amount to the sum of
  the history as it does to the request. `DeclaredExplainedByEvents` is not inductive over the fold
  of an action's `extensionsData`; `ExtensionsSound` is, which also holds of networks that make no
  declarations and of those inside a meta network. `UpdateKeepsExtension` goes by
  cases on what an update assigns; since a delegate is never replaced, what a delegate signed stays
  rightly signed.
- **RequestLogicProofs** — types, `ConfirmedIgnoresPending`, `PendingIsForecast`, `AppliedOnce`,
  `DiffRestoresPending` and the refinement of RequestLifecycle, for a log of any length. A read
  is a chain of five loops (sort, two filters, removal of duplicates, interpretation). What they make
  of the log is an invariant: block time does not go back, so the log is sorted as it is (`IInv`),
  nothing in it is an old pending, and one confirmation adds at most one step of the last
  loop (`ReadNext`). A pending item either comes last, and is one step more, or is dropped
  (`ReadPending`); that is why a pending copy with an earlier timestamp cannot displace its confirmed
  original. `Made` ties the events to the actions kept. For the refinement, the
  history variable equals what is read of the log (`HistoryIInv`), and each confirmation is
  a step of the lifecycle or none; the lemmas `Same...` say that the rules of the instance
  `Lifecycle` are those of RequestCore. `NoReplay` assumes `EventsIdentify`, that distinct
  actions have distinct events: an event keeps the name, signer, amount and number of extension entries
  only, so two different actions may leave equal events rightly. The run's actions satisfy it.
- **TransactionManagerProofs** — types, `PartiesCanWrite`, `PartiesRead`, `OnlyNamedRead` and the
  refinement of Channel, for any users, groups, keys and logs and any well-formed transactions of others:
  no condition is put on these. What the code needs of them is in the properties instead. `Undisturbed`
  says of one user and one log that no transaction misled him before he was a party; `PartiesCanWrite`
  and `PartiesRead` are about such users, and `OnlyNamedRead`, without it, about all. `IInv` only
  says that of an encrypted channel nothing but copies of the opening has its data. The rest is about the
  parser's loops, by induction over the log: what an undisturbed user has learnt, and kept, after each
  transaction is what `ChannelOf`, which knows the opening and parses nothing, says of the transactions so
  far. Nothing that is read before the opening is kept by him; at the opening, or at the first transaction
  that names him, he learns its type and key; from then on nothing changes what he knows
  (`LearnBefore`, `LearnAtOpening`, `LearnAfter`). A user for whom no transaction carries the key has none.
- **EscrowToPayProofs** — `TypeOK`, `RequestsWellFormed`, `TermsKept`, `ClosesAsAgreed`,
  `WaitingPeriodsKept`, from the invariant `TypeOK /\ RequestsWellFormed`; `StepEffect` classifies
  what a step may do to a request and the three action properties follow from it. `Solvent` has a
  sum over the references, a finite set without order: the sum with one request changed differs by
  the change of that request, and every transaction moves as much as it changes. `AlwaysAWayOut`
  says without ENABLED what `NeverStuck` says with it: of every open request, the conditions of a
  transaction that pays it, refunds it or makes that possible hold or will hold at a date it names.
- **DataAccessProofs** — `TypeOK`, `KnownIsReturned`. `KnownIsReturned` only
  speaks of finished reads. The invariant adds what a read under way guarantees: everything it knew
  is indexed or is the item it holds; `indexed` only grows, so no other step breaks it.
- **RequestClientProofs** — `TypeOK`, `ConfirmedIsIndexed`, `ReturnedDataIsARequest`,
  `ReportedOnce`, `FailedForGood`. What is reported of an operation is tied to its polling by the
  refresh of its confirmation: the invariant says that this refresh exists only once a poll has
  found the operation, which is then indexed for good, and that an operation with an outcome has
  either given up polling or finished that refresh. It also says that the object holds a request
  whenever a refresh is past storing its data.
- **PaymentContractsProofs**, in three layers.
  *One call of one contract*, from any ledger: what the two fee proxies move and log, that a
  conversion costs its sender no more than `maxToSpend` or the value sent and uses no rate too old,
  and that the batch fee of a token is worth no more than its count in dollars, which never passes
  the limit. The last needs the only non-linear argument: a fee cut to `fee * room / worth`
  (`CutFee`) is, after three truncated divisions, still worth at most `room`. Assumed: rates are
  natural numbers (`IsRate`).
  *Whole calls.* `Sound(before, payer, hub, w)` is the relation each step of a call keeps, whatever
  loop it is in: every user but the payer has gained what the events and fees so far say, and no contract
  but the one called (`hub`) holds more or less than before. With it, each loop of the
  batch contract needs only its own account of what the contract holds (what was funded is what is
  still to be paid), and `BatchKeepsNothing` follows for any groups of any payments. A conversion may
  leave the contract some tokens, but `Settle` returns all of them; a group of native payments may
  leave value, but only if the last group, which converts, returns it (`ValueReturns`).
  *The payments as a system.* `PaymentsInv` is inductive: the ledger is well-formed, the batch and
  swap contracts hold nothing and every receivable is found under the key of its payee and reference
  and under no other. `NothingLeftBehind` alone is not: that a call leaves nothing is true only of
  one that starts with nothing, and only of the groups the processor prepares, so the proof
  goes through `MetaDetails` too (`MetaDetailsAre`). `EventsExplainReceipts` follows step by step from
  the same invariant. `DetectionInv` adds, for each request with a receivable, that detection over
  the whole chain finds what the receivable holds, in its token, that nothing is paid back on it, and that the last
  snapshot says so. Every other transaction must then be shown to emit nothing with its reference
  from the receivable contract (`PaidQuietly`), and the references of two requests to differ
  (`ReferencesApart`), which is how one payment is not counted for another request.
  `RatesFreshEnough` runs through all three layers. The rate of a path is computed by a loop, and its
  age is that of the oldest answer of the loop (`OldestIsOldest`); the proxies compare that age
  (`FreshRate`); the loops of the batch contract keep that each payment made so far was compared
  (`RatesChecked`); and the processor hands the contracts the path and the span of each request it
  puts in a group, every request in some group (`AsksAll`, `Covered`). Of a swap it shows that the age
  its payer chose is kept, which is all the code asks for.
  Assumed of the constants, each a named ASSUME of Payments: the parties are users and no contract is one;
  requests have the fields the client gives them; batches and swap paths are not empty; the
  contracts start with nothing; the answers of the aggregators have times. Rates, prices, the router's
  cost, budgets and settings are arbitrary here.
  For the receivable contract by itself, with any caller and terms: types,
  `OneReferencePerReceivable` and that the terms of a receivable are kept.

Where the types are proved of a module whose other invariants are checked, its run may leave them out.

Only model-checked:

- `NeverStuck` (ENABLED; `AlwaysAWayOut` says it without), `Settled`, `Reported` and
  `WaiterInTimeSettles` (liveness under fairness).
- `DetectedIsPaid`, for requests that are not receivables: what a batch logs for each of its ids, in
  order, padded and converted, has no proof. It depends on the requests chosen: a refund address
  equal to the payee's, or a currency with more decimals than a rate, makes it false.
- `SpentWithinBudget`, `BatchFeeWithinLimit` and `FreshDataPaysInFull` over whole transactions. What
  is proved of one call is the part the first two are made of: `ConversionWithinLimit`,
  `EthConversionWithinValue` and `CountCoversTheFee`. The third rests on `DetectedIsPaid`.

## 5. Not modelled

- Cryptography (an identity is its key, only a holder of a key decrypts, a payment reference is
  the pair it is a hash of), parsing and JSON schemas, formatting, IPFS and gas prices, GraphQL
  clients and pagination, currency tables beyond decimals, wallet providers, command-line tools,
  examples, deployment scripts and build files (`.yarn`, hardhat).
- Ethereum storage's submitter, beyond "a submitted transaction is mined or fails".
- In extensions: which parameters each creation requires and their form, currency lists, the
  format of addresses (an address is an identity, valid or malformed).
- Contracts and networks outside the five modelled: ERC777 streams, NEAR, Bitcoin and other test
  nets, `EthereumProxy`, `ERC20Proxy` and the escrow's detection (their shape is that of the
  fee proxies without a fee). Approvals: a payer is assumed to have approved what is taken.
- Tokens with transfer fees or re-entrance.

See `components` in PROJECT.json for each part.

## 6. Plan

1. Done: request logic (core, lifecycle, channel), the extensions of every class, transaction
   manager, data access with confirmation, client and node, escrow, and their proofs; proxies,
   conversion, batches, swaps, receivable, processor and detection, and their composition.
2. Storage: the submitter of `ethereum-storage`, its transaction queue and IPFS.
3. Proofs: the three action properties of Payments still only checked, from the theorems about one
   call and the loop invariants of PaymentContractsProofs; then `DetectedIsPaid`, with the assumptions on
   requests it needs.
