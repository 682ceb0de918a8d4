----------------------------- MODULE RequestLogic -----------------------------
(***************************************************************************)
(* The request logic as its clients use it (request-logic.ts): actions are *)
(* persisted, with or without a validation that reads the channel first,   *)
(* and a request is read by interpreting its channel.                      *)
(*                                                                         *)
(* One channel.  `log` is what is confirmed, in order; `pendingItem` is    *)
(* the one pending transaction the data access remembers for a channel,    *)
(* the last one persisted; `mempool` is what was submitted and may still   *)
(* be mined, in any order, or dropped.  The layers below are only as       *)
(* detailed as this needs: DataAccess models them.                         *)
(***************************************************************************)
EXTENDS RequestCore

CONSTANTS Actions,      \* signed actions that clients may submit
          Unparsable,   \* a transaction whose data is no JSON
          MaxLog,       \* bound: confirmed transactions
          MaxMempool,   \* bound: submitted transactions not yet mined
          MaxTime,      \* bound: the clock
          Skews         \* how far a node's clock is ahead of block time

ASSUME ActionsAssumption == Actions \subseteq Action
ASSUME BoundsAssumption ==
    /\ MaxLog \in Nat /\ MaxMempool \in Nat /\ MaxTime \in Nat /\ Skews \subseteq Nat
    /\ None \notin Actions \cup {Unparsable}

VARIABLES log, mempool, pendingItem, writer, now
vars == << log, mempool, pendingItem, writer, now >>

Data == Actions \cup {Unparsable}

Confirmed(action, time) ==
    [action |-> action, state |-> "confirmed", timestamp |-> time]
PendingAsConfirmed(action, time) ==         \* mutant: wrong state
    [action |-> action, state |-> "confirmed", timestamp |-> time]
Pending(action, time) ==
    [action |-> action, state |-> "pending", timestamp |-> time]

IsConfirmed(tx) == tx.state = "confirmed"
IsParsable(tx)  == tx.action # Unparsable

-----------------------------------------------------------------------------
(***************************************************************************)
(* Interpretation of a channel.                                            *)
(***************************************************************************)

(* sort((a, b) => a.timestamp - b.timestamp) is stable: a transaction goes *)
(* after every earlier one that is not younger.                            *)
InsertByTimestamp(sorted, tx) ==
    InsertAt(sorted,
             1 + SelectLastInSeq(sorted, LAMBDA t : t.timestamp <= tx.timestamp),
             tx)

SortByTimestamp(txs) == FoldLeft(InsertByTimestamp, << >>, txs)

(* filter, by the state of a transaction and for those that JSON parses.   *)
InState(state, txs) ==
    FoldLeft(LAMBDA kept, tx : IF tx.state = state THEN Append(kept, tx) ELSE kept,
             << >>, txs)

KeepParsable(kept, tx) == IF IsParsable(tx) THEN Append(kept, tx) ELSE kept

Parsable(txs) == FoldLeft(KeepParsable, << >>, txs)

KeepOldPending(txs) == txs      \* mutant: pendings older than confirmed kept

(* A pending transaction is kept only after the last confirmed one.        *)
RemoveOldPending(txs) ==
    LET last == SelectLastInSeq(txs, IsConfirmed)
    IN  InState("confirmed", SubSeq(txs, 1, last))
            \o SubSeq(txs, last + 1, Len(txs))

KeepDuplicates(txs) == txs      \* mutant: replayed actions kept

LastOfDuplicates(txs) ==        \* mutant: the last occurrence wins
    FoldRight(LAMBDA tx, kept :
                  IF \E i \in DOMAIN kept : kept[i].action = tx.action
                  THEN kept ELSE << tx >> \o kept,
              txs, << >>)

(* uniqueByProperty: the first of identical actions wins.                  *)
KeepNew(kept, tx) ==
    IF \E i \in DOMAIN kept : kept[i].action = tx.action
    THEN kept ELSE Append(kept, tx)

UniqueByAction(txs) == FoldLeft(KeepNew, << >>, txs)

Interpret(request, tx) == ApplyOrIgnore(request, tx.action)

Interpreted(request, txs) == FoldLeft(Interpret, request, txs)

PendingFromScratch(txs) ==      \* mutant: pendings folded from nothing
    [confirmed |-> Interpreted(None, InState("confirmed", txs)),
     pending   |-> Interpreted(None, InState("pending", txs))]

ComputeRequestFromTransactions(txs) ==
    LET confirmed == Interpreted(None, InState("confirmed", txs))
    IN  [confirmed |-> confirmed,
         pending   |-> Interpreted(confirmed, InState("pending", txs))]

(* computeMultipleRequestFromChannels, which does not sort ...             *)
ComputeFromChannel(txs) ==
    ComputeRequestFromTransactions(
        UniqueByAction(Parsable(RemoveOldPending(txs))))

(* ... and computeRequestFromRequestId, which does.                        *)
ComputeFromRequestId(txs) == ComputeFromChannel(SortByTimestamp(txs))

DiffWithAllEvents(confirmed, pending) ==    \* mutant: events not cut
    IF confirmed = None THEN pending
    ELSE IF pending = confirmed THEN None
    ELSE LET changed == {k \in DOMAIN pending : pending[k] # confirmed[k]}
         IN  [k \in changed |-> pending[k]]

(* What getRequestFromId returns as `pending`, next to the confirmed one.  *)
ComputeDiff(confirmed, pending) ==
    IF confirmed = None THEN pending
    ELSE IF pending = confirmed THEN None
    ELSE LET changed == {k \in DOMAIN pending : pending[k] # confirmed[k]}
         IN  [k \in changed |->
                 IF k = "events"
                 THEN SubSeq(pending.events, Len(confirmed.events) + 1,
                             Len(pending.events))
                 ELSE pending[k]]

-----------------------------------------------------------------------------
(***************************************************************************)
(* Reads.  The data access returns the confirmed transactions and, last,   *)
(* the pending one.  It looks the pending item up before it reads the      *)
(* storage, so it may miss an item persisted since, or still show one      *)
(* confirmed since: it sees one of the ItemsSeen.                          *)
(***************************************************************************)
ByChannel(txs, item) == IF item = None THEN txs ELSE Append(txs, item)

ItemsSeen == {None, pendingItem}

RequestState(item) == ComputeFromRequestId(ByChannel(log, item))

Init ==
    /\ log = << >>
    /\ mempool = {}
    /\ pendingItem = None
    /\ writer = None
    /\ now = 0

(* The transaction is submitted and takes the place of the pending item.   *)
Persist(data) ==
    /\ Cardinality(mempool) < MaxMempool
    /\ mempool' = mempool \cup {data}
    /\ \E skew \in Skews : pendingItem' = Pending(data, now + skew)
    /\ UNCHANGED << log, now >>

(* createRequest validates the action against no request at all.           *)
CreateRequest(action) ==
    /\ action.name = "create"
    /\ Accepts(None, action)
    /\ Persist(action)
    /\ UNCHANGED writer

(* The other writers, without validation (the default), and anything else  *)
(* that reaches the channel: replays, creations by other clients, garbage. *)
PersistUnchecked(data) ==
    /\ Persist(data)
    /\ UNCHANGED writer

(* validateAction: the confirmed state is tried, then the pending state if *)
(* there is one; when there is none, nothing throws.                       *)
ValidationPasses(action, state) ==
    \/ Accepts(state.confirmed, action)
    \/ state.pending = None
    \/ Accepts(state.pending, action)

Validate(action) ==
    /\ writer = None
    /\ action.name # "create"
    /\ \E item \in ItemsSeen : ValidationPasses(action, RequestState(item))
    /\ writer' = action
    /\ UNCHANGED << log, mempool, pendingItem, now >>

PersistValidated ==
    /\ writer # None
    /\ Persist(writer)
    /\ writer' = None

Confirm(data) ==
    /\ Len(log) < MaxLog
    /\ log' = Append(log, Confirmed(data, now))
    /\ mempool' = mempool \ {data}
    /\ UNCHANGED << pendingItem, writer, now >>

(* The storage transaction fails: nothing removes the pending item.        *)
Fail(data) ==
    /\ mempool' = mempool \ {data}
    /\ UNCHANGED << log, pendingItem, writer, now >>

(* getPending, in a later read, finds the item in the storage.             *)
RemovePending ==
    /\ pendingItem # None
    /\ \E i \in DOMAIN log : log[i].action = pendingItem.action
    /\ pendingItem' = None
    /\ UNCHANGED << log, mempool, writer, now >>

Tick ==
    /\ now < MaxTime
    /\ now' = now + 1
    /\ UNCHANGED << log, mempool, pendingItem, writer >>

Next ==
    \/ \E action \in Actions : CreateRequest(action)
    \/ \E action \in Actions : Validate(action)
    \/ \E data \in Data : PersistUnchecked(data)
    \/ PersistValidated
    \/ \E data \in mempool : Confirm(data)
    \/ \E data \in mempool : Fail(data)
    \/ RemovePending
    \/ Tick

Spec == Init /\ [][Next]_vars

-----------------------------------------------------------------------------
TypeOK ==
    /\ log \in Seq([action: Data, state: {"confirmed"}, timestamp: 0..MaxTime])
    /\ mempool \subseteq Data
    /\ pendingItem # None =>
           pendingItem \in [action: Data, state: {"pending"}, timestamp: Nat]
    /\ writer \in Actions \cup {None}
    /\ now \in 0..MaxTime

(***************************************************************************)
(* Replays are harmless: however often an identical action is persisted    *)
(* and confirmed, it is applied at most once, in the confirmed and in the  *)
(* pending request (uniqueByProperty, "to avoid replay attack").           *)
(***************************************************************************)
AppliedOnce ==
    \A item \in ItemsSeen :
        LET request == RequestState(item).pending
        IN  request # None => IsInjective(request.events)

(***************************************************************************)
(* The confirmed request depends on confirmed transactions alone: the      *)
(* pending item, even one that is the copy of a confirmed transaction with *)
(* an earlier timestamp, never changes it.                                 *)
(***************************************************************************)
ConfirmedIgnoresPending ==
    RequestState(pendingItem).confirmed = ComputeFromRequestId(log).confirmed

(***************************************************************************)
(* The pending request is a forecast: when the pending item is confirmed   *)
(* next, the confirmed request becomes what the pending one was.  An item  *)
(* older than the last confirmed transaction is ignored by design.         *)
(***************************************************************************)
PendingIsForecast ==
    /\ pendingItem # None
    /\ log # << >> => Last(log).timestamp <= pendingItem.timestamp
    => RequestState(pendingItem).pending =
           ComputeFromRequestId(
               Append(log, Confirmed(pendingItem.action,
                                     pendingItem.timestamp))).confirmed

(***************************************************************************)
(* What getRequestFromId returns loses nothing: it is null when nothing is *)
(* pending, and else the pending request is the confirmed one with the     *)
(* changed fields replaced and the new events added.                       *)
(***************************************************************************)
DiffRestoresPending ==
    \A item \in ItemsSeen :
        LET state == RequestState(item)
            diff  == ComputeDiff(state.confirmed, state.pending)
        IN  state.confirmed # None =>
                IF state.pending = state.confirmed THEN diff = None
                ELSE \A k \in DOMAIN state.confirmed :
                         state.pending[k] =
                             IF k \notin DOMAIN diff THEN state.confirmed[k]
                             ELSE IF k = "events"
                                  THEN state.confirmed.events \o diff.events
                                  ELSE diff[k]

=============================================================================
