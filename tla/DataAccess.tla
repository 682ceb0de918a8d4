------------------------------ MODULE DataAccess ------------------------------
(***************************************************************************)
(* The data access of a node: DataAccessWrite, DataAccessRead and          *)
(* PendingStore (packages/data-access), TheGraphDataAccess on top of them  *)
(* (packages/thegraph-data-access) and EthereumStorage below (packages/    *)
(* ethereum-storage).                                                      *)
(*                                                                         *)
(* A call of persistTransaction is an element of Calls; it stands for its  *)
(* transaction and storage location too.  The order of transactions is     *)
(* RequestLogic's concern: here a read returns sets.  A read is            *)
(* asynchronous: other calls and reads run while it waits for the          *)
(* subgraph.  Reads are those of clients (Readers) and the one each        *)
(* confirmation makes itself (the call is then the reader).                *)
(***************************************************************************)
EXTENDS Integers

CONSTANTS Calls, Readers,
          Channel,      \* Calls -> the channel of the transaction
          WithTopic,    \* the calls whose transaction carries the topic
          MaxRetries,   \* maxRetries of fetchConfirmedTransaction (30)
          None

Channels == {Channel[c] : c \in Calls}

ASSUME CallsAssumption ==
    /\ WithTopic \subseteq Calls
    /\ Calls \cap Readers = {}
    /\ MaxRetries \in Nat
    /\ None \notin Calls \cup Channels

VARIABLES
    call,           \* progress of each persistTransaction
    chain,          \* its storage transaction
    indexed,        \* the transactions of the subgraph
    pendingStore,   \* the Map of PendingStore: one item per channel
    reads,          \* the read in progress of each reader
    retries         \* of fetchConfirmedTransaction

vars == << call, chain, indexed, pendingStore, reads, retries >>

Indexed(c) == c \in indexed

NewRead(pc, ch, item, known) ==
    [pc |-> pc, channel |-> ch, item |-> item, known |-> known,
     confirmed |-> {}, pending |-> {}]

NoRead == NewRead("idle", None, None, {})

Init ==
    /\ call = [c \in Calls |-> "new"]
    /\ chain = [c \in Calls |-> "none"]
    /\ indexed = {}
    /\ pendingStore = [ch \in Channels |-> None]
    /\ reads = [r \in Readers \cup Calls |-> NoRead]
    /\ retries = [c \in Calls |-> 0]

-----------------------------------------------------------------------------
(***************************************************************************)
(* Writing.  append adds the block to IPFS and submits its hash; when it   *)
(* returns, the item is registered and the listeners are attached without  *)
(* waiting.  A transaction may already be mined by then.                   *)
(***************************************************************************)
StorageAppend(c) ==
    /\ call[c] = "new"
    /\ call' = [call EXCEPT ![c] = "appending"]
    /\ chain' = [chain EXCEPT ![c] = "submitted"]
    /\ UNCHANGED << indexed, pendingStore, reads, retries >>

(* ipfsAdd or the submission throws: persistTransaction rejects.           *)
StorageAppendFails(c) ==
    /\ call[c] = "new"
    /\ call' = [call EXCEPT ![c] = "rejected"]
    /\ UNCHANGED << chain, indexed, pendingStore, reads, retries >>

PersistTransaction(c) ==
    /\ call[c] = "appending"
    /\ call' = [call EXCEPT ![c] = "persisted"]
    /\ pendingStore' = [pendingStore EXCEPT ![Channel[c]] = c]
    /\ UNCHANGED << chain, indexed, reads, retries >>

(* The chain and the subgraph.                                             *)
Mine(c) ==
    /\ chain[c] = "submitted"
    /\ chain' = [chain EXCEPT ![c] = "mined"]
    /\ UNCHANGED << call, indexed, pendingStore, reads, retries >>

Drop(c) ==
    /\ chain[c] = "submitted"
    /\ chain' = [chain EXCEPT ![c] = "failed"]
    /\ UNCHANGED << call, indexed, pendingStore, reads, retries >>

Index(c) ==
    /\ chain[c] = "mined"
    /\ ~Indexed(c)
    /\ indexed' = indexed \cup {c}
    /\ UNCHANGED << call, chain, pendingStore, reads, retries >>

-----------------------------------------------------------------------------
(***************************************************************************)
(* Reading a channel: the pending item is taken from the store, looked up  *)
(* in the subgraph and, if it is there, removed from the store; then the   *)
(* subgraph is read.  `known` is what a client had reason to expect when   *)
(* the read began: it is not in the code.                                  *)
(***************************************************************************)
KnownIn(ch) ==
    {c \in Calls : Channel[c] = ch /\ (Indexed(c) \/ pendingStore[ch] = c)}

Started(ch) ==
    NewRead(IF pendingStore[ch] = None THEN "query" ELSE "lookup",
            ch, pendingStore[ch], KnownIn(ch))

GetTransactionsByChannelId(r, ch) ==
    /\ reads[r].pc \in {"idle", "done"}
    /\ reads' = [reads EXCEPT ![r] = Started(ch)]
    /\ UNCHANGED << call, chain, indexed, pendingStore, retries >>

GetPending(r) ==
    LET read == reads[r]
    IN  /\ read.pc = "lookup"
        /\ IF Indexed(read.item)
           THEN /\ pendingStore' = [pendingStore EXCEPT ![read.channel] = None]
                /\ reads' = [reads EXCEPT ![r].pc = "query", ![r].item = None]
           ELSE /\ reads' = [reads EXCEPT ![r].pc = "query"]
                /\ UNCHANGED pendingStore
        /\ UNCHANGED << call, chain, indexed, retries >>

AnsweredFromStore(read) ==          \* mutant: the store is read last
    [read EXCEPT !.pc = "done",
                 !.confirmed = {c \in indexed : Channel[c] = read.channel},
                 !.pending = {pendingStore[read.channel]} \ {None}]

Answered(read) ==
    [read EXCEPT !.pc = "done",
                 !.confirmed = {c \in indexed : Channel[c] = read.channel},
                 !.pending = {read.item} \ {None}]

QueryStorage(r) ==
    /\ reads[r].pc = "query"
    /\ reads' = [reads EXCEPT ![r] = Answered(reads[r])]
    /\ UNCHANGED << call, chain, indexed, pendingStore, retries >>

(***************************************************************************)
(* Reading by topic: the subgraph first, then the pending store, whose     *)
(* items count as confirmed.                                               *)
(***************************************************************************)
TopicChannels == {Channel[c] : c \in WithTopic \cap indexed}

IndexedByTopic == {c \in indexed : Channel[c] \in TopicChannels}

PendingByTopic ==
    {c \in WithTopic : pendingStore[Channel[c]] = c}

GetChannelsByTopic(r) ==
    /\ reads[r].pc \in {"idle", "done"}
    /\ reads' = [reads EXCEPT ![r] =
           NewRead("topic", None, None, PendingByTopic \cup IndexedByTopic)]
    /\ UNCHANGED << call, chain, indexed, pendingStore, retries >>

QueryTopic(r) ==
    /\ reads[r].pc = "topic"
    /\ reads' = [reads EXCEPT
           ![r].pc = "topicPending",
           ![r].confirmed = IndexedByTopic]
    /\ UNCHANGED << call, chain, indexed, pendingStore, retries >>

FindByTopics(r) ==
    /\ reads[r].pc = "topicPending"
    /\ reads' = [reads EXCEPT
           ![r].pc = "done",
           ![r].confirmed = @ \cup PendingByTopic]
    /\ UNCHANGED << call, chain, indexed, pendingStore, retries >>

-----------------------------------------------------------------------------
(***************************************************************************)
(* TheGraphDataAccess.  On 'confirmed' of the storage, the channel is read *)
(* until none of its pending transactions has a hash that is part of the   *)
(* receipt.  No layer sets that hash, so the first answer will do; only a  *)
(* read that throws is retried, and after maxRetries it is an error.       *)
(***************************************************************************)
FetchConfirmedTransaction(c) ==
    /\ call[c] = "persisted"
    /\ chain[c] = "mined"
    /\ call' = [call EXCEPT ![c] = "confirming"]
    /\ reads' = [reads EXCEPT ![c] = Started(Channel[c])]
    /\ UNCHANGED << chain, indexed, pendingStore, retries >>

StorageFails(c) ==
    /\ call[c] = "persisted"
    /\ chain[c] = "failed"
    /\ call' = [call EXCEPT ![c] = "error"]
    /\ UNCHANGED << chain, indexed, pendingStore, reads, retries >>

EmitConfirmed(c) ==
    /\ call[c] = "confirming"
    /\ reads[c].pc = "done"
    /\ call' = [call EXCEPT ![c] = "confirmed"]
    /\ reads' = [reads EXCEPT ![c] = NoRead]
    /\ UNCHANGED << chain, indexed, pendingStore, retries >>

GiveUpSilently(c) ==      \* mutant: the error of the last attempt is swallowed
    /\ retries[c] = MaxRetries
    /\ UNCHANGED call

GiveUp(c) ==
    /\ retries[c] = MaxRetries
    /\ call' = [call EXCEPT ![c] = "error"]

ReadFails(c) ==
    /\ call[c] = "confirming"
    /\ reads[c].pc \in {"lookup", "query"}
    /\ \/ /\ retries[c] < MaxRetries
          /\ retries' = [retries EXCEPT ![c] = @ + 1]
          /\ reads' = [reads EXCEPT ![c] = Started(Channel[c])]
          /\ UNCHANGED call
       \/ /\ GiveUp(c)
          /\ reads' = [reads EXCEPT ![c] = NoRead]
          /\ UNCHANGED retries
    /\ UNCHANGED << chain, indexed, pendingStore >>

-----------------------------------------------------------------------------
Next ==
    \/ \E c \in Calls :
           \/ StorageAppend(c) \/ StorageAppendFails(c) \/ PersistTransaction(c)
           \/ Mine(c) \/ Drop(c) \/ Index(c)
           \/ FetchConfirmedTransaction(c) \/ StorageFails(c)
           \/ EmitConfirmed(c) \/ ReadFails(c)
    \/ \E r \in Readers :
           \/ \E ch \in Channels : GetTransactionsByChannelId(r, ch)
           \/ GetChannelsByTopic(r) \/ QueryTopic(r) \/ FindByTopics(r)
    \/ \E r \in Readers \cup Calls : GetPending(r) \/ QueryStorage(r)

(***************************************************************************)
(* Fairness.  What the node has begun goes on (its promises resolve or     *)
(* reject), and a submitted transaction is mined or fails in the end.      *)
(* Nobody has to call persistTransaction or to read, and the subgraph need *)
(* not index anything.                                                     *)
(***************************************************************************)
Fairness ==
    \A c \in Calls :
        /\ WF_vars(PersistTransaction(c))
        /\ WF_vars(Mine(c) \/ Drop(c))
        /\ WF_vars(FetchConfirmedTransaction(c) \/ StorageFails(c))
        /\ WF_vars(GetPending(c) \/ QueryStorage(c))
        /\ WF_vars(EmitConfirmed(c))

Spec == Init /\ [][Next]_vars
FairSpec == Spec /\ Fairness

-----------------------------------------------------------------------------
Read ==
    [pc: {"idle", "lookup", "query", "topic", "topicPending", "done"},
     channel: Channels \cup {None},
     item: Calls \cup {None},
     known: SUBSET Calls,
     confirmed: SUBSET Calls,
     pending: SUBSET Calls]

TypeOK ==
    /\ call \in [Calls -> {"new", "appending", "rejected", "persisted",
                           "confirming", "confirmed", "error"}]
    /\ chain \in [Calls -> {"none", "submitted", "mined", "failed"}]
    /\ indexed \subseteq Calls
    /\ pendingStore \in [Channels -> Calls \cup {None}]
    /\ reads \in [Readers \cup Calls -> Read]
    /\ \A r \in Readers \cup Calls :
           reads[r].pc = "lookup" => reads[r].item # None
    /\ retries \in [Calls -> 0..MaxRetries]

Returned(read) == read.confirmed \cup read.pending

(***************************************************************************)
(* A read of a channel returns every transaction that was indexed or in    *)
(* the pending store when it began, as confirmed or as pending, whatever   *)
(* is indexed, persisted or removed by others meanwhile.  It holds because *)
(* the pending item is taken before the storage is read (data-read.ts).    *)
(***************************************************************************)
KnownIsReturned ==
    \A r \in Readers \cup Calls :
        reads[r].pc = "done" /\ reads[r].channel # None =>
            reads[r].known \subseteq Returned(reads[r])

(***************************************************************************)
(* Every persisted transaction is settled: the emitter fires 'confirmed'   *)
(* or 'error' in the end.                                                  *)
(***************************************************************************)
Settled ==
    \A c \in Calls : call[c] = "persisted" ~> call[c] \in {"confirmed", "error"}

-----------------------------------------------------------------------------
(* What comments and documents of the repository say and the code does not *)
(* do.                                                                     *)

(***************************************************************************)
(* "confirmation is emitted only once the transaction is indexed"          *)
(* (thegraph-data-access/src/data-access.ts).                              *)
(***************************************************************************)
ConfirmedOnceIndexed == \A c \in Calls : call[c] = "confirmed" => Indexed(c)

(***************************************************************************)
(* "if the pending tx is found, remove its state and fetch the real data"  *)
(* (data-read.ts): what a read removes from the store has been indexed.    *)
(* The item may have been replaced while the read waited.                  *)
(***************************************************************************)
OnlyIndexedRemoved ==
    [][ \A ch \in Channels :
            pendingStore[ch] # None /\ pendingStore'[ch] = None
                => Indexed(pendingStore[ch])
      ]_vars

=============================================================================
