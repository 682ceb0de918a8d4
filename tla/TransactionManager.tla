-------------------------- MODULE TransactionManager --------------------------
(***************************************************************************)
(* The transaction manager (packages/transaction-manager): clear and       *)
(* encrypted channels over a list of transactions anybody can extend.      *)
(*                                                                         *)
(* One channel.  Its id is the hash of Opening, the data that creates the  *)
(* request.  A transaction is what is persisted: its form (`data` or       *)
(* `encryptedData`), the data in it, the channel key it is encrypted with, *)
(* the identities it carries that key for, and whether it names the        *)
(* encryption method.  Only who holds a key can decrypt.  Strangers are    *)
(* identities of nobody in the model, or entries that do not decrypt; an   *)
(* entry that decrypts to another key is one whose data is Unparsable.     *)
(***************************************************************************)
EXTENDS SequencesExt, FiniteSets, Integers

CONSTANTS Users, Strangers,
          Providers,        \* users with a decryption provider
          Opening, Updates, \* data of the transactions
          Unparsable,       \* data that is no JSON
          Keys,             \* channel keys that can be generated
          Groups,           \* sets of identities that keys are shared with
          Strays,           \* transactions of others for the same topic
          MaxLog,           \* bound: confirmed transactions
          MaxWriting,       \* bound: transactions made and not submitted
          MaxSubmitted,     \* bound: submitted transactions not yet mined
          None

Transaction ==
    [form: {"clear", "encrypted", "malformed"},
     data: Updates \cup {Opening, Unparsable},
     key: Keys \cup {None},
     keys: SUBSET (Users \cup Strangers),
     method: BOOLEAN]

WellFormed(tx) ==
    /\ tx \in Transaction
    /\ IF tx.form = "encrypted" THEN tx.key # None
       ELSE tx.key = None /\ tx.keys = {} /\ ~tx.method

ASSUME TransactionManagerAssumption ==
    /\ Providers \subseteq Users
    /\ Opening \notin Updates /\ Unparsable \notin Updates \cup {Opening}
    /\ None \notin Keys
    /\ Groups \subseteq SUBSET (Users \cup Strangers)
    /\ \A tx \in Strays : WellFormed(tx)
    /\ MaxLog \in Nat /\ MaxWriting \in Nat /\ MaxSubmitted \in Nat

VARIABLES
    log,            \* the confirmed transactions of the channel
    submitted,      \* transactions on their way
    pendingItem,    \* the pending transaction the data access returns
    writer,         \* per user: the transaction made by persistTransaction
    opening         \* the transaction that creates the request

vars == << log, submitted, pendingItem, writer, opening >>

-----------------------------------------------------------------------------
(***************************************************************************)
(* Parsing.  `known` is what the parser has learnt of the channel so far.  *)
(***************************************************************************)
Unknown == [type |-> "unknown", key |-> None, method |-> FALSE]

KeyForAnyone(tx, known, user) ==    \* mutant: any entry decrypts
    IF known.key # None THEN known.key ELSE tx.key

OwnEntryFirst(tx, known, user) ==   \* mutant: an entry replaces the key
    IF user \in tx.keys \cap Providers THEN tx.key ELSE known.key

(* decryptChannelKey looks for the user's own entry among the keys.        *)
KeyFor(tx, known, user) ==
    IF known.key # None THEN known.key
    ELSE IF user \in tx.keys \cap Providers THEN tx.key
    ELSE None

(* Only the transaction that opens a channel names the method.             *)
LooksEncrypted(tx, known) ==
    /\ tx.form = "encrypted"
    /\ known.type # "clear"
    /\ tx.method # known.method

(* decryptChannelKey throws "Impossible to decrypt the channel key".       *)
KeyImpossible(tx, known, user) ==
    /\ LooksEncrypted(tx, known)
    /\ known.key = None
    /\ tx.keys # {}
    /\ user \in Providers \ tx.keys

(* parsePersistedTransaction succeeds and getError finds nothing.          *)
Readable(tx, known, user) ==
    /\ tx.data # Unparsable
    /\ \/ tx.form = "clear" /\ known.type # "encrypted"
       \/ LooksEncrypted(tx, known) /\ KeyFor(tx, known, user) = tx.key

(* What a readable transaction says about its channel.                     *)
Learnt(tx) ==
    IF tx.form = "clear" THEN [type |-> "clear", key |-> None, method |-> FALSE]
    ELSE [type |-> "encrypted", key |-> tx.key, method |-> TRUE]

ForgetImpossible(known, tx, user) ==    \* mutant: the type is not kept
    IF Readable(tx, known, user) THEN Learnt(tx) ELSE known

LearnFrom(known, tx, user) ==
    IF Readable(tx, known, user) THEN Learnt(tx)
    ELSE IF KeyImpossible(tx, known, user) /\ known.type = "unknown"
         THEN [type |-> "encrypted", key |-> None, method |-> TRUE]
         ELSE known

Learn(user, known, tx) ==
    IF known.type = "clear" \/ known.key # None THEN known
    ELSE LearnFrom(known, tx, user)

GetChannelTypeAndChannelKey(txs, user) ==
    FoldLeft(LAMBDA known, tx : Learn(user, known, tx), Unknown, txs)

OpensUnchecked(tx) == TRUE      \* mutant: the first transaction is not checked

(* The first transaction kept has the channel id as its hash.              *)
Opens(tx) == tx.data = Opening

(***************************************************************************)
(* The data a user gets from a channel.  The key is searched for in the    *)
(* whole channel first; type and method are learnt on the way.             *)
(***************************************************************************)
Clean(user, state, tx) ==
    IF ~Readable(tx, state.known, user) THEN state
    ELSE IF state.known.type # "unknown"
         THEN [state EXCEPT !.valid = Append(@, tx.data)]
    ELSE IF Opens(tx)
         THEN [known |-> [Learnt(tx) EXCEPT !.key = state.known.key],
               valid |-> << tx.data >>]
    ELSE state

DecryptAndCleanChannel(txs, user) ==
    LET key == GetChannelTypeAndChannelKey(txs, user).key
    IN  FoldLeft(LAMBDA state, tx : Clean(user, state, tx),
                 [known |-> [Unknown EXCEPT !.key = key], valid |-> << >>],
                 txs).valid

-----------------------------------------------------------------------------
(***************************************************************************)
(* Writing.  persistTransaction reads the channel as the data access gives *)
(* it, the pending transaction last, makes a transaction of the type of    *)
(* the channel and then submits it; other transactions get there           *)
(* meanwhile.                                                              *)
(***************************************************************************)
Views == {log} \cup (IF pendingItem = None THEN {} ELSE {Append(log, pendingItem)})

ClearTransaction(data) ==
    [form |-> "clear", data |-> data, key |-> None, keys |-> {}, method |-> FALSE]

EncryptedInNewChannel(data, key, readers) ==
    [form |-> "encrypted", data |-> data, key |-> key, keys |-> readers,
     method |-> TRUE]

EncryptedTransaction(data, key, added) ==
    [form |-> "encrypted", data |-> data, key |-> key, keys |-> added,
     method |-> FALSE]

(* A request is created once: its data holds a timestamp and a nonce, so   *)
(* the next creation has a channel of its own.  A generated key is fresh.  *)
MakeOpening(u) ==
    /\ opening = None
    /\ \/ opening' = ClearTransaction(Opening)
       \/ \E key \in Keys, readers \in Groups \ {{}} :
              /\ \A tx \in Strays : tx.key # key
              /\ opening' = EncryptedInNewChannel(Opening, key, readers)
    /\ writer' = [writer EXCEPT ![u] = opening']
    /\ UNCHANGED << log, submitted, pendingItem >>

KeyNotChecked(known) == known.type = "encrypted"    \* mutant: no key, no throw

CanEncrypt(known) == known.type = "encrypted" /\ known.key # None

(* An unknown channel, or one without a key for the user, throws.          *)
MakeUpdate(u, data, added) ==
    /\ writer[u] = None
    /\ Cardinality({v \in Users : writer[v] # None}) < MaxWriting
    /\ \E txs \in Views :
           LET known == GetChannelTypeAndChannelKey(txs, u)
           IN  \/ /\ known.type = "clear"
                  /\ writer' = [writer EXCEPT ![u] = ClearTransaction(data)]
               \/ /\ CanEncrypt(known)
                  /\ writer' = [writer EXCEPT
                                    ![u] = EncryptedTransaction(data, known.key, added)]
    /\ UNCHANGED << log, submitted, pendingItem, opening >>

Submit(u) ==
    /\ writer[u] # None
    /\ Cardinality(submitted) < MaxSubmitted
    /\ submitted' = submitted \cup {writer[u]}
    /\ pendingItem' = writer[u]
    /\ writer' = [writer EXCEPT ![u] = None]
    /\ UNCHANGED << log, opening >>

(* The layers below confirm transactions in any order, or fail.            *)
Confirm(tx) ==
    /\ Len(log) < MaxLog
    /\ log' = Append(log, tx)
    /\ submitted' = submitted \ {tx}
    /\ UNCHANGED << pendingItem, writer, opening >>

Fail(tx) ==
    /\ submitted' = submitted \ {tx}
    /\ UNCHANGED << log, pendingItem, writer, opening >>

RemovePending ==
    /\ pendingItem \in ToSet(log)
    /\ pendingItem' = None
    /\ UNCHANGED << log, submitted, writer, opening >>

(***************************************************************************)
(* Anybody can persist any transaction under the topic of the channel from *)
(* its publication on, encrypted with a key of his and for whomever he     *)
(* likes.  He knows the data of the opening if it was published in clear.  *)
(***************************************************************************)
Stray(tx) ==
    /\ opening # None /\ \A u \in Users : writer[u] # opening
    /\ tx.data = Opening => opening.form = "clear"
    /\ Len(log) < MaxLog
    /\ log' = Append(log, tx)
    /\ UNCHANGED << submitted, pendingItem, writer, opening >>

(* ... or one that is published again, whole or without what is beside the *)
(* data: keys and method.                                                  *)
Copy(tx, keys, method) ==
    /\ Len(log) < MaxLog
    /\ log' = Append(log, [tx EXCEPT !.keys = keys, !.method = method])
    /\ UNCHANGED << submitted, pendingItem, writer, opening >>

Init ==
    /\ log = << >>
    /\ submitted = {}
    /\ pendingItem = None
    /\ writer = [u \in Users |-> None]
    /\ opening = None

Next ==
    \/ \E u \in Users : MakeOpening(u) \/ Submit(u)
    \/ \E u \in Users, data \in Updates, added \in Groups :
           MakeUpdate(u, data, added)
    \/ \E tx \in submitted : Confirm(tx) \/ Fail(tx)
    \/ RemovePending
    \/ \E tx \in Strays : Stray(tx)
    \/ \E tx \in submitted \cup ToSet(log) :
           \E keys \in {tx.keys, {}}, method \in {tx.method, FALSE} :
               Copy(tx, keys, method)

Spec == Init /\ [][Next]_vars

-----------------------------------------------------------------------------
TypeOK ==
    /\ log \in Seq(Transaction) /\ \A i \in DOMAIN log : WellFormed(log[i])
    /\ \A tx \in submitted : WellFormed(tx)
    /\ pendingItem # None => WellFormed(pendingItem)
    /\ writer \in [Users -> Transaction \cup {None}]
    /\ \A u \in Users : writer[u] # None => WellFormed(writer[u])
    /\ opening # None => WellFormed(opening) /\ opening.data = Opening

(***************************************************************************)
(* The channel as its opening defines it, without any parser: the opening  *)
(* and, after it, the transactions of its type and key.                    *)
(***************************************************************************)
Belongs(tx, op) ==
    /\ tx.key = op.key /\ ~tx.method
    /\ tx.form # "malformed" /\ tx.data # Unparsable

Extended(op, channel, tx) ==
    IF IF channel = << >> THEN tx = op ELSE Belongs(tx, op)
    THEN Append(channel, tx) ELSE channel

ChannelOf(op, txs) ==
    FoldLeft(LAMBDA channel, tx : Extended(op, channel, tx), << >>, txs)

ChannelTransactions == ChannelOf(opening, log)

ContentsOf(channel) == [i \in DOMAIN channel |-> channel[i].data]

IsOpen   == ChannelTransactions # << >>
Contents == ContentsOf(ChannelTransactions)

(* Everybody is a party of a clear channel.                                *)
PartiesOf(channel) ==
    IF channel = << >> THEN {}
    ELSE IF channel[1].form = "clear" THEN Users
    ELSE Providers \cap UNION {tx.keys : tx \in ToSet(channel)}

Parties == PartiesOf(ChannelTransactions)

(***************************************************************************)
(* What the code does not refuse.  getChannelTypeAndChannelKey checks no   *)
(* hash: ahead of the opening, a transaction of another type or key that   *)
(* can be read, or names the method, is taken for the opening, and a user  *)
(* who waits for the key takes the first one that is encrypted for him.    *)
(***************************************************************************)
Misleads(tx, user, op, channel) ==
    /\ tx # op /\ ~Belongs(tx, op)
    /\ IF channel = << >>
       THEN \/ tx.form = "clear" /\ tx.data # Unparsable
            \/ tx.method /\ user \in Providers
       ELSE ~tx.method /\ user \in tx.keys

(* No transaction misled the user before he was a party.                   *)
Undisturbed(user, op, txs) ==
    \A i \in DOMAIN txs :
        LET before == ChannelOf(op, SubSeq(txs, 1, i - 1))
        IN  user \in PartiesOf(before) \/ ~Misleads(txs[i], user, op, before)

(***************************************************************************)
(* What persistTransaction learns of an open channel is its type and key:  *)
(* "each party can encrypt data with the same channel key" (encryption.md),*)
(* of a party whom no transaction of others misled before he became one;   *)
(* those that follow, whatever they are, change nothing.                   *)
(***************************************************************************)
CanWrite(user) ==
    GetChannelTypeAndChannelKey(log, user) = Learnt(opening)

PartiesCanWrite ==
    IsOpen => \A u \in Parties : Undisturbed(u, opening, log) => CanWrite(u)

(***************************************************************************)
(* Every such party, from the first or added later, reads the same: the    *)
(* whole contents of the channel and nothing else, among reordered,        *)
(* repeated, cut, failed and unparsable transactions and those of others.  *)
(* Such a user who is no party reads nothing.                              *)
(***************************************************************************)
PartiesRead ==
    \A u \in Users : Undisturbed(u, opening, log) =>
        DecryptAndCleanChannel(log, u) = (IF u \in Parties THEN Contents ELSE << >>)

(***************************************************************************)
(* Whatever the log holds, misleading or not: a user for whom no           *)
(* transaction carries the key of an encrypted channel neither learns it   *)
(* nor reads anything of the channel.                                      *)
(***************************************************************************)
KeyHolders ==
    Providers \cap UNION {tx.keys : tx \in {t \in ToSet(log) : t.key = opening.key}}

OnlyNamedRead ==
    opening # None /\ opening.form = "encrypted" =>
        \A u \in Users \ KeyHolders :
            /\ GetChannelTypeAndChannelKey(log, u).key # opening.key
            /\ DecryptAndCleanChannel(log, u) = << >>

=============================================================================
