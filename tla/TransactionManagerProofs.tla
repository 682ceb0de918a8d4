----------------------- MODULE TransactionManagerProofs -----------------------
(***************************************************************************)
(* Theorems about TransactionManager and its refinement of Channel, for    *)
(* any users, groups, keys and transactions of others and a log of any     *)
(* length.                                                                 *)
(*                                                                         *)
(* The inductive invariant says what the opening is and that nothing but   *)
(* its copies carries its data.  The rest is about the loops over the log: *)
(* what a user has learnt, and kept, after each transaction is compared    *)
(* with the channel as its opening defines it, by induction over the log.  *)
(***************************************************************************)
EXTENDS ChannelHistory, SequenceTheorems, TLAPS

(* The transactions that open a channel.                                   *)
Openings ==
    {ClearTransaction(Opening)} \cup
    {EncryptedInNewChannel(Opening, key, readers) :
        key \in Keys, readers \in Groups \ {{}}}

(* Only copies of an encrypted opening carry its data.                     *)
KindOf(op, tx) ==
    op.form = "encrypted" /\ tx.data = Opening =>
        tx.key = op.key /\ tx.keys \subseteq op.keys

KindsOf(op, txs) == \A n \in 1 .. Len(txs) : WellFormed(txs[n]) /\ KindOf(op, txs[n])

AllOfKind(op) ==
    /\ \A n \in 1 .. Len(log) : KindOf(op, log[n])
    /\ \A tx \in submitted : KindOf(op, tx)
    /\ pendingItem # None => KindOf(op, pendingItem)
    /\ \A u \in Users : writer[u] # None => KindOf(op, writer[u])

NothingMade ==
    /\ log = << >> /\ submitted = {} /\ pendingItem = None
    /\ \A u \in Users : writer[u] = None

IInv ==
    /\ TypeOK
    /\ IF opening = None THEN NothingMade
       ELSE opening \in Openings /\ AllOfKind(opening)
-----------------------------------------------------------------------------
(* The loops of the model as folds with a named step.                      *)
LearnStep(user, unused, known, tx) == Learn(user, known, tx)
Learning == INSTANCE SequenceFolds WITH Op <- LearnStep

CleanStep(user, unused, state, tx) == Clean(user, state, tx)
Cleaning == INSTANCE SequenceFolds WITH Op <- CleanStep

ExtendStep(op, unused, channel, tx) == Extended(op, channel, tx)
Extending == INSTANCE SequenceFolds WITH Op <- ExtendStep

LEMMA LearningFold ==
    ASSUME NEW txs, NEW user
    PROVE  GetChannelTypeAndChannelKey(txs, user)
               = Learning!Fold(user, 0, Unknown, txs)
  BY DEF GetChannelTypeAndChannelKey, LearnStep, Learning!Fold, FoldLeft,
         Learning!FoldLeft, MapThenFoldSet, Learning!MapThenFoldSet, Max, Learning!Max

Start(key) == [known |-> [Unknown EXCEPT !.key = key], valid |-> << >>]

LEMMA CleaningFold ==
    ASSUME NEW txs, NEW user
    PROVE  DecryptAndCleanChannel(txs, user)
               = Cleaning!Fold(user, 0,
                     Start(GetChannelTypeAndChannelKey(txs, user).key), txs).valid
<1> DEFINE key == GetChannelTypeAndChannelKey(txs, user).key
<1>1. DecryptAndCleanChannel(txs, user)
          = FoldLeft(LAMBDA state, tx : Clean(user, state, tx), Start(key), txs).valid
  BY DEF DecryptAndCleanChannel, Start
<1> HIDE DEF key
<1> QED
  BY <1>1 DEF CleanStep, Cleaning!Fold, FoldLeft, Cleaning!FoldLeft, MapThenFoldSet,
              Cleaning!MapThenFoldSet, Max, Cleaning!Max, key

LEMMA ExtendingFold ==
    ASSUME NEW op, NEW txs
    PROVE  ChannelOf(op, txs) = Extending!Fold(op, 0, << >>, txs)
  BY DEF ChannelOf, ExtendStep, Extending!Fold, FoldLeft, Extending!FoldLeft,
         MapThenFoldSet, Extending!MapThenFoldSet, Max, Extending!Max

-----------------------------------------------------------------------------
(***************************************************************************)
(* What there is to know of a channel: nothing, that it is clear, or that  *)
(* it is encrypted and perhaps its key.                                    *)
(***************************************************************************)
KnownClear == [type |-> "clear", key |-> None, method |-> FALSE]
KnownEncrypted(key) == [type |-> "encrypted", key |-> key, method |-> TRUE]

LegibleClear(tx) == tx.form = "clear" /\ tx.data # Unparsable
HasEntry(tx, user) == tx.form = "encrypted" /\ user \in tx.keys \cap Providers

(* What one transaction teaches: that the channel is clear if it is        *)
(* legible, the key of an entry for the user, or that there is no entry.   *)
LEMMA LearnOnce ==
    ASSUME NEW tx, WellFormed(tx), NEW user, NEW K,
           HasEntry(tx, user) => tx.key \in K,
           NEW C, LegibleClear(tx) => KnownClear \in C,
           NEW known \in {Unknown} \cup C \cup {KnownEncrypted(k) : k \in K \cup {None}},
           C \subseteq {KnownClear}
    PROVE  Learn(user, known, tx)
               \in {Unknown} \cup C \cup {KnownEncrypted(k) : k \in K \cup {None}}
<1> DEFINE T == {Unknown} \cup C \cup {KnownEncrypted(k) : k \in K \cup {None}}
<1>1. tx.form \in {"clear", "encrypted", "malformed"}
      /\ (tx.form = "encrypted" => tx.key # None)
  BY DEF WellFormed, Transaction
<1>2. CASE known.type = "clear" \/ known.key # None
  BY <1>2 DEF Learn
<1>3. CASE ~(known.type = "clear" \/ known.key # None)
  <2>1. Learn(user, known, tx) = LearnFrom(known, tx, user)
    BY <1>3 DEF Learn
  <2>2. CASE ~Readable(tx, known, user)
    BY <2>1, <2>2 DEF LearnFrom, KnownEncrypted
  <2>3. CASE Readable(tx, known, user)
    <3>1. Learn(user, known, tx) = Learnt(tx)
      BY <2>1, <2>3 DEF LearnFrom
    <3>2. CASE tx.form = "clear"
      BY <2>3, <3>1, <3>2 DEF Learnt, KnownClear, LegibleClear, Readable
    <3>3. CASE tx.form # "clear"
      <4>1. LooksEncrypted(tx, known) /\ KeyFor(tx, known, user) = tx.key
        BY <2>3, <3>3 DEF Readable
      <4>2. tx.form = "encrypted" /\ user \in tx.keys \cap Providers
        BY <1>1, <1>3, <4>1 DEF LooksEncrypted, KeyFor
      <4>3. tx.key \in K
        BY <4>2 DEF HasEntry
      <4> QED
        BY <3>1, <3>3, <4>3 DEF Learnt, KnownEncrypted
    <3> QED
      BY <3>2, <3>3
  <2> QED
    BY <2>2, <2>3
<1> QED
  BY <1>2, <1>3

(* What a whole list teaches.                                              *)
LEMMA LearntFromList ==
    ASSUME NEW txs \in Seq(Transaction), \A i \in 1 .. Len(txs) : WellFormed(txs[i]),
           NEW user, NEW K,
           \A i \in 1 .. Len(txs) : HasEntry(txs[i], user) => txs[i].key \in K,
           NEW C, C \subseteq {KnownClear},
           \A i \in 1 .. Len(txs) : LegibleClear(txs[i]) => KnownClear \in C
    PROVE  GetChannelTypeAndChannelKey(txs, user)
               \in {Unknown} \cup C \cup {KnownEncrypted(k) : k \in K \cup {None}}
<1> DEFINE T == {Unknown} \cup C \cup {KnownEncrypted(k) : k \in K \cup {None}}
<1>1. Unknown \in T
  OBVIOUS
<1>2. ASSUME NEW known \in T, NEW i \in 1 .. Len(txs)
      PROVE  LearnStep(user, 0, known, txs[i]) \in T
  <2>1. Learn(user, known, txs[i]) \in T
    BY <1>2, LearnOnce
  <2> QED
    BY <2>1 DEF LearnStep
<1> HIDE DEF T
<1>3. Learning!Fold(user, 0, Unknown, txs) \in T
  BY <1>1, <1>2, Learning!FoldInvariant
<1> QED
  BY <1>3, LearningFold DEF T

(* A key that is learnt is one that was given to the user.                 *)
LEMMA KeyNeedsEntry ==
    ASSUME NEW txs \in Seq(Transaction), \A i \in 1 .. Len(txs) : WellFormed(txs[i]),
           NEW user, GetChannelTypeAndChannelKey(txs, user).key # None
    PROVE  \E i \in 1 .. Len(txs) :
               /\ HasEntry(txs[i], user)
               /\ txs[i].key = GetChannelTypeAndChannelKey(txs, user).key
<1> DEFINE known == GetChannelTypeAndChannelKey(txs, user)
           K == {txs[i].key : i \in {j \in 1 .. Len(txs) : HasEntry(txs[j], user)}}
           C == {KnownClear}
<1>1. /\ \A i \in 1 .. Len(txs) : HasEntry(txs[i], user) => txs[i].key \in K
      /\ C \subseteq {KnownClear}
      /\ \A i \in 1 .. Len(txs) : LegibleClear(txs[i]) => KnownClear \in C
  OBVIOUS
<1> HIDE DEF known, K, C
<1>2. known \in {Unknown} \cup C \cup {KnownEncrypted(k) : k \in K \cup {None}}
  BY <1>1, LearntFromList DEF known
<1>3. known.key \in K \cup {None}
  BY <1>2 DEF Unknown, C, KnownClear, KnownEncrypted
<1> QED
  BY <1>3 DEF known, K

-----------------------------------------------------------------------------
(***************************************************************************)
(* The inductive invariant.                                                *)
(***************************************************************************)
LEMMA OpeningShape ==
    ASSUME NEW op \in Openings
    PROVE  /\ WellFormed(op) /\ op.data = Opening
           /\ \/ op.form = "clear" /\ op = ClearTransaction(Opening)
              \/ op.form = "encrypted" /\ op.key \in Keys /\ op.method /\ op.keys # {}
<1>1. CASE op = ClearTransaction(Opening)
  <2>1. WellFormed(ClearTransaction(Opening))
    BY DEF ClearTransaction, WellFormed, Transaction
  <2>2. ClearTransaction(Opening).data = Opening /\ ClearTransaction(Opening).form = "clear"
    BY DEF ClearTransaction
  <2> QED
    BY <1>1, <2>1, <2>2
<1>2. ASSUME NEW key \in Keys, NEW readers \in Groups \ {{}},
             op = EncryptedInNewChannel(Opening, key, readers)
      PROVE  /\ WellFormed(op) /\ op.data = Opening
             /\ op.form = "encrypted" /\ op.key \in Keys /\ op.method /\ op.keys # {}
  BY <1>2, TransactionManagerAssumption
     DEF EncryptedInNewChannel, WellFormed, Transaction
<1> QED
  BY <1>1, <1>2 DEF Openings

(* What a user makes is well formed: the key he learnt is one.             *)
LEMMA MadeUpdate ==
    ASSUME TypeOK, NEW txs \in Views, NEW u \in Users, NEW data \in Updates,
           NEW added \in Groups
    PROVE  LET known == GetChannelTypeAndChannelKey(txs, u)
           IN  /\ WellFormed(ClearTransaction(data))
               /\ CanEncrypt(known) =>
                      WellFormed(EncryptedTransaction(data, known.key, added))
<1>1. WellFormed(ClearTransaction(data))
  BY DEF ClearTransaction, WellFormed, Transaction
<1>2. log \in Seq(Transaction) /\ \A i \in 1 .. Len(log) : WellFormed(log[i])
  BY DEF TypeOK
<1>3. txs \in Seq(Transaction) /\ \A i \in 1 .. Len(txs) : WellFormed(txs[i])
  <2>1. CASE txs = log
    BY <1>2, <2>1
  <2>2. CASE pendingItem # None /\ txs = Append(log, pendingItem)
    <3>1. WellFormed(pendingItem) /\ pendingItem \in Transaction
      BY <2>2 DEF TypeOK, WellFormed
    <3>2. /\ txs \in Seq(Transaction) /\ Len(txs) = Len(log) + 1 /\ Len(log) \in Nat
          /\ txs[Len(log) + 1] = pendingItem
          /\ \A i \in 1 .. Len(log) : txs[i] = log[i]
      BY <1>2, <2>2, <3>1
    <3>3. \A i \in 1 .. Len(txs) : i \in 1 .. Len(log) \/ i = Len(log) + 1
      BY <3>2
    <3> QED
      BY <1>2, <3>1, <3>2, <3>3
  <2> QED
    BY <2>1, <2>2 DEF Views
<1>4. ASSUME NEW key, key = GetChannelTypeAndChannelKey(txs, u).key, key # None
      PROVE  key \in Keys
  <2>1. PICK i \in 1 .. Len(txs) : HasEntry(txs[i], u) /\ txs[i].key = key
    BY <1>3, <1>4, KeyNeedsEntry
  <2> QED
    BY <1>3, <1>4, <2>1 DEF WellFormed, Transaction
<1>5. ASSUME NEW key \in Keys
      PROVE  WellFormed(EncryptedTransaction(data, key, added))
  BY TransactionManagerAssumption DEF EncryptedTransaction, WellFormed, Transaction
<1> QED
  BY <1>1, <1>4, <1>5 DEF CanEncrypt

LEMMA InitIInv == Init => IInv
<1> SUFFICES ASSUME Init PROVE IInv
  OBVIOUS
<1>1. log = << >> /\ log \in Seq(Transaction) /\ DOMAIN log = {}
  BY DEF Init
<1>2. TypeOK
  BY <1>1 DEF Init, TypeOK
<1> QED
  BY <1>1, <1>2 DEF Init, IInv, NothingMade

(* The creation of a request makes the opening that all the rest is about. *)
LEMMA MakeOpeningIInv ==
    ASSUME IInv, NEW u \in Users, MakeOpening(u)
    PROVE  IInv'
<1>1. opening' \in Openings
  BY DEF MakeOpening, Openings
<1>2. WellFormed(opening') /\ opening' \in Transaction /\ opening'.data = Opening
  BY <1>1, OpeningShape DEF WellFormed
<1>3. NothingMade /\ TypeOK
  BY DEF IInv, MakeOpening
<1>4. UNCHANGED << log, submitted, pendingItem >>
      /\ writer' = [writer EXCEPT ![u] = opening']
  BY DEF MakeOpening
<1>5. \A w \in Users : writer'[w] # None => writer'[w] = opening'
  BY <1>3, <1>4 DEF NothingMade, TypeOK
<1>6. TypeOK'
  BY <1>2, <1>3, <1>4, <1>5 DEF TypeOK
<1>7. CASE opening' = None
  BY <1>3, <1>4, <1>5, <1>6, <1>7 DEF NothingMade, IInv
<1>8. CASE opening' # None
  <2>1. KindOf(opening', opening')
    BY DEF KindOf
  <2>2. 1 .. Len(log') = {}
    BY <1>3, <1>4 DEF NothingMade
  <2>3. AllOfKind(opening)'
    BY <1>3, <1>4, <1>5, <2>1, <2>2 DEF AllOfKind, NothingMade
  <2> QED
    BY <1>1, <1>6, <1>8, <2>3 DEF IInv
<1> QED
  BY <1>7, <1>8

(* Before the creation nobody can make an update.                          *)
LEMMA NoUpdateBefore ==
    ASSUME NothingMade, NEW u \in Users, NEW data \in Updates,
           NEW added \in Groups, MakeUpdate(u, data, added)
    PROVE  FALSE
<1>1. PICK txs \in Views :
          \/ GetChannelTypeAndChannelKey(txs, u).type = "clear"
          \/ CanEncrypt(GetChannelTypeAndChannelKey(txs, u))
  BY DEF MakeUpdate
<1>2. txs = << >>
  BY <1>1 DEF Views, NothingMade
<1>3. Learning!Fold(u, 0, Unknown, << >>) = Unknown
  BY Learning!FoldEmpty
<1>4. GetChannelTypeAndChannelKey(txs, u) = Unknown
  BY <1>2, <1>3, LearningFold
<1> QED
  BY <1>1, <1>4 DEF Unknown, CanEncrypt

LEMMA MakeUpdateIInv ==
    ASSUME IInv, NEW u \in Users, NEW data \in Updates, NEW added \in Groups,
           MakeUpdate(u, data, added)
    PROVE  IInv'
<1>1. TypeOK /\ opening # None /\ opening \in Openings /\ AllOfKind(opening)
  BY NoUpdateBefore DEF IInv
<1>2. PICK tx : /\ WellFormed(tx) /\ tx.data = data
                /\ writer' = [writer EXCEPT ![u] = tx]
  <2>1. PICK txs \in Views :
            LET known == GetChannelTypeAndChannelKey(txs, u)
            IN  \/ /\ known.type = "clear"
                   /\ writer' = [writer EXCEPT ![u] = ClearTransaction(data)]
                \/ /\ CanEncrypt(known)
                   /\ writer' = [writer EXCEPT
                                     ![u] = EncryptedTransaction(data, known.key, added)]
    BY DEF MakeUpdate
  <2> DEFINE known == GetChannelTypeAndChannelKey(txs, u)
  <2>2. /\ WellFormed(ClearTransaction(data))
        /\ CanEncrypt(known) => WellFormed(EncryptedTransaction(data, known.key, added))
    BY <1>1, MadeUpdate
  <2>3. /\ ClearTransaction(data).data = data
        /\ EncryptedTransaction(data, known.key, added).data = data
    BY DEF ClearTransaction, EncryptedTransaction
  <2> HIDE DEF known
  <2>4. CASE writer' = [writer EXCEPT ![u] = ClearTransaction(data)]
    BY <2>2, <2>3, <2>4
  <2>5. CASE CanEncrypt(known)
             /\ writer' = [writer EXCEPT
                               ![u] = EncryptedTransaction(data, known.key, added)]
    BY <2>2, <2>3, <2>5
  <2> QED
    BY <2>1, <2>4, <2>5 DEF known
<1>3. UNCHANGED << log, submitted, pendingItem, opening >>
  BY DEF MakeUpdate
<1>4. tx \in Transaction /\ KindOf(opening, tx)
  BY <1>2, TransactionManagerAssumption DEF WellFormed, KindOf
<1>5. AllOfKind(opening)'
  BY <1>1, <1>2, <1>3, <1>4 DEF AllOfKind, TypeOK
<1>6. TypeOK'
  BY <1>1, <1>2, <1>3, <1>4 DEF TypeOK
<1> QED
  BY <1>1, <1>3, <1>5, <1>6 DEF IInv

LEMMA SubmitIInv ==
    ASSUME IInv, NEW u \in Users, Submit(u)
    PROVE  IInv'
<1>1. TypeOK /\ opening # None /\ opening \in Openings /\ AllOfKind(opening)
  BY DEF IInv, NothingMade, Submit
<1>2. KindOf(opening, writer[u]) /\ WellFormed(writer[u])
  BY <1>1 DEF AllOfKind, Submit, TypeOK
<1>3. /\ submitted' = submitted \cup {writer[u]} /\ pendingItem' = writer[u]
      /\ writer' = [writer EXCEPT ![u] = None] /\ UNCHANGED << log, opening >>
  BY DEF Submit
<1>4. AllOfKind(opening)'
  BY <1>1, <1>2, <1>3 DEF AllOfKind, TypeOK
<1>5. TypeOK'
  BY <1>1, <1>2, <1>3 DEF TypeOK
<1> QED
  BY <1>1, <1>3, <1>4, <1>5 DEF IInv

(* A transaction is confirmed, of the channel or of others.                *)
LEMMA AppendIInv ==
    ASSUME IInv, opening # None, NEW tx, WellFormed(tx), KindOf(opening, tx),
           log' = Append(log, tx), submitted' \subseteq submitted,
           UNCHANGED << pendingItem, writer, opening >>
    PROVE  IInv'
<1>1. TypeOK /\ tx \in Transaction /\ opening \in Openings /\ AllOfKind(opening)
  BY DEF IInv, WellFormed
<1>2. /\ log' \in Seq(Transaction) /\ DOMAIN log' = 1 .. Len(log) + 1
      /\ Len(log) \in Nat /\ DOMAIN log = 1 .. Len(log) /\ Len(log') = Len(log) + 1
      /\ \A i \in 1 .. Len(log) : log'[i] = log[i]
      /\ log'[Len(log) + 1] = tx
  BY <1>1 DEF TypeOK
<1>3. \A i \in 1 .. Len(log) + 1 : i \in 1 .. Len(log) \/ i = Len(log) + 1
  BY <1>2
<1>4. AllOfKind(opening)'
  BY <1>1, <1>2, <1>3 DEF AllOfKind
<1>5. TypeOK'
  BY <1>1, <1>2, <1>3 DEF TypeOK
<1> QED
  BY <1>1, <1>4, <1>5 DEF IInv

LEMMA ConfirmIInv ==
    ASSUME IInv, NEW tx \in submitted, Confirm(tx)
    PROVE  IInv'
<1>1. opening # None /\ WellFormed(tx) /\ KindOf(opening, tx)
  BY DEF IInv, NothingMade, TypeOK, AllOfKind
<1> QED
  BY <1>1, AppendIInv DEF Confirm

LEMMA StrayIInv ==
    ASSUME IInv, NEW tx \in Strays, Stray(tx)
    PROVE  IInv'
<1>1. WellFormed(tx)
  BY TransactionManagerAssumption
<1>2. opening # None /\ KindOf(opening, tx)
  BY DEF Stray, KindOf
<1> QED
  BY <1>1, <1>2, AppendIInv DEF Stray

LEMMA CopyIInv ==
    ASSUME IInv, NEW tx \in submitted \cup ToSet(log), NEW keys \in {tx.keys, {}},
           NEW method \in {tx.method, FALSE}, Copy(tx, keys, method)
    PROVE  IInv'
<1>1. opening # None /\ WellFormed(tx) /\ KindOf(opening, tx)
  <2>1. CASE tx \in submitted
    BY <2>1 DEF IInv, NothingMade, TypeOK, AllOfKind
  <2>2. CASE tx \in ToSet(log)
    <3>1. PICK i \in 1 .. Len(log) : tx = log[i]
      BY <2>2 DEF ToSet, IInv, TypeOK
    <3>2. opening # None
      BY <3>1 DEF IInv, NothingMade
    <3> QED
      BY <3>1, <3>2 DEF IInv, TypeOK, AllOfKind
  <2> QED
    BY <2>1, <2>2
<1> DEFINE copy == [tx EXCEPT !.keys = keys, !.method = method]
<1>2. /\ copy \in Transaction /\ copy.form = tx.form /\ copy.key = tx.key
      /\ copy.data = tx.data /\ copy.keys = keys /\ copy.method = method
  BY <1>1 DEF WellFormed, Transaction
<1> HIDE DEF copy
<1>3. WellFormed(copy)
  BY <1>1, <1>2 DEF WellFormed
<1>4. KindOf(opening, copy)
  BY <1>1, <1>2 DEF KindOf
<1>5. log' = Append(log, copy) /\ UNCHANGED << submitted, pendingItem, writer, opening >>
  BY DEF Copy, copy
<1> QED
  BY <1>1, <1>3, <1>4, <1>5, AppendIInv

LEMMA NextIInv == IInv /\ [Next]_vars => IInv'
<1> SUFFICES ASSUME IInv, [Next]_vars PROVE IInv'
  OBVIOUS
<1>1. CASE UNCHANGED vars
  BY <1>1 DEF vars, IInv, TypeOK, NothingMade, AllOfKind
<1>2. ASSUME NEW u \in Users, MakeOpening(u) PROVE IInv'
  BY <1>2, MakeOpeningIInv
<1>3. ASSUME NEW u \in Users, Submit(u) PROVE IInv'
  BY <1>3, SubmitIInv
<1>4. ASSUME NEW u \in Users, NEW data \in Updates, NEW added \in Groups,
             MakeUpdate(u, data, added)
      PROVE  IInv'
  BY <1>4, MakeUpdateIInv
<1>5. ASSUME NEW tx \in submitted, Confirm(tx) PROVE IInv'
  BY <1>5, ConfirmIInv
<1>6. ASSUME NEW tx \in submitted, Fail(tx) PROVE IInv'
  BY <1>6 DEF Fail, IInv, TypeOK, NothingMade, AllOfKind
<1>7. CASE RemovePending
  BY <1>7 DEF RemovePending, IInv, TypeOK, NothingMade, AllOfKind
<1>8. ASSUME NEW tx \in Strays, Stray(tx) PROVE IInv'
  BY <1>8, StrayIInv
<1>9. ASSUME NEW tx \in submitted \cup ToSet(log), NEW keys \in {tx.keys, {}},
             NEW method \in {tx.method, FALSE}, Copy(tx, keys, method)
      PROVE  IInv'
  BY <1>9, CopyIInv
<1> QED
  BY <1>1, <1>2, <1>3, <1>4, <1>5, <1>6, <1>7, <1>8, <1>9 DEF Next

(* The inductive invariant, whatever others persist under the topic: the   *)
(* transactions are well formed and only copies of an encrypted opening    *)
(* carry its data.                                                         *)
THEOREM Invariance == Spec => []IInv
<1>1. Init => IInv
  BY InitIInv
<1>2. IInv /\ [Next]_vars => IInv'
  BY NextIInv
<1> QED
  BY <1>1, <1>2, PTL DEF Spec

(* Everything persisted is a well-formed transaction: an encrypted one     *)
(* always names the key it is encrypted with.                              *)
THEOREM TypeCorrect == Spec => []TypeOK
  BY Invariance, PTL DEF IInv

-----------------------------------------------------------------------------
(***************************************************************************)
(* Reading.  `c` is the channel as its opening defines it after each       *)
(* transaction of the log; what a user knows and has kept is compared to   *)
(* it.                                                                     *)
(***************************************************************************)
KeysOf(txs) == UNION {txs[i].keys : i \in DOMAIN txs}

(* The channel after each transaction of the log.                          *)
IsChannelTrace(c, op, txs) ==
    /\ c[0] = << >>
    /\ \A n \in 1 .. Len(txs) : c[n] = Extended(op, c[n - 1], txs[n])

LEMMA ChannelTrace ==
    ASSUME NEW op, NEW txs \in Seq(Transaction)
    PROVE  \E c : IsChannelTrace(c, op, txs) /\ ChannelOf(op, txs) = c[Len(txs)]
<1>1. PICK c : Extending!IsTrace(op, 0, c, << >>, txs)
               /\ Extending!Fold(op, 0, << >>, txs) = c[Len(txs)]
  BY Extending!FoldTrace
<1> QED
  BY <1>1, ExtendingFold DEF Extending!IsTrace, IsChannelTrace, ExtendStep

(* A prefix of the log has the channel that there was then.                *)
LEMMA PrefixChannel ==
    ASSUME NEW op, NEW txs \in Seq(Transaction), NEW more \in Seq(Transaction),
           Len(txs) <= Len(more), \A i \in 1 .. Len(txs) : txs[i] = more[i],
           NEW c, IsChannelTrace(c, op, more)
    PROVE  ChannelOf(op, txs) = c[Len(txs)]
<1>1. PICK d : Extending!IsTrace(op, 0, d, << >>, txs)
               /\ Extending!Fold(op, 0, << >>, txs) = d[Len(txs)]
  BY Extending!FoldTrace
<1>2. Extending!IsTrace(op, 0, c, << >>, more)
  BY DEF Extending!IsTrace, IsChannelTrace, ExtendStep
<1>3. \A n \in 0 .. Len(txs) : d[n] = c[n]
  BY <1>1, <1>2, Extending!TraceUnique
<1>4. Len(txs) \in 0 .. Len(txs)
  OBVIOUS
<1> QED
  BY <1>1, <1>3, <1>4, ExtendingFold

(* What it takes of a transaction not to mislead who is no party yet.      *)
Harmless(tx, user, op, channel) ==
    user \in PartiesOf(channel) \/ ~Misleads(tx, user, op, channel)

LEMMA UndisturbedTrace ==
    ASSUME NEW op, NEW txs \in Seq(Transaction), NEW user,
           NEW c, IsChannelTrace(c, op, txs)
    PROVE  Undisturbed(user, op, txs)
               <=> \A n \in 1 .. Len(txs) : Harmless(txs[n], user, op, c[n - 1])
<1>1. ASSUME NEW n \in 1 .. Len(txs)
      PROVE  ChannelOf(op, SubSeq(txs, 1, n - 1)) = c[n - 1]
  <2> DEFINE before == SubSeq(txs, 1, n - 1)
  <2>1. n - 1 \in Nat /\ Len(txs) \in Nat /\ n - 1 <= Len(txs)
        /\ \A i \in 1 .. n - 1 : txs[i] \in Transaction
    OBVIOUS
  <2>2. /\ before \in Seq(Transaction) /\ Len(before) = n - 1
        /\ \A i \in 1 .. n - 1 : before[i] = txs[i]
    <3>1. /\ before \in Seq(Transaction)
          /\ Len(before) = IF 1 <= n - 1 THEN (n - 1) - 1 + 1 ELSE 0
          /\ \A i \in 1 .. (n - 1) - 1 + 1 : before[i] = txs[1 + i - 1]
      BY <2>1, SubSeqProperties
    <3> HIDE DEF before
    <3> QED
      BY <2>1, <3>1
  <2> HIDE DEF before
  <2>3. ChannelOf(op, before) = c[Len(before)]
    BY <2>1, <2>2, PrefixChannel
  <2> QED
    BY <2>2, <2>3 DEF before
<1>2. DOMAIN txs = 1 .. Len(txs)
  OBVIOUS
<1> QED
  BY <1>1, <1>2 DEF Undisturbed, Harmless

LEMMA AppendKeepsFirst ==
    ASSUME NEW S, NEW seq \in Seq(S), NEW e \in S
    PROVE  /\ Append(seq, e) \in Seq(S) /\ Append(seq, e) # << >>
           /\ seq # << >> => 1 \in DOMAIN seq /\ Append(seq, e)[1] = seq[1]
           /\ DOMAIN Append(seq, e) = DOMAIN seq \cup {Len(seq) + 1}
           /\ Append(seq, e)[Len(seq) + 1] = e
           /\ \A i \in DOMAIN seq : Append(seq, e)[i] = seq[i]
  OBVIOUS

(* It is empty until the opening comes, and then begins with it.           *)
ChannelShape(c, txs, op, n) ==
    /\ c[n] \in Seq(Transaction)
    /\ IF c[n] = << >> THEN \A h \in 1 .. n : txs[h] # op ELSE c[n][1] = op

LEMMA ChannelShapes ==
    ASSUME NEW txs \in Seq(Transaction), NEW op, NEW c, IsChannelTrace(c, op, txs)
    PROVE  \A n \in 0 .. Len(txs) : ChannelShape(c, txs, op, n)
<1> DEFINE S == {n \in Nat : n <= Len(txs) => ChannelShape(c, txs, op, n)}
<1>1. Len(txs) \in Nat
  OBVIOUS
<1>2. 0 \in S
  <2>1. c[0] = << >> /\ << >> \in Seq(Transaction) /\ 1 .. 0 = {}
    BY DEF IsChannelTrace
  <2>2. ChannelShape(c, txs, op, 0)
    BY <2>1 DEF ChannelShape
  <2> QED
    BY <2>2
<1>3. ASSUME NEW n \in Nat, n \in S PROVE n + 1 \in S
  <2> SUFFICES ASSUME n + 1 <= Len(txs) PROVE ChannelShape(c, txs, op, n + 1)
    OBVIOUS
  <2> DEFINE tx == txs[n + 1]
  <2>1. n + 1 \in 1 .. Len(txs) /\ tx \in Transaction /\ (n + 1) - 1 = n
    BY <1>1
  <2>2. c[n + 1] = Extended(op, c[n], tx)
    BY <2>1 DEF IsChannelTrace
  <2>3. ChannelShape(c, txs, op, n)
    BY <1>1, <1>3
  <2>4. \A h \in 1 .. n + 1 : h \in 1 .. n \/ h = n + 1
    OBVIOUS
  <2> HIDE DEF tx
  <2>5. CASE c[n] = << >> /\ tx = op
    <3>1. c[n + 1] = << tx >>
      BY <2>2, <2>5 DEF Extended
    <3>2. << tx >> \in Seq(Transaction) /\ << tx >> # << >> /\ << tx >>[1] = op
      BY <2>1, <2>5
    <3> QED
      BY <3>1, <3>2 DEF ChannelShape
  <2>6. CASE c[n] = << >> /\ tx # op
    BY <2>2, <2>3, <2>4, <2>6 DEF Extended, ChannelShape, tx
  <2>7. CASE c[n] # << >>
    <3>1. c[n] \in Seq(Transaction) /\ c[n][1] = op
      BY <2>3, <2>7 DEF ChannelShape
    <3>2. c[n + 1] = c[n] \/ c[n + 1] = Append(c[n], tx)
      BY <2>2, <2>7 DEF Extended
    <3> DEFINE old == c[n]
    <3>3. old \in Seq(Transaction) /\ old # << >> /\ tx \in Transaction
      BY <2>1, <2>7, <3>1
    <3> HIDE DEF old
    <3>4. /\ Append(old, tx) \in Seq(Transaction) /\ Append(old, tx) # << >>
          /\ Append(old, tx)[1] = old[1]
      BY <3>3, AppendKeepsFirst
    <3> QED
      BY <2>7, <3>1, <3>2, <3>4 DEF old, ChannelShape
  <2> QED
    BY <2>5, <2>6, <2>7
<1> HIDE DEF S
<1>4. \A n \in Nat : n \in S
  BY <1>2, <1>3, Extending!NatInductive
<1> QED
  BY <1>1, <1>4 DEF S

(* Of the channel as it is, without its trace.                             *)
LEMMA ChannelType ==
    ASSUME NEW txs \in Seq(Transaction), NEW op
    PROVE  LET channel == ChannelOf(op, txs)
           IN  /\ channel \in Seq(Transaction)
               /\ IF channel = << >> THEN \A h \in 1 .. Len(txs) : txs[h] # op
                  ELSE channel[1] = op
<1>1. PICK c : IsChannelTrace(c, op, txs) /\ ChannelOf(op, txs) = c[Len(txs)]
  BY ChannelTrace
<1>2. Len(txs) \in 0 .. Len(txs)
  OBVIOUS
<1> QED
  BY <1>1, <1>2, ChannelShapes DEF ChannelShape

(* Once the opening was read, what is readable is what belongs to it.      *)
LEMMA ReadableIsBelonging ==
    ASSUME NEW op \in Openings, NEW tx, WellFormed(tx), NEW user
    PROVE  Readable(tx, Learnt(op), user) <=> Belongs(tx, op)
<1>1. WellFormed(op) /\ op.form \in {"clear", "encrypted"} /\ tx \in Transaction
      /\ (op.form = "encrypted" => op.key \in Keys /\ op.key # None)
      /\ (op.form = "clear" => op.key = None)
  BY OpeningShape, TransactionManagerAssumption DEF WellFormed
<1>2. tx.form \in {"clear", "encrypted", "malformed"} /\ tx.method \in BOOLEAN
  BY <1>1 DEF Transaction
<1>3. CASE op.form = "clear"
  BY <1>1, <1>2, <1>3 DEF Learnt, Readable, LooksEncrypted, Belongs, WellFormed
<1>4. CASE op.form = "encrypted"
  <2>1. Learnt(op) = KnownEncrypted(op.key)
    BY <1>4 DEF Learnt, KnownEncrypted
  <2>2. Readable(tx, KnownEncrypted(op.key), user)
            <=> /\ tx.data # Unparsable /\ tx.form = "encrypted"
                /\ ~tx.method /\ op.key = tx.key
    BY <1>1, <1>2, <1>4 DEF KnownEncrypted, Readable, LooksEncrypted, KeyFor
  <2>3. tx.form # "encrypted" => tx.key = None
    BY DEF WellFormed
  <2> QED
    BY <1>1, <1>2, <1>4, <2>1, <2>2, <2>3 DEF Belongs
<1> QED
  BY <1>1, <1>3, <1>4

(* The opening can be read by those for whom it has an entry.              *)
LEMMA OpeningReadable ==
    ASSUME NEW op \in Openings, NEW user
    PROVE  /\ op.form = "clear" => Readable(op, Unknown, user)
           /\ op.form = "encrypted" =>
                  /\ Readable(op, Unknown, user) <=> user \in op.keys \cap Providers
                  /\ KeyImpossible(op, Unknown, user) <=> user \in Providers \ op.keys
           /\ Readable(op, [Unknown EXCEPT !.key = op.key], user)
<1>1. /\ op.data = Opening /\ WellFormed(op)
      /\ \/ op.form = "clear"
         \/ op.form = "encrypted" /\ op.key \in Keys /\ op.method /\ op.keys # {}
      /\ Opening # Unparsable
  BY OpeningShape, TransactionManagerAssumption
<1>2. op.form = "encrypted" => op.key # None
  BY <1>1 DEF WellFormed
<1>3. op.form = "clear" => op.key = None
  BY <1>1 DEF WellFormed
<1>4. CASE op.form = "clear"
  BY <1>1, <1>3, <1>4 DEF Readable, Unknown
<1>5. CASE op.form = "encrypted"
  BY <1>1, <1>2, <1>5 DEF Readable, Unknown, LooksEncrypted, KeyFor, KeyImpossible
<1> QED
  BY <1>1, <1>4, <1>5

(* One more transaction of the channel adds its data and its entries.      *)
LEMMA AppendAdds ==
    ASSUME NEW txs \in Seq(Transaction), NEW tx \in Transaction
    PROVE  /\ ContentsOf(Append(txs, tx)) = Append(ContentsOf(txs), tx.data)
           /\ KeysOf(Append(txs, tx)) = KeysOf(txs) \cup tx.keys
<1>1. /\ Len(Append(txs, tx)) = Len(txs) + 1 /\ Len(txs) \in Nat
      /\ DOMAIN Append(txs, tx) = 1 .. Len(txs) + 1 /\ DOMAIN txs = 1 .. Len(txs)
      /\ Append(txs, tx)[Len(txs) + 1] = tx
      /\ \A i \in 1 .. Len(txs) : Append(txs, tx)[i] = txs[i]
  OBVIOUS
<1>2. \A i \in 1 .. Len(txs) + 1 : i \in 1 .. Len(txs) \/ i = Len(txs) + 1
  BY <1>1
<1>3. KeysOf(Append(txs, tx)) = KeysOf(txs) \cup tx.keys
  <2>1. Len(txs) + 1 \in 1 .. Len(txs) + 1 /\ \A i \in 1 .. Len(txs) : i \in 1 .. Len(txs) + 1
    BY <1>1
  <2> DEFINE more == Append(txs, tx)
  <2>2. /\ DOMAIN more = 1 .. Len(txs) + 1 /\ DOMAIN txs = 1 .. Len(txs)
        /\ more[Len(txs) + 1] = tx /\ \A i \in 1 .. Len(txs) : more[i] = txs[i]
    BY <1>1
  <2> HIDE DEF more
  <2>3. ASSUME NEW k PROVE k \in KeysOf(more) <=> k \in KeysOf(txs) \cup tx.keys
    BY <1>2, <2>1, <2>2 DEF KeysOf
  <2> QED
    BY <2>3 DEF more
<1>4. ContentsOf(Append(txs, tx)) = Append(ContentsOf(txs), tx.data)
  <2> DEFINE more == Append(txs, tx)
             long == [i \in 1 .. Len(txs) + 1 |-> more[i].data]
  <2>1. ContentsOf(more) = long
    BY <1>1 DEF ContentsOf
  <2>2. /\ ContentsOf(txs) \in Seq({txs[i].data : i \in DOMAIN txs})
        /\ Len(ContentsOf(txs)) = Len(txs)
        /\ \A i \in 1 .. Len(txs) : ContentsOf(txs)[i] = txs[i].data
    BY <1>1 DEF ContentsOf
  <2>3. /\ DOMAIN Append(ContentsOf(txs), tx.data) = 1 .. Len(txs) + 1
        /\ \A i \in 1 .. Len(txs) : Append(ContentsOf(txs), tx.data)[i] = txs[i].data
        /\ Append(ContentsOf(txs), tx.data)[Len(txs) + 1] = tx.data
    BY <2>2
  <2>4. \A i \in 1 .. Len(txs) + 1 : long[i] = Append(ContentsOf(txs), tx.data)[i]
    BY <1>1, <1>2, <2>3
  <2>5. Append(ContentsOf(txs), tx.data)
            = [i \in 1 .. Len(txs) + 1 |-> Append(ContentsOf(txs), tx.data)[i]]
    BY <2>2, <2>3
  <2> QED
    BY <2>1, <2>4, <2>5
<1> QED
  BY <1>3, <1>4

(* The readers of a channel.                                               *)
LEMMA PartiesByKeys ==
    ASSUME NEW channel, channel # << >>
    PROVE  PartiesOf(channel) = IF channel[1].form = "clear" THEN Users
                                ELSE Providers \cap KeysOf(channel)
<1>1. UNION {tx.keys : tx \in ToSet(channel)} = KeysOf(channel)
  BY DEF ToSet, KeysOf
<1> QED
  BY <1>1 DEF PartiesOf

LEMMA PartiesOfNothing == PartiesOf(<< >>) = {}
  BY DEF PartiesOf

(***************************************************************************)
(* What somebody with a provider has learnt after n transactions.          *)
(***************************************************************************)
Learned(c, op, user, n) ==
    IF c[n] = << >> THEN
        IF op.form = "clear" THEN {Unknown, KnownClear} ELSE {Unknown}
    ELSE IF user \in PartiesOf(c[n]) THEN {Learnt(op)}
    ELSE {KnownEncrypted(None)}

(* What does not mislead ahead of the opening.                             *)
LEMMA HarmlessBefore ==
    ASSUME NEW op, NEW user, NEW tx, tx # op, Harmless(tx, user, op, << >>),
           WellFormed(tx)
    PROVE  \/ Belongs(tx, op)
           \/ ~LegibleClear(tx) /\ ~(tx.method /\ user \in Providers)
  BY PartiesOfNothing DEF Harmless, Misleads, LegibleClear

(* Before the opening nothing is learnt, but that a channel is clear.      *)
LEMMA LearnBefore ==
    ASSUME NEW op \in Openings, NEW user \in Users,
           NEW tx, WellFormed(tx), tx # op, Harmless(tx, user, op, << >>)
    PROVE  Learn(user, Unknown, tx)
               \in (IF op.form = "clear" THEN {Unknown, KnownClear} ELSE {Unknown})
<1>1. Learn(user, Unknown, tx) = LearnFrom(Unknown, tx, user)
  BY DEF Learn, Unknown
<1>2. tx.method \in BOOLEAN /\ (tx.form = "encrypted" <=> tx.key # None)
      /\ tx.form \in {"clear", "encrypted", "malformed"}
  BY TransactionManagerAssumption DEF WellFormed, Transaction
<1>3. WellFormed(op) /\ (op.form = "clear" \/ op.form = "encrypted")
  BY OpeningShape
<1>4. op.form = "encrypted" <=> op.key # None
  BY <1>3 DEF WellFormed
<1>5. ~(tx.method /\ user \in Providers)
  BY <1>2, HarmlessBefore DEF Belongs
<1>6. LegibleClear(tx) => op.form = "clear"
  BY <1>2, <1>3, <1>4, HarmlessBefore DEF Belongs, LegibleClear
<1>7. ~KeyImpossible(tx, Unknown, user)
  BY <1>2, <1>5 DEF KeyImpossible, LooksEncrypted, Unknown
<1>8. Readable(tx, Unknown, user) => LegibleClear(tx)
  BY <1>2, <1>5 DEF Readable, LegibleClear, LooksEncrypted, KeyFor, Unknown
<1>9. LearnFrom(Unknown, tx, user) = IF Readable(tx, Unknown, user) THEN Learnt(tx)
                                     ELSE Unknown
  BY <1>7 DEF LearnFrom
<1> QED
  BY <1>1, <1>6, <1>8, <1>9 DEF Learnt, KnownClear, LegibleClear

(* At the opening, its readers learn what it says and others that they are *)
(* not meant.                                                              *)
LEMMA LearnAtOpening ==
    ASSUME NEW op \in Openings, NEW user \in Users,
           op.form = "encrypted" => user \in Providers,
           NEW known \in (IF op.form = "clear" THEN {Unknown, KnownClear} ELSE {Unknown})
    PROVE  Learn(user, known, op)
               = IF user \in PartiesOf(<< op >>) THEN Learnt(op) ELSE KnownEncrypted(None)
<1>1. user \in PartiesOf(<< op >>) <=> op.form = "clear" \/ user \in Providers \cap op.keys
  <2>1. KeysOf(<< op >>) = op.keys
    BY DEF KeysOf
  <2>2. << op >> # << >> /\ << op >>[1] = op
    OBVIOUS
  <2> QED
    BY <2>1, <2>2, PartiesByKeys
<1>2. op.form = "clear" \/ op.form = "encrypted"
  BY OpeningShape
<1>3. CASE known = KnownClear /\ op.form = "clear"
  BY <1>1, <1>3 DEF Learn, KnownClear, Learnt
<1>4. CASE known = Unknown
  <2>1. Learn(user, known, op) = LearnFrom(Unknown, op, user)
    BY <1>4 DEF Learn, Unknown
  <2>2. CASE Readable(op, Unknown, user)
    BY <1>1, <1>2, <2>1, <2>2, OpeningReadable DEF LearnFrom
  <2>3. CASE ~Readable(op, Unknown, user)
    <3>1. op.form = "encrypted" /\ KeyImpossible(op, Unknown, user)
          /\ user \notin op.keys
      BY <1>2, <2>3, OpeningReadable
    <3> QED
      BY <1>1, <2>1, <2>3, <3>1 DEF LearnFrom, Unknown, KnownEncrypted
  <2> QED
    BY <2>2, <2>3
<1> QED
  BY <1>3, <1>4

(* After the opening, an entry in a transaction of the channel is what it  *)
(* takes, and all that helps.                                              *)
LEMMA LearnAfter ==
    ASSUME NEW op \in Openings, op.form = "encrypted", NEW user \in Providers,
           NEW tx, WellFormed(tx), NEW channel, channel # << >>,
           user \notin PartiesOf(channel),
           Harmless(tx, user, op, channel)
    PROVE  Learn(user, KnownEncrypted(None), tx)
               = IF Belongs(tx, op) /\ user \in tx.keys THEN Learnt(op)
                 ELSE KnownEncrypted(None)
<1> DEFINE known == KnownEncrypted(None)
<1>1. Learn(user, known, tx) = LearnFrom(known, tx, user)
  BY DEF Learn, KnownEncrypted
<1>2. ~KeyImpossible(tx, known, user) \/ known.type # "unknown"
  BY DEF KnownEncrypted
<1>3. Learn(user, known, tx) = IF Readable(tx, known, user) THEN Learnt(tx) ELSE known
  BY <1>1, <1>2 DEF LearnFrom
<1>4. op.key # None
  BY OpeningShape, TransactionManagerAssumption
<1>5. tx.method \in BOOLEAN /\ (tx.form = "encrypted" <=> tx.key # None)
  BY TransactionManagerAssumption DEF WellFormed, Transaction
<1>6. Readable(tx, known, user)
          <=> /\ tx.data # Unparsable /\ tx.form = "encrypted" /\ ~tx.method
              /\ user \in tx.keys
  BY <1>5 DEF Readable, LooksEncrypted, KeyFor, KnownEncrypted
<1>7. ~tx.method /\ user \in tx.keys => tx = op \/ Belongs(tx, op)
  BY DEF Harmless, Misleads
<1>8. tx = op => tx.method
  BY OpeningShape
<1>9. Readable(tx, known, user) <=> Belongs(tx, op) /\ user \in tx.keys
  BY <1>4, <1>5, <1>6, <1>7, <1>8 DEF Belongs
<1>10. Belongs(tx, op) => Learnt(tx) = Learnt(op)
  BY <1>4, <1>5 DEF Learnt, Belongs
<1> QED
  BY <1>3, <1>9, <1>10

LEMMA PartiesGrow ==
    ASSUME NEW txs \in Seq(Transaction), txs # << >>, NEW tx \in Transaction
    PROVE  /\ PartiesOf(Append(txs, tx)) =
                  IF txs[1].form = "clear" THEN Users
                  ELSE PartiesOf(txs) \cup (Providers \cap tx.keys)
           /\ Append(txs, tx)[1] = txs[1]
<1>1. Append(txs, tx) # << >> /\ Append(txs, tx)[1] = txs[1]
  BY AppendKeepsFirst
<1>2. KeysOf(Append(txs, tx)) = KeysOf(txs) \cup tx.keys
  BY AppendAdds
<1> DEFINE more == Append(txs, tx)
<1> HIDE DEF more
<1> QED
  BY <1>1, <1>2, PartiesByKeys DEF more

(* One step of the comparison.                                             *)
LEMMA LearnedStep ==
    ASSUME NEW txs \in Seq(Transaction), \A i \in 1 .. Len(txs) : WellFormed(txs[i]),
           NEW op \in Openings, NEW c, IsChannelTrace(c, op, txs), NEW user \in Users,
           \A i \in 1 .. Len(txs) : Harmless(txs[i], user, op, c[i - 1]),
           op.form = "encrypted" => user \in Providers,
           NEW n \in Nat, n + 1 <= Len(txs), NEW known \in Learned(c, op, user, n)
    PROVE  Learn(user, known, txs[n + 1]) \in Learned(c, op, user, n + 1)
<1> DEFINE tx  == txs[n + 1]
           old == c[n]
           new == c[n + 1]
<1>1. /\ Len(txs) \in Nat /\ n \in 0 .. Len(txs) /\ n + 1 \in 1 .. Len(txs)
      /\ n + 1 \in 0 .. Len(txs) /\ (n + 1) - 1 = n
      /\ tx \in Transaction /\ WellFormed(tx)
  OBVIOUS
<1>2. new = Extended(op, old, tx) /\ Harmless(tx, user, op, old)
  BY <1>1 DEF IsChannelTrace
<1>3. ChannelShape(c, txs, op, n)
  BY <1>1, ChannelShapes
<1>6. op.form = "clear" \/ op.form = "encrypted"
  BY OpeningShape
<1>7. CASE old = << >>
  <2>1. known \in (IF op.form = "clear" THEN {Unknown, KnownClear} ELSE {Unknown})
    BY <1>7 DEF Learned
  <2>2. CASE tx = op
    <3>1. new = << op >>
      BY <1>2, <1>7, <2>2 DEF Extended
    <3>2. << op >> # << >>
      OBVIOUS
    <3>3. Learn(user, known, op)
              = IF user \in PartiesOf(<< op >>) THEN Learnt(op) ELSE KnownEncrypted(None)
      BY <2>1, LearnAtOpening
    <3> HIDE DEF tx, new, old
    <3> QED
      BY <2>2, <3>1, <3>2, <3>3 DEF Learned, tx, new
  <2>3. CASE tx # op
    <3>1. new = << >>
      BY <1>2, <1>7, <2>3 DEF Extended
    <3>2. CASE known = Unknown
      <4>1. Learn(user, Unknown, tx)
                \in (IF op.form = "clear" THEN {Unknown, KnownClear} ELSE {Unknown})
        <5> HIDE DEF tx, old
        <5> QED
          BY <1>1, <1>2, <1>7, <2>3, LearnBefore
      <4> QED
        BY <3>1, <3>2, <4>1 DEF Learned
    <3>3. CASE op.form = "clear" /\ known = KnownClear
      BY <3>1, <3>3 DEF Learned, Learn, KnownClear
    <3> QED
      BY <2>1, <3>2, <3>3
  <2> QED
    BY <2>2, <2>3
<1>8. CASE old # << >>
  <2>1. old \in Seq(Transaction) /\ old[1] = op
    BY <1>3, <1>8 DEF ChannelShape
  <2>2. new = IF Belongs(tx, op) THEN Append(old, tx) ELSE old
    BY <1>2, <1>8 DEF Extended
  <2>3. new # << >> /\ (op.form = "clear" => PartiesOf(new) = Users)
    <3> HIDE DEF new, old, tx
    <3>1. tx \in Transaction
      BY <1>1
    <3>2. Append(old, tx) # << >> /\ Append(old, tx)[1] = op
      BY <1>8, <2>1, <3>1, AppendKeepsFirst
    <3>3. new # << >> /\ new[1] = op
      BY <1>8, <2>1, <2>2, <3>2
    <3> QED
      BY <3>3, PartiesByKeys
  <2>4. CASE op.form = "clear"
    <3>1. known = KnownClear
      <4>1. PartiesOf(old) = Users
        BY <1>8, <2>1, <2>4 DEF PartiesOf
      <4> QED
        BY <1>8, <2>4, <4>1 DEF Learned, Learnt, KnownClear
    <3>2. Learn(user, known, tx) = KnownClear
      BY <3>1 DEF Learn, KnownClear
    <3>3. Learnt(op) = KnownClear
      BY <2>4 DEF Learnt, KnownClear
    <3> HIDE DEF tx, new, old
    <3> QED
      BY <2>3, <2>4, <3>2, <3>3 DEF Learned, tx, new
  <2>5. CASE op.form = "encrypted"
    <3>1. user \in Providers /\ op.form # "clear"
      BY <2>5
    <3>2. PartiesOf(new) = IF Belongs(tx, op) THEN PartiesOf(old) \cup (Providers \cap tx.keys)
                           ELSE PartiesOf(old)
      <4> HIDE DEF new, old, tx
      <4> QED
        BY <1>1, <1>8, <2>1, <2>2, <3>1, PartiesGrow
    <3>3. CASE user \in PartiesOf(old)
      <4>1. known = Learnt(op) /\ user \in PartiesOf(new)
        BY <1>8, <3>2, <3>3 DEF Learned
      <4>2. Learnt(op).key = op.key /\ op.key # None
        BY <2>5, OpeningShape, TransactionManagerAssumption DEF Learnt
      <4>3. Learn(user, known, tx) = Learnt(op)
        BY <4>1, <4>2 DEF Learn
      <4> QED
        BY <2>3, <4>1, <4>3 DEF Learned
    <3>4. CASE user \notin PartiesOf(old)
      <4>1. known = KnownEncrypted(None)
        BY <1>8, <3>4 DEF Learned
      <4>2. Learn(user, known, tx) = IF Belongs(tx, op) /\ user \in tx.keys THEN Learnt(op)
                                     ELSE KnownEncrypted(None)
        <5> HIDE DEF tx, old, new
        <5> QED
          BY <1>1, <1>2, <1>8, <2>5, <3>1, <3>4, <4>1, LearnAfter
      <4>3. user \in PartiesOf(new) <=> Belongs(tx, op) /\ user \in tx.keys
        BY <3>1, <3>2, <3>4
      <4> HIDE DEF tx, new, old
      <4> QED
        BY <2>3, <4>2, <4>3 DEF Learned, tx, new
    <3> QED
      BY <3>3, <3>4
  <2> QED
    BY <1>6, <2>4, <2>5
<1> QED
  BY <1>7, <1>8

(***************************************************************************)
(* What the whole log teaches who can decrypt (everybody, of a clear       *)
(* channel) and was not misled: what the opening says if he is a party,    *)
(* and otherwise that it is not for him.                                   *)
(***************************************************************************)
LEMMA LearntInTheEnd ==
    ASSUME NEW txs \in Seq(Transaction), \A i \in 1 .. Len(txs) : WellFormed(txs[i]),
           NEW op \in Openings, NEW user \in Users, Undisturbed(user, op, txs),
           op.form = "encrypted" => user \in Providers
    PROVE  GetChannelTypeAndChannelKey(txs, user)
               \in IF ChannelOf(op, txs) = << >> THEN
                       IF op.form = "clear" THEN {Unknown, KnownClear} ELSE {Unknown}
                   ELSE IF user \in PartiesOf(ChannelOf(op, txs)) THEN {Learnt(op)}
                   ELSE {KnownEncrypted(None)}
<1>1. PICK c : IsChannelTrace(c, op, txs) /\ ChannelOf(op, txs) = c[Len(txs)]
  BY ChannelTrace
<1>2. PICK f : Learning!IsTrace(user, 0, f, Unknown, txs)
               /\ Learning!Fold(user, 0, Unknown, txs) = f[Len(txs)]
  BY Learning!FoldTrace
<1> DEFINE S == {n \in Nat : n <= Len(txs) => f[n] \in Learned(c, op, user, n)}
<1>3. Len(txs) \in Nat /\ \A i \in 1 .. Len(txs) : Harmless(txs[i], user, op, c[i - 1])
  BY <1>1, UndisturbedTrace
<1>4. 0 \in S
  BY <1>1, <1>2 DEF Learned, IsChannelTrace, Learning!IsTrace
<1>5. ASSUME NEW n \in Nat, n \in S PROVE n + 1 \in S
  <2>1. SUFFICES ASSUME n + 1 <= Len(txs) PROVE f[n + 1] \in Learned(c, op, user, n + 1)
    OBVIOUS
  <2>2. n + 1 \in 1 .. Len(txs) /\ (n + 1) - 1 = n
    BY <1>3, <2>1
  <2>3. f[n + 1] = Learn(user, f[n], txs[n + 1])
    BY <1>2, <2>2 DEF Learning!IsTrace, LearnStep
  <2>4. f[n] \in Learned(c, op, user, n)
    BY <1>3, <1>5, <2>1
  <2> QED
    BY <1>1, <1>3, <2>1, <2>3, <2>4, LearnedStep
<1> HIDE DEF S
<1>6. \A n \in Nat : n \in S
  BY <1>4, <1>5, Learning!NatInductive
<1>7. f[Len(txs)] \in Learned(c, op, user, Len(txs))
  BY <1>3, <1>6 DEF S
<1> QED
  BY <1>1, <1>2, <1>7, LearningFold DEF Learned

(* Who cannot read the opening reads nothing.                              *)
LEMMA ReadsNothing ==
    ASSUME NEW txs \in Seq(Transaction), NEW user, NEW key,
           key = GetChannelTypeAndChannelKey(txs, user).key,
           \A i \in 1 .. Len(txs) :
               txs[i].data = Opening => ~Readable(txs[i], Start(key).known, user)
    PROVE  DecryptAndCleanChannel(txs, user) = << >>
<1> DEFINE T == {Start(key)}
<1>1. ASSUME NEW i \in 1 .. Len(txs)
      PROVE  Clean(user, Start(key), txs[i]) = Start(key)
  <2>1. Start(key).known.type = "unknown"
    BY DEF Start, Unknown
  <2>2. ~Readable(txs[i], Start(key).known, user) \/ ~Opens(txs[i])
    BY DEF Opens
  <2> QED
    BY <2>1, <2>2 DEF Clean
<1>2. \A t \in T : \A i \in 1 .. Len(txs) : CleanStep(user, 0, t, txs[i]) \in T
  BY <1>1 DEF CleanStep
<1>3. Start(key) \in T
  OBVIOUS
<1> HIDE DEF T
<1>4. Cleaning!Fold(user, 0, Start(key), txs) \in T
  BY <1>2, <1>3, Cleaning!FoldInvariant
<1>5. Cleaning!Fold(user, 0, Start(key), txs) = Start(key)
  BY <1>4 DEF T
<1>6. Start(key).valid = << >>
  BY DEF Start
<1> QED
  BY <1>5, <1>6, CleaningFold

(* What a user with the key of the channel has kept after n transactions.  *)
Kept(c, op, n) ==
    IF c[n] = << >> THEN Start(op.key)
    ELSE [known |-> Learnt(op), valid |-> ContentsOf(c[n])]

(* Ahead of the opening nothing that does not mislead passes for it.       *)
LEMMA OnlyOpeningOpens ==
    ASSUME NEW op \in Openings, NEW tx, WellFormed(tx), KindOf(op, tx), tx # op,
           NEW user, Harmless(tx, user, op, << >>), tx.data = Opening,
           NEW key, key # None => key = op.key,
           op.form = "encrypted" => user \in Providers
    PROVE  ~Readable(tx, Start(key).known, user)
<1>1. /\ Start(key).known.type = "unknown" /\ Start(key).known.key = key
      /\ Start(key).known.method = FALSE
  BY DEF Start, Unknown
<1>2. tx.method \in BOOLEAN /\ (tx.form = "encrypted" <=> tx.key # None)
      /\ tx.form \in {"clear", "encrypted", "malformed"} /\ tx \in Transaction
  BY TransactionManagerAssumption DEF WellFormed, Transaction
<1>3. WellFormed(op) /\ (op.form = "clear" \/ op.form = "encrypted")
  BY OpeningShape
<1>4. op.form = "encrypted" <=> op.key # None
  BY <1>3 DEF WellFormed
<1>5. tx.form # "clear"
  <2>1. SUFFICES ASSUME tx.form = "clear" PROVE FALSE
    OBVIOUS
  <2>2. op.form = "clear"
    BY <1>2, <1>3, <1>4, <2>1 DEF KindOf
  <2>3. op = ClearTransaction(Opening)
    BY <2>2, OpeningShape
  <2>4. tx.key = None /\ tx.keys = {} /\ tx.method = FALSE
    BY <1>2, <2>1 DEF WellFormed
  <2>5. tx = [form |-> "clear", data |-> Opening, key |-> None, keys |-> {},
              method |-> FALSE]
    BY <1>2, <2>1, <2>4 DEF Transaction
  <2> QED
    BY <2>3, <2>5 DEF ClearTransaction
<1>6. ~(tx.method /\ user \in Providers)
  BY <1>2, HarmlessBefore DEF Belongs
<1>7. ASSUME tx.method, user \notin Providers PROVE KeyFor(tx, Start(key).known, user) # tx.key
  BY <1>1, <1>2, <1>3, <1>4, <1>7 DEF KeyFor, WellFormed
<1> QED
  BY <1>1, <1>2, <1>5, <1>6, <1>7 DEF Readable, LooksEncrypted

LEMMA KeptStep ==
    ASSUME NEW op \in Openings, NEW txs \in Seq(Transaction), KindsOf(op, txs),
           NEW c, IsChannelTrace(c, op, txs), NEW user,
           \A i \in 1 .. Len(txs) : Harmless(txs[i], user, op, c[i - 1]),
           op.form = "encrypted" => user \in Providers,
           NEW n \in Nat, n + 1 <= Len(txs)
    PROVE  Clean(user, Kept(c, op, n), txs[n + 1]) = Kept(c, op, n + 1)
<1> DEFINE tx  == txs[n + 1]
           old == c[n]
           new == c[n + 1]
<1>1. /\ Len(txs) \in Nat /\ n \in 0 .. Len(txs) /\ n + 1 \in 1 .. Len(txs)
      /\ (n + 1) - 1 = n /\ tx \in Transaction /\ WellFormed(tx) /\ KindOf(op, tx)
  BY DEF KindsOf
<1>2. new = Extended(op, old, tx) /\ Harmless(tx, user, op, old)
  BY <1>1 DEF IsChannelTrace
<1>3. ChannelShape(c, txs, op, n)
  BY <1>1, ChannelShapes
<1>5. op.data = Opening
  BY OpeningShape
<1>6. Start(op.key).known = [Unknown EXCEPT !.key = op.key]
      /\ Start(op.key).known.type = "unknown" /\ Start(op.key).known.key = op.key
  BY DEF Start, Unknown
<1>7. [Learnt(op) EXCEPT !.key = op.key] = Learnt(op)
  <2>1. op.form = "clear" => op.key = None
    BY OpeningShape DEF WellFormed
  <2>2. Learnt(op).key = op.key
    BY <2>1 DEF Learnt
  <2> QED
    BY <2>2 DEF Learnt
<1>8. CASE old = << >> /\ tx = op
  <2>1. new = << op >> /\ << op >> # << >>
    BY <1>2, <1>8 DEF Extended
  <2>2. Readable(op, Start(op.key).known, user)
    BY <1>6, OpeningReadable
  <2>3. Clean(user, Start(op.key), op) = [known |-> Learnt(op), valid |-> << op.data >>]
    BY <1>5, <1>6, <1>7, <1>8, <2>2 DEF Clean, Opens
  <2>4. ContentsOf(<< op >>) = << op.data >>
    BY DEF ContentsOf
  <2> HIDE DEF tx, old, new
  <2> QED
    BY <1>8, <2>1, <2>3, <2>4 DEF Kept, tx, old, new
<1>9. CASE old = << >> /\ tx # op
  <2>1. new = << >>
    BY <1>2, <1>9 DEF Extended
  <2>2. Clean(user, Start(op.key), tx) = Start(op.key)
    <3>1. tx.data = Opening => ~Readable(tx, Start(op.key).known, user)
      <4> HIDE DEF tx, old
      <4> QED
        BY <1>1, <1>2, <1>9, OnlyOpeningOpens
    <3> QED
      BY <1>6, <3>1 DEF Clean, Opens
  <2> HIDE DEF tx, old, new
  <2> QED
    BY <1>9, <2>1, <2>2 DEF Kept, tx, old, new
<1>10. CASE old # << >>
  <2>1. old \in Seq(Transaction) /\ old[1] = op
    BY <1>3, <1>10 DEF ChannelShape
  <2>2. new = IF Belongs(tx, op) THEN Append(old, tx) ELSE old
    BY <1>2, <1>10 DEF Extended
  <2>3. Readable(tx, Learnt(op), user) <=> Belongs(tx, op)
    BY <1>1, ReadableIsBelonging
  <2>4. Learnt(op).type # "unknown"
    BY DEF Learnt
  <2> DEFINE state == [known |-> Learnt(op), valid |-> ContentsOf(old)]
  <2>5. Kept(c, op, n) = state /\ state.known = Learnt(op)
    BY <1>10 DEF Kept
  <2>6. CASE Belongs(tx, op)
    <3>1. ContentsOf(new) = Append(ContentsOf(old), tx.data) /\ new # << >>
      <4> HIDE DEF tx, old, new
      <4> QED
        BY <1>1, <2>1, <2>2, <2>6, AppendAdds, AppendKeepsFirst
    <3>2. Clean(user, state, tx) = [state EXCEPT !.valid = Append(ContentsOf(old), tx.data)]
      BY <2>3, <2>4, <2>6 DEF Clean
    <3>3. Clean(user, state, tx) = [known |-> Learnt(op), valid |-> ContentsOf(new)]
      BY <3>1, <3>2
    <3> HIDE DEF tx, old, new, state
    <3> QED
      BY <2>5, <3>1, <3>3 DEF Kept, tx, new
  <2>7. CASE ~Belongs(tx, op)
    <3>1. Clean(user, state, tx) = state
      BY <2>3, <2>7 DEF Clean
    <3>2. new = old
      BY <2>2, <2>7
    <3> HIDE DEF tx
    <3> QED
      BY <1>10, <2>5, <3>1, <3>2 DEF Kept, tx
  <2> QED
    BY <2>6, <2>7
<1> QED
  BY <1>8, <1>9, <1>10

(* Who has the key reads the channel as its opening defines it.            *)
LEMMA ReadsAll ==
    ASSUME NEW op \in Openings, NEW txs \in Seq(Transaction), KindsOf(op, txs),
           NEW user, Undisturbed(user, op, txs),
           op.form = "encrypted" => user \in Providers,
           GetChannelTypeAndChannelKey(txs, user).key = op.key,
           ChannelOf(op, txs) # << >>
    PROVE  DecryptAndCleanChannel(txs, user) = ContentsOf(ChannelOf(op, txs))
<1>1. PICK c : IsChannelTrace(c, op, txs) /\ ChannelOf(op, txs) = c[Len(txs)]
  BY ChannelTrace
<1>2. PICK f : Cleaning!IsTrace(user, 0, f, Start(op.key), txs)
               /\ Cleaning!Fold(user, 0, Start(op.key), txs) = f[Len(txs)]
  BY Cleaning!FoldTrace
<1> DEFINE S == {n \in Nat : n <= Len(txs) => f[n] = Kept(c, op, n)}
<1>3. Len(txs) \in Nat
  OBVIOUS
<1>9. \A i \in 1 .. Len(txs) : Harmless(txs[i], user, op, c[i - 1])
  BY <1>1, UndisturbedTrace
<1>4. 0 \in S
  BY <1>1, <1>2 DEF Kept, IsChannelTrace, Cleaning!IsTrace
<1>5. ASSUME NEW n \in Nat, n \in S PROVE n + 1 \in S
  <2>1. SUFFICES ASSUME n + 1 <= Len(txs) PROVE f[n + 1] = Kept(c, op, n + 1)
    OBVIOUS
  <2>2. n + 1 \in 1 .. Len(txs) /\ (n + 1) - 1 = n
    BY <1>3, <2>1
  <2>3. f[n + 1] = Clean(user, f[n], txs[n + 1])
    BY <1>2, <2>2 DEF Cleaning!IsTrace, CleanStep
  <2>4. f[n] = Kept(c, op, n)
    BY <1>3, <1>5, <2>1
  <2>5. Clean(user, Kept(c, op, n), txs[n + 1]) = Kept(c, op, n + 1)
    BY <1>1, <1>9, <2>1, KeptStep
  <2> QED
    BY <2>3, <2>4, <2>5
<1> HIDE DEF S
<1>6. \A n \in Nat : n \in S
  BY <1>4, <1>5, Cleaning!NatInductive
<1>7. f[Len(txs)] = Kept(c, op, Len(txs))
  BY <1>3, <1>6 DEF S
<1>8. f[Len(txs)].valid = ContentsOf(ChannelOf(op, txs))
  BY <1>1, <1>7 DEF Kept
<1> QED
  BY <1>2, <1>8, CleaningFold

-----------------------------------------------------------------------------
(***************************************************************************)
(* The invariants of the channel.                                          *)
(***************************************************************************)
LEMMA LogKinds ==
    ASSUME IInv
    PROVE  /\ log \in Seq(Transaction) /\ \A i \in 1 .. Len(log) : WellFormed(log[i])
           /\ log # << >> => opening \in Openings /\ opening # None /\ KindsOf(opening, log)
  BY DEF IInv, TypeOK, NothingMade, AllOfKind, KindsOf

(* An open channel has an opening, and its first transaction is that.      *)
LEMMA OpenHasOpening ==
    ASSUME IInv, IsOpen
    PROVE  /\ log # << >> /\ opening \in Openings /\ KindsOf(opening, log)
           /\ ChannelTransactions \in Seq(Transaction) /\ ChannelTransactions[1] = opening
           /\ opening.form = "clear" \/ opening.form = "encrypted"
<1>1. log \in Seq(Transaction)
  BY LogKinds
<1>2. log # << >>
  BY ExtendingFold, Extending!FoldEmpty DEF IsOpen, ChannelTransactions
<1> QED
  BY <1>1, <1>2, LogKinds, ChannelType, OpeningShape DEF IsOpen, ChannelTransactions

LEMMA LearntKey ==
    ASSUME NEW op \in Openings
    PROVE  Learnt(op).key = op.key
<1>1. op.form = "clear" => op.key = None
  BY OpeningShape DEF WellFormed
<1> QED
  BY <1>1 DEF Learnt

(* Only who has a decryption provider is a party of an encrypted channel.  *)
LEMMA PartyLearnt ==
    ASSUME IInv, IsOpen, NEW u \in Parties, Undisturbed(u, opening, log)
    PROVE  /\ u \in Users /\ (opening.form = "encrypted" => u \in Providers)
           /\ GetChannelTypeAndChannelKey(log, u) = Learnt(opening)
<1>1. u \in Users /\ (opening.form = "encrypted" => u \in Providers)
  BY OpenHasOpening, TransactionManagerAssumption DEF Parties, PartiesOf, IsOpen
<1> QED
  BY <1>1, OpenHasOpening, LogKinds, LearntInTheEnd
     DEF IsOpen, Parties, ChannelTransactions

(***************************************************************************)
(* Every party of an open channel whom nothing misled before he was one    *)
(* can write into it: what he learns is the type and the key of the        *)
(* opening, whatever surrounds it in the log and whoever persisted that.   *)
(***************************************************************************)
THEOREM PartiesAlwaysWrite == Spec => []PartiesCanWrite
<1>1. IInv => PartiesCanWrite
  BY PartyLearnt DEF PartiesCanWrite, CanWrite
<1> QED
  BY <1>1, Invariance, PTL

LEMMA PartyReads ==
    ASSUME IInv, IsOpen, NEW u \in Parties, Undisturbed(u, opening, log)
    PROVE  DecryptAndCleanChannel(log, u) = Contents
<1>1. GetChannelTypeAndChannelKey(log, u).key = opening.key
  BY PartyLearnt, OpenHasOpening, LearntKey
<1>2. DecryptAndCleanChannel(log, u) = ContentsOf(ChannelOf(opening, log))
  BY <1>1, LogKinds, OpenHasOpening, PartyLearnt, ReadsAll DEF IsOpen, ChannelTransactions
<1> QED
  BY <1>2 DEF Contents, ChannelTransactions

(* Who is no party has no key.                                             *)
LEMMA StrangerHasNoKey ==
    ASSUME IInv, log # << >>, NEW u \in Users, u \notin Parties,
           Undisturbed(u, opening, log)
    PROVE  GetChannelTypeAndChannelKey(log, u).key = None
<1>1. opening \in Openings /\ (opening.form = "clear" \/ opening.form = "encrypted")
  BY LogKinds, OpeningShape
<1>2. CASE u \in Providers \/ opening.form = "clear"
  <2>1. GetChannelTypeAndChannelKey(log, u)
            \in {Unknown, KnownClear, KnownEncrypted(None)}
    BY <1>1, <1>2, LogKinds, LearntInTheEnd DEF Parties, ChannelTransactions
  <2> QED
    BY <2>1 DEF Unknown, KnownClear, KnownEncrypted
<1>3. CASE u \notin Providers
  BY <1>3, LogKinds, KeyNeedsEntry DEF HasEntry
<1> QED
  BY <1>1, <1>2, <1>3

(* The opening that was not misled about is the only one, and is not for   *)
(* who is no party.                                                        *)
LEMMA StrangerReadsNothing ==
    ASSUME IInv, NEW u \in Users, u \notin Parties, Undisturbed(u, opening, log)
    PROVE  DecryptAndCleanChannel(log, u) = << >>
<1> DEFINE key == GetChannelTypeAndChannelKey(log, u).key
<1>1. log \in Seq(Transaction) /\ Len(log) \in Nat
  BY LogKinds
<1>2. ASSUME NEW i \in 1 .. Len(log), log[i].data = Opening
      PROVE  ~Readable(log[i], Start(key).known, u)
  <2>1. log # << >>
    BY <1>1
  <2>2. /\ key = None /\ opening \in Openings /\ opening # None
        /\ WellFormed(log[i]) /\ KindOf(opening, log[i])
        /\ opening.form = "clear" \/ opening.form = "encrypted"
    BY <2>1, StrangerHasNoKey, LogKinds, OpeningShape DEF KindsOf
  <2> HIDE DEF key
  <2>3. CASE opening.form = "encrypted" /\ u \notin Providers
    <3>1. log[i].form # "clear"
      BY <1>2, <2>2, <2>3, OpeningShape, TransactionManagerAssumption DEF KindOf, WellFormed
    <3>2. log[i].key # None
      BY <1>2, <2>2, <2>3, OpeningShape, TransactionManagerAssumption DEF KindOf, WellFormed
    <3> QED
      BY <2>2, <2>3, <3>1, <3>2 DEF Readable, LooksEncrypted, KeyFor, Start, Unknown
  <2>4. CASE opening.form = "clear" \/ u \in Providers
    <3>1. PICK c : IsChannelTrace(c, opening, log)
                   /\ ChannelOf(opening, log) = c[Len(log)]
      BY <1>1, ChannelTrace
    <3>2. Harmless(log[i], u, opening, c[i - 1])
      BY <1>1, <3>1, UndisturbedTrace
    <3>3. CASE ~IsOpen
      <4>1. \A h \in 1 .. Len(log) : log[h] # opening
        BY <1>1, <3>3, ChannelType DEF IsOpen, ChannelTransactions
      <4>2. c[i - 1] = << >>
        <5>1. i - 1 \in 0 .. Len(log)
          BY <1>1
        <5> DEFINE S == {n \in Nat : n <= Len(log) => c[n] = << >>}
        <5>2. 0 \in S
          BY <3>1 DEF IsChannelTrace
        <5>3. ASSUME NEW n \in Nat, n \in S PROVE n + 1 \in S
          <6>1. SUFFICES ASSUME n + 1 <= Len(log) PROVE c[n + 1] = << >>
            OBVIOUS
          <6>2. n + 1 \in 1 .. Len(log) /\ (n + 1) - 1 = n /\ c[n] = << >>
            BY <1>1, <5>3, <6>1
          <6> QED
            BY <3>1, <4>1, <6>2 DEF IsChannelTrace, Extended
        <5> HIDE DEF S
        <5>4. \A n \in Nat : n \in S
          BY <5>2, <5>3, Extending!NatInductive
        <5> QED
          BY <5>1, <5>4 DEF S
      <4>3. Harmless(log[i], u, opening, << >>) /\ log[i] # opening
        BY <3>2, <4>1, <4>2
      <4> QED
        BY <1>2, <2>2, <2>4, <4>3, OnlyOpeningOpens
    <3>4. CASE IsOpen
      <4>1. /\ ChannelTransactions[1] = opening /\ ChannelTransactions # << >>
            /\ ChannelTransactions \in Seq(Transaction)
        BY <3>4, OpenHasOpening DEF IsOpen
      <4>2. opening.form = "encrypted" /\ u \in Providers
        BY <2>2, <2>4, <4>1 DEF Parties, PartiesOf
      <4>3. opening.keys \subseteq KeysOf(ChannelTransactions)
        <5> DEFINE txs == ChannelTransactions
        <5>1. txs \in Seq(Transaction) /\ txs # << >> /\ txs[1] = opening
          BY <4>1
        <5> HIDE DEF txs
        <5>2. 1 \in DOMAIN txs
          BY <5>1
        <5>3. opening.keys \subseteq KeysOf(txs)
          BY <5>1, <5>2 DEF KeysOf
        <5> QED
          BY <5>3 DEF txs
      <4>4. u \notin opening.keys
        BY <4>1, <4>2, <4>3, PartiesByKeys DEF Parties
      <4>5. log[i].key = opening.key /\ u \notin log[i].keys
        BY <1>2, <2>2, <4>2, <4>4 DEF KindOf
      <4>6. opening.key # None
        <5>1. opening \in Openings
          BY <1>1 DEF IInv, NothingMade
        <5>2. opening.key \in Keys
          BY <4>2, <5>1, OpeningShape
        <5> QED
          BY <5>2, TransactionManagerAssumption
      <4>7. log[i].form # "clear"
        BY <2>2, <4>5, <4>6 DEF WellFormed
      <4> QED
        BY <2>2, <4>5, <4>6, <4>7 DEF Readable, LooksEncrypted, KeyFor, Start, Unknown
    <3> QED
      BY <3>3, <3>4
  <2> QED
    BY <2>2, <2>3, <2>4
<1> HIDE DEF key
<1> QED
  BY <1>1, <1>2, ReadsNothing DEF key

(***************************************************************************)
(* Whatever is confirmed, in whatever order: a party whom nothing misled   *)
(* before he was one reads the whole channel and nothing else, and who is  *)
(* no party, and was not misled, reads nothing.                            *)
(***************************************************************************)
LEMMA ReadersAreParties ==
    ASSUME IInv, NEW u \in Users, Undisturbed(u, opening, log)
    PROVE  DecryptAndCleanChannel(log, u) = (IF u \in Parties THEN Contents ELSE << >>)
<1>1. u \in Parties => IsOpen
  BY DEF Parties, PartiesOf, IsOpen
<1> QED
  BY <1>1, PartyReads, StrangerReadsNothing

THEOREM PartiesAlwaysRead == Spec => []PartiesRead
<1>1. IInv => PartiesRead
  BY ReadersAreParties DEF PartiesRead
<1> QED
  BY <1>1, Invariance, PTL

(***************************************************************************)
(* Of an encrypted channel, whoever is given its key by no transaction of  *)
(* the log learns no key of it and reads nothing, whatever others persist  *)
(* and even if they mislead him.                                           *)
(***************************************************************************)
LEMMA UnnamedReadNothing ==
    ASSUME IInv, opening # None, opening.form = "encrypted", NEW u \in Users \ KeyHolders
    PROVE  /\ GetChannelTypeAndChannelKey(log, u).key # opening.key
           /\ DecryptAndCleanChannel(log, u) = << >>
<1> DEFINE key == GetChannelTypeAndChannelKey(log, u).key
<1>1. /\ log \in Seq(Transaction) /\ opening.key # None
      /\ \A i \in 1 .. Len(log) : WellFormed(log[i]) /\ KindOf(opening, log[i])
  BY LogKinds, OpeningShape, TransactionManagerAssumption DEF IInv, AllOfKind
<1>2. ASSUME NEW i \in 1 .. Len(log), log[i].key = opening.key
      PROVE  ~HasEntry(log[i], u)
  BY <1>1, <1>2 DEF KeyHolders, HasEntry, ToSet
<1>3. key # opening.key
  BY <1>1, <1>2, KeyNeedsEntry
<1> HIDE DEF key
<1>4. ASSUME NEW i \in 1 .. Len(log), log[i].data = Opening
      PROVE  ~Readable(log[i], Start(key).known, u)
  <2>1. log[i].key = opening.key /\ WellFormed(log[i])
    BY <1>1, <1>4 DEF KindOf
  <2>2. log[i].form = "encrypted"
    BY <1>1, <2>1 DEF WellFormed
  <2>3. u \notin log[i].keys \cap Providers
    BY <1>2, <2>1, <2>2 DEF HasEntry
  <2> QED
    BY <1>1, <1>3, <2>1, <2>2, <2>3
       DEF Readable, LooksEncrypted, KeyFor, Start, Unknown
<1>5. DecryptAndCleanChannel(log, u) = << >>
  BY <1>1, <1>4, ReadsNothing DEF key
<1> QED
  BY <1>3, <1>5 DEF key

THEOREM OnlyNamedEverRead == Spec => []OnlyNamedRead
<1>1. IInv => OnlyNamedRead
  BY UnnamedReadNothing DEF OnlyNamedRead
<1> QED
  BY <1>1, Invariance, PTL

-----------------------------------------------------------------------------
(***************************************************************************)
(* The refinement of Channel.  The history variables are the undisturbed   *)
(* parties and the contents.                                               *)
(***************************************************************************)
MembersNow == Members(opening, log)

HistoryInv == parties = MembersNow /\ contents = Contents

(* A party whom nothing misled stays one, whatever follows.                *)
LEMMA UndisturbedStays ==
    ASSUME NEW op, NEW txs \in Seq(Transaction), NEW tx \in Transaction, NEW u
    PROVE  /\ Undisturbed(u, op, Append(txs, tx)) => Undisturbed(u, op, txs)
           /\ u \in PartiesOf(ChannelOf(op, txs)) /\ Undisturbed(u, op, txs)
                  => Undisturbed(u, op, Append(txs, tx))
<1> DEFINE more == Append(txs, tx)
<1>1. /\ more \in Seq(Transaction) /\ Len(txs) \in Nat /\ Len(more) = Len(txs) + 1
      /\ more[Len(txs) + 1] = tx /\ \A i \in 1 .. Len(txs) : more[i] = txs[i]
  OBVIOUS
<1> HIDE DEF more
<1>2. PICK c : IsChannelTrace(c, op, more) /\ ChannelOf(op, more) = c[Len(more)]
  BY <1>1, ChannelTrace
<1>3. IsChannelTrace(c, op, txs)
  BY <1>1, <1>2 DEF IsChannelTrace
<1>4. ChannelOf(op, txs) = c[Len(txs)]
  BY <1>1, <1>2, PrefixChannel
<1>5. /\ Undisturbed(u, op, more)
             <=> \A n \in 1 .. Len(more) : Harmless(more[n], u, op, c[n - 1])
      /\ Undisturbed(u, op, txs)
             <=> \A n \in 1 .. Len(txs) : Harmless(txs[n], u, op, c[n - 1])
  BY <1>1, <1>2, <1>3, UndisturbedTrace
<1>6. /\ \A n \in 1 .. Len(more) : n \in 1 .. Len(txs) \/ n = Len(txs) + 1
      /\ \A n \in 1 .. Len(txs) : n \in 1 .. Len(more)
      /\ (Len(txs) + 1) - 1 = Len(txs)
  BY <1>1
<1>7. u \in PartiesOf(c[Len(txs)]) => Harmless(tx, u, op, c[Len(txs)])
  BY DEF Harmless
<1>8. Undisturbed(u, op, more) => Undisturbed(u, op, txs)
  BY <1>1, <1>5, <1>6
<1>9. u \in PartiesOf(ChannelOf(op, txs)) /\ Undisturbed(u, op, txs)
          => Undisturbed(u, op, more)
  BY <1>1, <1>4, <1>5, <1>6, <1>7
<1> QED
  BY <1>8, <1>9 DEF more

(***************************************************************************)
(* What the lemmas say of a state, to be used of the next one too.         *)
(***************************************************************************)
Facts ==
    /\ log \in Seq(Transaction)
    /\ log = << >> => ~IsOpen /\ ChannelTransactions = << >>
    /\ MembersNow \subseteq Users
    /\ \A u \in MembersNow : DecryptAndCleanChannel(log, u) = Contents

LEMMA FactsHold == IInv => Facts
<1> SUFFICES ASSUME IInv PROVE Facts
  OBVIOUS
<1>1. ASSUME NEW u \in MembersNow
      PROVE  /\ u \in Users /\ u \in Parties /\ Undisturbed(u, opening, log)
  BY TransactionManagerAssumption
     DEF MembersNow, Members, Parties, ChannelTransactions, PartiesOf
<1>2. \A u \in MembersNow : DecryptAndCleanChannel(log, u) = Contents
  BY <1>1, ReadersAreParties
<1>3. log = << >> => ChannelTransactions = << >>
  BY ExtendingFold, Extending!FoldEmpty DEF ChannelTransactions
<1> QED
  BY <1>1, <1>2, <1>3, LogKinds DEF Facts, IsOpen

(* Without transactions there are no parties and no contents.              *)
LEMMA NothingInLog ==
    /\ Facts /\ log = << >> => MembersNow = {} /\ Contents = << >>
    /\ Facts' /\ log' = << >> => MembersNow' = {} /\ Contents' = << >>
<1>1. ContentsOf(<< >>) = << >>
  BY DEF ContentsOf
<1>2. ASSUME Facts, log = << >> PROVE MembersNow = {} /\ Contents = << >>
  BY <1>1, <1>2, PartiesOfNothing
     DEF Facts, MembersNow, Members, ChannelTransactions, Contents
<1>3. ASSUME Facts', log' = << >> PROVE MembersNow' = {} /\ Contents' = << >>
  BY <1>1, <1>3, PartiesOfNothing
     DEF Facts, MembersNow, Members, ChannelTransactions, Contents
<1> QED
  BY <1>2, <1>3

(* A log that grows is the log with one transaction more, of the same      *)
(* opening; that of a request is made when the log is empty.               *)
LEMMA LogGrows ==
    ASSUME IInv, Next
    PROVE  /\ log' # log => \E tx \in Transaction : log' = Append(log, tx)
           /\ opening' = opening \/ (log = << >> /\ log' = log)
<1>1. ASSUME NEW tx \in submitted, Confirm(tx)
      PROVE  (\E t \in Transaction : log' = Append(log, t)) /\ opening' = opening
  BY <1>1 DEF Confirm, IInv, TypeOK, WellFormed
<1>2. ASSUME NEW tx \in Strays, Stray(tx)
      PROVE  (\E t \in Transaction : log' = Append(log, t)) /\ opening' = opening
  BY <1>2, TransactionManagerAssumption DEF Stray, WellFormed
<1>3. ASSUME NEW tx \in submitted \cup ToSet(log), NEW keys \in {tx.keys, {}},
             NEW method \in {tx.method, FALSE}, Copy(tx, keys, method)
      PROVE  (\E t \in Transaction : log' = Append(log, t)) /\ opening' = opening
  <2>1. tx \in Transaction
    BY DEF ToSet, IInv, TypeOK, WellFormed
  <2>2. [tx EXCEPT !.keys = keys, !.method = method] \in Transaction
    BY <2>1 DEF Transaction
  <2> QED
    BY <1>3, <2>2 DEF Copy
<1>4. ASSUME NEW u \in Users, MakeOpening(u)
      PROVE  log = << >> /\ log' = log
  BY <1>4 DEF MakeOpening, IInv, NothingMade
<1>5. ASSUME NEW u \in Users, NEW data \in Updates, NEW added \in Groups,
             MakeUpdate(u, data, added)
      PROVE  log' = log /\ opening' = opening
  BY <1>5 DEF MakeUpdate
<1>6. ASSUME NEW u \in Users, Submit(u) PROVE log' = log /\ opening' = opening
  BY <1>6 DEF Submit
<1>7. ASSUME NEW tx \in submitted, Fail(tx) PROVE log' = log /\ opening' = opening
  BY <1>7 DEF Fail
<1>8. CASE RemovePending
  BY <1>8 DEF RemovePending
<1> QED
  BY <1>1, <1>2, <1>3, <1>4, <1>5, <1>6, <1>7, <1>8 DEF Next

LEMMA SameState ==
    ASSUME UNCHANGED << log, opening >>
    PROVE  MembersNow' = MembersNow /\ Contents' = Contents
  BY DEF MembersNow, Contents, ChannelTransactions

(* The history variables keep to the members and the contents.             *)
LEMMA HistoryFollows ==
    ASSUME IInv, Facts, Facts', HistoryInv, HistoryNext
    PROVE  HistoryInv'
<1>0. opening' = opening \/ (log = << >> /\ log' = log)
  BY LogGrows DEF HistoryNext
<1>1. CASE log' = log
  <2>1. parties' = parties /\ contents' = contents
    BY <1>1 DEF HistoryNext
  <2>2. CASE opening' = opening
    BY <1>1, <2>1, <2>2, SameState DEF HistoryInv
  <2>3. CASE log = << >>
    <3>1. MembersNow = {} /\ Contents = << >>
      BY <2>3, NothingInLog
    <3>2. (MembersNow = {} /\ Contents = << >>)'
      BY <1>1, <2>3, NothingInLog
    <3> QED
      BY <2>1, <3>1, <3>2 DEF HistoryInv
  <2> QED
    BY <1>0, <2>2, <2>3
<1>2. CASE log' # log
  <2>1. opening' = opening
    BY <1>0, <1>2
  <2>2. parties' = MembersNow'
    BY <1>2, <2>1 DEF HistoryNext, MembersNow
  <2>3. contents' = Contents'
    <3>1. CASE parties' = {}
      BY <1>2, <2>1, <3>1 DEF HistoryNext, Contents, ChannelTransactions
    <3>2. CASE parties' # {}
      <4>1. (CHOOSE u \in parties' : TRUE) \in MembersNow'
        BY <2>2, <3>2
      <4>2. contents' = DecryptAndCleanChannel(log', CHOOSE u \in parties' : TRUE)
        BY <1>2, <3>2 DEF HistoryNext
      <4>3. \A u \in MembersNow' : DecryptAndCleanChannel(log', u) = Contents'
        BY DEF Facts
      <4> QED
        BY <4>1, <4>2, <4>3
    <3> QED
      BY <3>1, <3>2
  <2> QED
    BY <2>2, <2>3 DEF HistoryInv
<1> QED
  BY <1>1, <1>2

LEMMA StepRefines ==
    ASSUME IInv, Facts, Facts', HistoryInv, HistoryInv', HistoryNext
    PROVE  [Abstract!Next]_<< parties, contents >>
<1> SUFFICES ASSUME log' # log
             PROVE  Abstract!Next \/ (parties' = parties /\ contents' = contents)
  BY DEF HistoryNext
<1>1. PICK tx \in Transaction : log' = Append(log, tx)
  BY LogGrows DEF HistoryNext
<1> DEFINE old == ChannelOf(opening, log)
           new == ChannelOf(opening, log')
<1>2. log \in Seq(Transaction) /\ opening' = opening /\ log' \in Seq(Transaction)
  BY LogKinds, LogGrows DEF HistoryNext, Facts
<1>3. new = Extended(opening, old, tx)
  <2>1. Extending!Fold(opening, 0, << >>, Append(log, tx))
            = ExtendStep(opening, 0, Extending!Fold(opening, 0, << >>, log), tx)
    BY <1>2, Extending!FoldAppend
  <2> QED
    BY <1>1, <2>1, ExtendingFold DEF ExtendStep
<1>4. old \in Seq(Transaction) /\ new \in Seq(Transaction)
      /\ (old # << >> => old[1] = opening)
  BY <1>2, ChannelType
<1>5. /\ parties = {u \in PartiesOf(old) : Undisturbed(u, opening, log)}
      /\ parties' = {u \in PartiesOf(new) : Undisturbed(u, opening, log')}
      /\ contents = ContentsOf(old) /\ contents' = ContentsOf(new)
      /\ parties' \subseteq Users
  BY <1>2 DEF HistoryInv, MembersNow, Members, Contents, ChannelTransactions, Facts
<1>6. ASSUME NEW u
      PROVE  /\ Undisturbed(u, opening, log') => Undisturbed(u, opening, log)
             /\ u \in PartiesOf(old) /\ Undisturbed(u, opening, log)
                    => Undisturbed(u, opening, log')
  BY <1>1, <1>2, UndisturbedStays
<1> HIDE DEF old, new
<1>7. CASE new = old
  BY <1>5, <1>6, <1>7
<1>8. CASE old = << >> /\ new # old
  <2>1. tx = opening /\ new = << tx >>
    BY <1>3, <1>8 DEF Extended
  <2>2. opening.data = Opening
    <3>1. log' # << >>
      BY <1>1, <1>2
    <3>2. IInv'
      BY NextIInv DEF HistoryNext
    <3>3. opening' \in Openings
      BY <3>1, <3>2 DEF IInv, NothingMade
    <3> QED
      BY <1>2, <3>3, OpeningShape
  <2>3. contents' = << Opening >>
    BY <1>5, <2>1, <2>2 DEF ContentsOf
  <2>4. contents = << >>
    BY <1>5, <1>8 DEF ContentsOf
  <2> QED
    BY <1>5, <2>3, <2>4 DEF Abstract!Next, Abstract!Open
<1>9. CASE old # << >> /\ new # old
  <2>1. Belongs(tx, opening) /\ new = Append(old, tx)
    BY <1>3, <1>9 DEF Extended
  <2>2. contents' = Append(contents, tx.data)
    BY <1>4, <1>5, <2>1, AppendAdds
  <2>3. PartiesOf(new) = IF old[1].form = "clear" THEN Users
                         ELSE PartiesOf(old) \cup (Providers \cap tx.keys)
    BY <1>4, <1>9, <2>1, PartiesGrow
  <2>4. PartiesOf(old) \subseteq PartiesOf(new)
    BY <1>9, <2>3 DEF PartiesOf
  <2>5. tx.data \in Updates \cup {Opening}
    BY <2>1 DEF Belongs, Transaction
  <2>6. contents # << >>
    <3>1. 1 \in DOMAIN old
      BY <1>4, <1>9
    <3>2. DOMAIN ContentsOf(old) # {}
      BY <3>1 DEF ContentsOf
    <3> QED
      BY <1>5, <3>2
  <2>7. parties \subseteq parties'
    BY <1>5, <1>6, <2>4
  <2> QED
    BY <1>5, <2>2, <2>5, <2>6, <2>7 DEF Abstract!Next, Abstract!AddData
<1> QED
  BY <1>7, <1>8, <1>9

(***************************************************************************)
(* The channel implements its abstract specification: what its undisturbed *)
(* parties read grows by one transaction at a time, from the opening on,   *)
(* and none of them ceases to be one, whatever others persist.             *)
(***************************************************************************)
THEOREM Refinement == HistorySpec => ImplementsChannel
<1>1. HistoryInit => IInv
  BY InitIInv DEF HistoryInit
<1>2. Facts /\ HistoryInit => HistoryInv /\ Abstract!Init
  BY NothingInLog DEF HistoryInit, Init, HistoryInv, Abstract!Init
<1>3. IInv /\ [HistoryNext]_<< vars, parties, contents >> => IInv'
  BY NextIInv DEF HistoryNext, vars
<1>4. IInv /\ Facts /\ Facts' /\ HistoryInv /\ [HistoryNext]_<< vars, parties, contents >>
      => HistoryInv'
  <2> SUFFICES ASSUME IInv, Facts, Facts', HistoryInv,
                      [HistoryNext]_<< vars, parties, contents >>
               PROVE  HistoryInv'
    OBVIOUS
  <2>1. CASE UNCHANGED << vars, parties, contents >>
    BY <2>1, SameState DEF HistoryInv, vars
  <2>2. CASE HistoryNext
    BY <2>2, HistoryFollows
  <2> QED
    BY <2>1, <2>2
<1>5. IInv /\ Facts /\ Facts' /\ HistoryInv /\ HistoryInv'
          /\ [HistoryNext]_<< vars, parties, contents >>
      => [Abstract!Next]_<< parties, contents >>
  <2> SUFFICES ASSUME IInv, Facts, Facts', HistoryInv, HistoryInv',
                      [HistoryNext]_<< vars, parties, contents >>
               PROVE  [Abstract!Next]_<< parties, contents >>
    OBVIOUS
  <2>1. CASE UNCHANGED << vars, parties, contents >>
    BY <2>1
  <2>2. CASE HistoryNext
    BY <2>2, StepRefines
  <2> QED
    BY <2>1, <2>2
<1> QED
  BY <1>1, <1>2, <1>3, <1>4, <1>5, FactsHold, PTL
     DEF HistorySpec, ImplementsChannel, Abstract!Spec, Abstract!vars
=============================================================================
