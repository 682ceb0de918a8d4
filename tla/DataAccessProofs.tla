--------------------------- MODULE DataAccessProofs ---------------------------
(***************************************************************************)
(* Theorems of DataAccess, for every set of calls, readers and channels.   *)
(*                                                                         *)
(* KnownIsReturned is about finished reads.  ReadsKeepUp strengthens it to *)
(* the reads under way: what was known when one began has been indexed     *)
(* since, or is the item it holds, and is of its channel.  The subgraph    *)
(* only grows, so nobody else's step can break it.                         *)
(***************************************************************************)
EXTENDS DataAccess, TLAPS

Keeps(read) ==
    /\ read.pc \in {"lookup", "query"} /\ read.channel # None =>
           \A c \in read.known :
               Channel[c] = read.channel /\ (c \in indexed \/ read.item = c)
    /\ read.pc = "done" /\ read.channel # None =>
           read.known \subseteq Returned(read)
    /\ read.pc \in {"lookup", "query"} => read.channel \in Channels
    /\ read.pc \in {"topic", "topicPending"} => read.channel = None

ReadsKeepUp == \A r \in Readers \cup Calls : Keeps(reads[r])

StoreOK == \A ch \in Channels : pendingStore[ch] # None => Channel[pendingStore[ch]] = ch

IInv == TypeOK /\ StoreOK /\ ReadsKeepUp

LEMMA InitIInv == Init => IInv
BY CallsAssumption DEF Init, IInv, TypeOK, StoreOK, ReadsKeepUp, Keeps, NoRead, NewRead,
   Read, Returned

(***************************************************************************)
(* Facts about single reads.                                               *)
(***************************************************************************)
LEMMA StartedRead ==
    ASSUME IInv, NEW ch \in Channels
    PROVE  /\ Started(ch) \in Read
           /\ Keeps(Started(ch))
           /\ Started(ch).pc = "lookup" => Started(ch).item # None
<1>1. pendingStore[ch] \in Calls \cup {None}
  BY DEF IInv, TypeOK
<1>2. KnownIn(ch) \subseteq Calls
  BY DEF KnownIn
<1> QED
  BY <1>1, <1>2 DEF Started, NewRead, Read, Keeps, KnownIn, Indexed

(* A step that leaves the reads alone and forgets nothing indexed.         *)
LEMMA ReadsUndisturbed ==
    ASSUME ReadsKeepUp, indexed \subseteq indexed', UNCHANGED reads
    PROVE  ReadsKeepUp'
BY DEF ReadsKeepUp, Keeps, Returned

(* A step that replaces one read by another that keeps up.                 *)
LEMMA OneRead ==
    ASSUME IInv, NEW r \in Readers \cup Calls, NEW read \in Read,
           Keeps(read), read.pc = "lookup" => read.item # None,
           UNCHANGED indexed, reads' = [reads EXCEPT ![r] = read]
    PROVE  /\ ReadsKeepUp'
           /\ reads' \in [Readers \cup Calls -> Read]
           /\ \A s \in Readers \cup Calls :
                  reads'[s].pc = "lookup" => reads'[s].item # None
<1>1. reads \in [Readers \cup Calls -> Read]
  BY DEF IInv, TypeOK
<1>2. \A s \in Readers \cup Calls : reads'[s] = IF s = r THEN read ELSE reads[s]
  BY <1>1
<1>3. \A s \in Readers \cup Calls : Keeps(reads[s])'
  BY <1>2 DEF IInv, ReadsKeepUp, Keeps, Returned
<1> QED
  BY <1>1, <1>2, <1>3 DEF IInv, TypeOK, ReadsKeepUp

-----------------------------------------------------------------------------
(***************************************************************************)
(* The steps of a read.                                                    *)
(***************************************************************************)
LEMMA GetChannelIInv ==
    ASSUME IInv, NEW r \in Readers, NEW ch \in Channels,
           GetTransactionsByChannelId(r, ch)
    PROVE  IInv'
<1>1. /\ reads' = [reads EXCEPT ![r] = Started(ch)]
      /\ UNCHANGED << call, chain, indexed, pendingStore, retries >>
  BY DEF GetTransactionsByChannelId
<1>2. /\ ReadsKeepUp'
      /\ reads' \in [Readers \cup Calls -> Read]
      /\ \A s \in Readers \cup Calls :
             reads'[s].pc = "lookup" => reads'[s].item # None
  BY <1>1, StartedRead, OneRead
<1> QED
  BY <1>1, <1>2 DEF IInv, TypeOK, StoreOK

LEMMA GetPendingIInv ==
    ASSUME IInv, NEW r \in Readers \cup Calls, GetPending(r)
    PROVE  IInv'
<1> DEFINE read == reads[r]
<1>1. /\ read \in Read /\ Keeps(read)
      /\ read.pc = "lookup"
      /\ UNCHANGED << call, chain, indexed, retries >>
  BY DEF IInv, TypeOK, ReadsKeepUp, GetPending
<1>2. reads \in [Readers \cup Calls -> Read]
  BY DEF IInv, TypeOK
<1>3. CASE Indexed(read.item)
  <2> DEFINE found == [read EXCEPT !.pc = "query", !.item = None]
  <2>1. reads' = [reads EXCEPT ![r] = found]
    BY <1>2, <1>3 DEF GetPending
  <2>2. found \in Read /\ Keeps(found) /\ found.pc # "lookup"
    BY <1>1, <1>3 DEF Read, Keeps, Indexed
  <2>3. /\ ReadsKeepUp'
        /\ reads' \in [Readers \cup Calls -> Read]
        /\ \A s \in Readers \cup Calls :
               reads'[s].pc = "lookup" => reads'[s].item # None
    <3> HIDE DEF found, read
    <3> QED
      BY <1>1, <2>1, <2>2, OneRead
  <2>4. pendingStore' = [pendingStore EXCEPT ![read.channel] = None]
    BY <1>3 DEF GetPending
  <2>5. pendingStore' \in [Channels -> Calls \cup {None}] /\ StoreOK'
    BY <2>4 DEF IInv, TypeOK, StoreOK
  <2> QED
    BY <1>1, <2>3, <2>5 DEF IInv, TypeOK
<1>4. CASE ~Indexed(read.item)
  <2> DEFINE missed == [read EXCEPT !.pc = "query"]
  <2>1. reads' = [reads EXCEPT ![r] = missed] /\ UNCHANGED pendingStore
    BY <1>2, <1>4 DEF GetPending
  <2>2. missed \in Read /\ Keeps(missed) /\ missed.pc # "lookup"
    BY <1>1 DEF Read, Keeps
  <2>3. /\ ReadsKeepUp'
        /\ reads' \in [Readers \cup Calls -> Read]
        /\ \A s \in Readers \cup Calls :
               reads'[s].pc = "lookup" => reads'[s].item # None
    <3> HIDE DEF missed, read
    <3> QED
      BY <1>1, <2>1, <2>2, OneRead
  <2> QED
    BY <1>1, <2>1, <2>3 DEF IInv, TypeOK, StoreOK
<1> QED
  BY <1>3, <1>4

LEMMA QueryStorageIInv ==
    ASSUME IInv, NEW r \in Readers \cup Calls, QueryStorage(r)
    PROVE  IInv'
<1> DEFINE read == reads[r]
<1>1. /\ read \in Read /\ Keeps(read)
      /\ read.pc = "query"
      /\ reads' = [reads EXCEPT ![r] = Answered(read)]
      /\ UNCHANGED << call, chain, indexed, pendingStore, retries >>
  BY DEF IInv, TypeOK, ReadsKeepUp, QueryStorage
<1>2. indexed \subseteq Calls
  BY DEF IInv, TypeOK
<1>3. /\ Answered(read) \in Read
      /\ Answered(read).pc = "done"
      /\ Answered(read).known = read.known
      /\ Answered(read).channel = read.channel
      /\ Answered(read).confirmed = {c \in indexed : Channel[c] = read.channel}
      /\ Answered(read).pending = {read.item} \ {None}
  BY <1>1, <1>2 DEF Answered, Read
<1>4. Keeps(Answered(read))
  <2>1. read.known \subseteq Calls
    BY <1>1 DEF Read
  <2>2. ASSUME read.channel # None, NEW c \in read.known
        PROVE  c \in Answered(read).confirmed \cup Answered(read).pending
    BY <1>1, <1>3, <2>1, <2>2, CallsAssumption DEF Keeps
  <2> HIDE DEF read
  <2> QED
    BY <1>3, <2>2 DEF Keeps, Returned
<1>5. /\ ReadsKeepUp'
      /\ reads' \in [Readers \cup Calls -> Read]
      /\ \A s \in Readers \cup Calls :
             reads'[s].pc = "lookup" => reads'[s].item # None
  <2> HIDE DEF read
  <2> QED
    BY <1>1, <1>3, <1>4, OneRead
<1> QED
  BY <1>1, <1>5 DEF IInv, TypeOK, StoreOK

LEMMA ByTopicIInv ==
    ASSUME IInv, NEW r \in Readers,
           GetChannelsByTopic(r) \/ QueryTopic(r) \/ FindByTopics(r)
    PROVE  IInv'
<1> DEFINE read == reads[r]
           keptUp(new) == /\ new \in Read /\ Keeps(new) /\ new.pc # "lookup"
                          /\ reads' = [reads EXCEPT ![r] = new]
<1>1. /\ read \in Read /\ Keeps(read)
      /\ reads \in [Readers \cup Calls -> Read]
      /\ indexed \subseteq Calls
      /\ UNCHANGED << call, chain, indexed, pendingStore, retries >>
  BY DEF IInv, TypeOK, ReadsKeepUp, GetChannelsByTopic, QueryTopic, FindByTopics
<1>2. PendingByTopic \subseteq Calls /\ IndexedByTopic \subseteq Calls
  BY <1>1, CallsAssumption DEF PendingByTopic, IndexedByTopic
<1>3. \E new : keptUp(new)
  <2>1. CASE GetChannelsByTopic(r)
    <3>1. keptUp(NewRead("topic", None, None, PendingByTopic \cup IndexedByTopic))
      BY <1>2, <2>1 DEF GetChannelsByTopic, NewRead, Read, Keeps
    <3> QED
      BY <3>1
  <2>2. CASE QueryTopic(r)
    <3>1. keptUp([read EXCEPT !.pc = "topicPending", !.confirmed = IndexedByTopic])
      BY <1>1, <1>2, <2>2 DEF QueryTopic, Read, Keeps
    <3> QED
      BY <3>1
  <2>3. CASE FindByTopics(r)
    <3>1. keptUp([read EXCEPT !.pc = "done",
                              !.confirmed = read.confirmed \cup PendingByTopic])
      BY <1>1, <1>2, <2>3 DEF FindByTopics, Read, Keeps
    <3> QED
      BY <3>1
  <2> QED
    BY <2>1, <2>2, <2>3
<1>4. /\ ReadsKeepUp'
      /\ reads' \in [Readers \cup Calls -> Read]
      /\ \A s \in Readers \cup Calls :
             reads'[s].pc = "lookup" => reads'[s].item # None
  BY <1>1, <1>3, OneRead
<1> QED
  BY <1>1, <1>4 DEF IInv, TypeOK, StoreOK

-----------------------------------------------------------------------------
(***************************************************************************)
(* The steps of a write and of its confirmation.                           *)
(***************************************************************************)
LEMMA WriteIInv ==
    ASSUME IInv, NEW c \in Calls,
           \/ StorageAppend(c) \/ StorageAppendFails(c) \/ PersistTransaction(c)
           \/ Mine(c) \/ Drop(c) \/ Index(c) \/ StorageFails(c)
    PROVE  IInv'
<1>1. /\ UNCHANGED << reads, retries >>
      /\ indexed' \in {indexed, indexed \cup {c}}
  BY DEF StorageAppend, StorageAppendFails, PersistTransaction, Mine, Drop, Index,
         StorageFails
<1>2. ReadsKeepUp'
  BY <1>1, ReadsUndisturbed DEF IInv
<1>3. call' \in [Calls -> {"new", "appending", "rejected", "persisted",
                          "confirming", "confirmed", "error"}]
  BY DEF IInv, TypeOK, StorageAppend, StorageAppendFails, PersistTransaction, Mine,
         Drop, Index, StorageFails
<1>4. chain' \in [Calls -> {"none", "submitted", "mined", "failed"}]
  BY DEF IInv, TypeOK, StorageAppend, StorageAppendFails, PersistTransaction, Mine,
         Drop, Index, StorageFails
<1>5. pendingStore' \in [Channels -> Calls \cup {None}] /\ StoreOK'
  <2>1. CASE PersistTransaction(c)
    <3>1. Channel[c] \in Channels
      BY DEF Channels
    <3> QED
      BY <2>1, <3>1 DEF IInv, TypeOK, StoreOK, PersistTransaction
  <2>2. CASE UNCHANGED pendingStore
    BY <2>2 DEF IInv, TypeOK, StoreOK
  <2> QED
    BY <2>1, <2>2 DEF StorageAppend, StorageAppendFails, Mine, Drop, Index, StorageFails
<1>6. TypeOK'
  BY <1>1, <1>3, <1>4, <1>5 DEF IInv, TypeOK
<1> QED
  BY <1>2, <1>5, <1>6 DEF IInv

LEMMA NoReadKeeps == NoRead \in Read /\ Keeps(NoRead) /\ NoRead.pc # "lookup"
BY DEF NoRead, NewRead, Read, Keeps

LEMMA ConfirmationIInv ==
    ASSUME IInv, NEW c \in Calls,
           FetchConfirmedTransaction(c) \/ EmitConfirmed(c) \/ ReadFails(c)
    PROVE  IInv'
<1>1. Channel[c] \in Channels /\ UNCHANGED << chain, indexed, pendingStore >>
  BY DEF Channels, FetchConfirmedTransaction, EmitConfirmed, ReadFails
<1>2. \/ reads' = [reads EXCEPT ![c] = Started(Channel[c])]
      \/ reads' = [reads EXCEPT ![c] = NoRead]
  BY DEF FetchConfirmedTransaction, EmitConfirmed, ReadFails
<1>3. /\ ReadsKeepUp'
      /\ reads' \in [Readers \cup Calls -> Read]
      /\ \A s \in Readers \cup Calls :
             reads'[s].pc = "lookup" => reads'[s].item # None
  <2>1. CASE reads' = [reads EXCEPT ![c] = Started(Channel[c])]
    BY <1>1, <2>1, StartedRead, OneRead
  <2>2. CASE reads' = [reads EXCEPT ![c] = NoRead]
    BY <1>1, <2>2, NoReadKeeps, OneRead
  <2> QED
    BY <1>2, <2>1, <2>2
<1>4. call' \in [Calls -> {"new", "appending", "rejected", "persisted",
                          "confirming", "confirmed", "error"}]
  BY DEF IInv, TypeOK, FetchConfirmedTransaction, EmitConfirmed, ReadFails, GiveUp
<1>5. retries' \in [Calls -> 0..MaxRetries]
  BY CallsAssumption
     DEF IInv, TypeOK, FetchConfirmedTransaction, EmitConfirmed, ReadFails, GiveUp
<1> QED
  BY <1>1, <1>3, <1>4, <1>5 DEF IInv, TypeOK, StoreOK

LEMMA NextIInv == IInv /\ [Next]_vars => IInv'
<1> SUFFICES ASSUME IInv, [Next]_vars
             PROVE  IInv'
  OBVIOUS
<1>1. CASE UNCHANGED vars
  <2>1. ReadsKeepUp'
    BY <1>1, ReadsUndisturbed DEF IInv, vars
  <2> QED
    BY <1>1, <2>1 DEF vars, IInv, TypeOK, StoreOK
<1>2. CASE Next
  BY <1>2, WriteIInv, ConfirmationIInv, GetChannelIInv, GetPendingIInv,
     QueryStorageIInv, ByTopicIInv DEF Next
<1> QED
  BY <1>1, <1>2

-----------------------------------------------------------------------------
(* The inductive invariant holds in every behaviour.                       *)
THEOREM Invariance == Spec => []IInv
BY InitIInv, NextIInv, PTL DEF Spec

(* The variables keep their types, and a read that looks its item up in    *)
(* the subgraph has one.                                                   *)
THEOREM TypeCorrect == Spec => []TypeOK
<1>1. IInv => TypeOK
  BY DEF IInv
<1> QED
  BY Invariance, <1>1, PTL

(* Whatever is indexed, persisted or removed meanwhile, a read of a        *)
(* channel misses nothing that was indexed or pending when it began.       *)
THEOREM NothingKnownIsMissed == Spec => []KnownIsReturned
<1>1. IInv => KnownIsReturned
  BY DEF IInv, ReadsKeepUp, Keeps, KnownIsReturned
<1> QED
  BY Invariance, <1>1, PTL
=============================================================================
