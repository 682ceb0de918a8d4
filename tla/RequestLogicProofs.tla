-------------------------- MODULE RequestLogicProofs --------------------------
(***************************************************************************)
(* Theorems about RequestLogic, for any actions and a log of any length.   *)
(*                                                                         *)
(* A read is a chain of loops over the channel: sort, filters, the removal *)
(* of duplicates, the interpretation.  Every one of them is a fold, and    *)
(* the log grows at its end, in the order of its timestamps; so what a     *)
(* loop makes of the log is an invariant, and one step of the loop is all  *)
(* that a confirmation adds to it.                                         *)
(* With it, each confirmation is a step of RequestLifecycle or none.       *)
(***************************************************************************)
EXTENDS RequestHistory, SequenceTheorems, TLAPS

(* The loops as folds with a named step.                                   *)
SortStep(unused, unused2, sorted, tx) == InsertByTimestamp(sorted, tx)
Sort == INSTANCE SequenceFolds WITH Op <- SortStep

StateStep(state, unused, kept, tx) ==
    IF tx.state = state THEN Append(kept, tx) ELSE kept
Filter == INSTANCE SequenceFolds WITH Op <- StateStep

ParsableStep(unused, unused2, kept, tx) == KeepParsable(kept, tx)
Parse == INSTANCE SequenceFolds WITH Op <- ParsableStep

NewStep(unused, unused2, kept, tx) == KeepNew(kept, tx)
Unique == INSTANCE SequenceFolds WITH Op <- NewStep

InterpretStep(unused, unused2, r, tx) == Interpret(r, tx)
Interpretation == INSTANCE SequenceFolds WITH Op <- InterpretStep

LEMMA SortFold ==
    ASSUME NEW txs PROVE SortByTimestamp(txs) = Sort!Fold(0, 0, << >>, txs)
  BY DEF SortByTimestamp, SortStep, Sort!Fold, FoldLeft, Sort!FoldLeft,
         MapThenFoldSet, Sort!MapThenFoldSet, Max, Sort!Max

LEMMA FilterFold ==
    ASSUME NEW txs, NEW state
    PROVE  InState(state, txs) = Filter!Fold(state, 0, << >>, txs)
  BY DEF InState, StateStep, Filter!Fold, FoldLeft, Filter!FoldLeft,
         MapThenFoldSet, Filter!MapThenFoldSet, Max, Filter!Max

LEMMA ParseFold ==
    ASSUME NEW txs PROVE Parsable(txs) = Parse!Fold(0, 0, << >>, txs)
  BY DEF Parsable, ParsableStep, Parse!Fold, FoldLeft, Parse!FoldLeft,
         MapThenFoldSet, Parse!MapThenFoldSet, Max, Parse!Max

LEMMA UniqueFold ==
    ASSUME NEW txs PROVE UniqueByAction(txs) = Unique!Fold(0, 0, << >>, txs)
  BY DEF UniqueByAction, NewStep, Unique!Fold, FoldLeft, Unique!FoldLeft,
         MapThenFoldSet, Unique!MapThenFoldSet, Max, Unique!Max

LEMMA InterpretationFold ==
    ASSUME NEW txs, NEW r
    PROVE  Interpreted(r, txs) = Interpretation!Fold(0, 0, r, txs)
  BY DEF Interpreted, InterpretStep, Interpretation!Fold, FoldLeft,
         Interpretation!FoldLeft, MapThenFoldSet, Interpretation!MapThenFoldSet, Max,
         Interpretation!Max

-----------------------------------------------------------------------------
(***************************************************************************)
(* What each loop makes of nothing, and of one transaction more.           *)
(***************************************************************************)
LEMMA Nothing ==
    /\ SortByTimestamp(<< >>) = << >>
    /\ \A state : InState(state, << >>) = << >>
    /\ Parsable(<< >>) = << >>
    /\ UniqueByAction(<< >>) = << >>
    /\ \A r : Interpreted(r, << >>) = r
<1>1. SortByTimestamp(<< >>) = << >>
  BY SortFold, Sort!FoldEmpty
<1>2. ASSUME NEW state PROVE InState(state, << >>) = << >>
  BY FilterFold, Filter!FoldEmpty
<1>3. Parsable(<< >>) = << >>
  BY ParseFold, Parse!FoldEmpty
<1>4. UniqueByAction(<< >>) = << >>
  BY UniqueFold, Unique!FoldEmpty
<1>5. ASSUME NEW r PROVE Interpreted(r, << >>) = r
  BY InterpretationFold, Interpretation!FoldEmpty
<1> QED
  BY <1>1, <1>2, <1>3, <1>4, <1>5

LEMMA OneMore ==
    ASSUME NEW S, NEW txs \in Seq(S), NEW tx \in S
    PROVE  /\ SortByTimestamp(Append(txs, tx))
                  = InsertByTimestamp(SortByTimestamp(txs), tx)
           /\ \A state : InState(state, Append(txs, tx))
                  = IF tx.state = state THEN Append(InState(state, txs), tx)
                                        ELSE InState(state, txs)
           /\ Parsable(Append(txs, tx)) = KeepParsable(Parsable(txs), tx)
           /\ UniqueByAction(Append(txs, tx)) = KeepNew(UniqueByAction(txs), tx)
           /\ \A r : Interpreted(r, Append(txs, tx)) = Interpret(Interpreted(r, txs), tx)
<1>1. SortByTimestamp(Append(txs, tx)) = InsertByTimestamp(SortByTimestamp(txs), tx)
  BY SortFold, Sort!FoldAppend DEF SortStep
<1>2. ASSUME NEW state
      PROVE  InState(state, Append(txs, tx))
                 = IF tx.state = state THEN Append(InState(state, txs), tx)
                                       ELSE InState(state, txs)
  <2>1. Filter!Fold(state, 0, << >>, Append(txs, tx))
            = StateStep(state, 0, Filter!Fold(state, 0, << >>, txs), tx)
    BY Filter!FoldAppend
  <2>2. /\ InState(state, Append(txs, tx)) = Filter!Fold(state, 0, << >>, Append(txs, tx))
        /\ InState(state, txs) = Filter!Fold(state, 0, << >>, txs)
    BY FilterFold
  <2> QED
    BY <2>1, <2>2 DEF StateStep
<1>3. Parsable(Append(txs, tx)) = KeepParsable(Parsable(txs), tx)
  BY ParseFold, Parse!FoldAppend DEF ParsableStep
<1>4. UniqueByAction(Append(txs, tx)) = KeepNew(UniqueByAction(txs), tx)
  BY UniqueFold, Unique!FoldAppend DEF NewStep
<1>5. ASSUME NEW r
      PROVE  Interpreted(r, Append(txs, tx)) = Interpret(Interpreted(r, txs), tx)
  BY InterpretationFold, Interpretation!FoldAppend DEF InterpretStep
<1> QED
  BY <1>1, <1>2, <1>3, <1>4, <1>5

-----------------------------------------------------------------------------
(***************************************************************************)
(* The types of what the loops return.                                     *)
(***************************************************************************)
TxOf(states) == [action: Data, state: states, timestamp: Nat]

LEMMA LoopTypes ==
    ASSUME NEW S, NEW txs \in Seq(S)
    PROVE  /\ \A state : InState(state, txs) \in Seq({tx \in S : tx.state = state})
           /\ Parsable(txs) \in Seq({tx \in S : IsParsable(tx)})
           /\ UniqueByAction(txs) \in Seq(S)
<1>1. ASSUME NEW state PROVE InState(state, txs) \in Seq({tx \in S : tx.state = state})
  <2> DEFINE T == Seq({tx \in S : tx.state = state})
  <2>1. << >> \in T
    OBVIOUS
  <2>2. ASSUME NEW kept \in T, NEW i \in 1 .. Len(txs)
        PROVE  StateStep(state, 0, kept, txs[i]) \in T
    BY <2>2 DEF StateStep
  <2> HIDE DEF T
  <2>3. Filter!Fold(state, 0, << >>, txs) \in T
    BY <2>1, <2>2, Filter!FoldInvariant
  <2> QED
    BY <2>3, FilterFold DEF T
<1>2. Parsable(txs) \in Seq({tx \in S : IsParsable(tx)})
  <2> DEFINE T == Seq({tx \in S : IsParsable(tx)})
  <2>1. << >> \in T
    OBVIOUS
  <2>2. ASSUME NEW kept \in T, NEW i \in 1 .. Len(txs)
        PROVE  ParsableStep(0, 0, kept, txs[i]) \in T
    BY <2>2 DEF ParsableStep, KeepParsable
  <2> HIDE DEF T
  <2>3. Parse!Fold(0, 0, << >>, txs) \in T
    BY <2>1, <2>2, Parse!FoldInvariant
  <2> QED
    BY <2>3, ParseFold DEF T
<1>3. UniqueByAction(txs) \in Seq(S)
  <2> DEFINE T == Seq(S)
  <2>1. << >> \in T
    OBVIOUS
  <2>2. ASSUME NEW kept \in T, NEW i \in 1 .. Len(txs)
        PROVE  NewStep(0, 0, kept, txs[i]) \in T
    BY <2>2 DEF NewStep, KeepNew
  <2> HIDE DEF T
  <2>3. Unique!Fold(0, 0, << >>, txs) \in T
    BY <2>1, <2>2, Unique!FoldInvariant
  <2> QED
    BY <2>3, UniqueFold DEF T
<1> QED
  BY <1>1, <1>2, <1>3

(* A filter keeps a tail all of the state it looks for as it is ...        *)
LEMMA AppendToTail ==
    ASSUME NEW S, NEW s \in Seq(S), NEW t \in Seq(S), NEW e \in S
    PROVE  s \o Append(t, e) = Append(s \o t, e)
OBVIOUS

LEMMA FilterTail ==
    ASSUME NEW S, NEW txs \in Seq(S), NEW state, NEW all \in Seq(S),
           \A i \in 1 .. Len(all) : all[i].state = state
    PROVE  InState(state, txs \o all) = InState(state, txs) \o all
<1> DEFINE Keeps(tail) == InState(state, txs \o tail) = InState(state, txs) \o tail
           Done == {n \in Nat : n <= Len(all) => Keeps(SubSeq(all, 1, n))}
<1>0. InState(state, txs) \in Seq(S) /\ Len(all) \in Nat
  <2>1. InState(state, txs) \in Seq({tx \in S : tx.state = state})
    BY LoopTypes
  <2> QED
    BY <2>1
<1>1. 0 \in Done
  <2>1. SubSeq(all, 1, 0) = << >>
    OBVIOUS
  <2>2. txs \o << >> = txs /\ InState(state, txs) \o << >> = InState(state, txs)
    BY <1>0
  <2>3. Keeps(<< >>)
    BY <2>2
  <2> HIDE DEF Keeps
  <2> QED
    BY <2>1, <2>3
<1>2. ASSUME NEW n \in Nat, n \in Done PROVE n + 1 \in Done
  <2> SUFFICES ASSUME n + 1 <= Len(all) PROVE Keeps(SubSeq(all, 1, n + 1))
    OBVIOUS
  <2> DEFINE front == SubSeq(all, 1, n)
             tail  == SubSeq(all, 1, n + 1)
             last  == all[n + 1]
  <2>1. front \in Seq(S) /\ last \in S /\ last.state = state
    OBVIOUS
  <2>2. tail = Append(front, last)
    OBVIOUS
  <2>3. Keeps(front)
    BY <1>0, <1>2
  <2> HIDE DEF front, last, tail
  <2>5. txs \o front \in Seq(S) /\ txs \o tail = Append(txs \o front, last)
    BY <2>1, <2>2, AppendToTail
  <2>6. InState(state, txs \o tail) = Append(InState(state, txs \o front), last)
    BY <2>1, <2>5, OneMore
  <2>7. InState(state, txs) \o tail = Append(InState(state, txs) \o front, last)
    BY <1>0, <2>1, <2>2, AppendToTail
  <2>8. Keeps(tail)
    BY <2>3, <2>6, <2>7
  <2> QED
    BY <2>8 DEF tail
<1> HIDE DEF Done
<1>3. \A n \in Nat : n \in Done
  BY <1>1, <1>2, Filter!NatInductive
<1>4. SubSeq(all, 1, Len(all)) = all
  OBVIOUS
<1> HIDE DEF Keeps
<1>5. Keeps(all)
  <2>1. Keeps(SubSeq(all, 1, Len(all)))
    BY <1>0, <1>3 DEF Done
  <2> QED
    BY <1>4, <2>1, Zenon
<1> QED
  BY <1>5 DEF Keeps

(* ... and so everything, if everything is.                                *)
LEMMA FilterAll ==
    ASSUME NEW S, NEW state, NEW txs \in Seq(S),
           \A i \in 1 .. Len(txs) : txs[i].state = state
    PROVE  InState(state, txs) = txs
<1> DEFINE none == << >>
<1>1. none \in Seq(S) /\ none \o txs = txs
  OBVIOUS
<1>2. InState(state, none) = none
  BY Nothing
<1> HIDE DEF none
<1>3. InState(state, none \o txs) = InState(state, none) \o txs
  BY <1>1, FilterTail
<1> QED
  BY <1>1, <1>2, <1>3

(* Nothing is left of what is of another state.                            *)
LEMMA FilterNone ==
    ASSUME NEW S, NEW txs \in Seq(S), NEW state, \A tx \in S : tx.state # state
    PROVE  InState(state, txs) = << >>
<1>1. {tx \in S : tx.state = state} = {}
  OBVIOUS
<1>2. InState(state, txs) \in Seq({})
  BY <1>1, LoopTypes
<1> QED
  BY <1>2

-----------------------------------------------------------------------------
(***************************************************************************)
(* Sorting.  A transaction that is inserted splits the sorted ones: it     *)
(* comes last unless the last of them is younger.                          *)
(***************************************************************************)
LEMMA LastIndex ==
    ASSUME NEW n \in Nat, NEW I \in SUBSET (1 .. n), I # {}
    PROVE  Max(I) \in I /\ \A i \in I : i <= Max(I)
  BY Sort!MaxOfIndices DEF Max, Sort!Max

LEMMA Inserted ==
    ASSUME NEW S, NEW sorted \in Seq(S), NEW tx \in S, \A t \in S : t.timestamp \in Nat
    PROVE  \E k \in 0 .. Len(sorted) :
               /\ InsertByTimestamp(sorted, tx)
                      = Append(SubSeq(sorted, 1, k), tx)
                            \o SubSeq(sorted, k + 1, Len(sorted))
               /\ k = Len(sorted) <=>
                      (sorted # << >> => Last(sorted).timestamp <= tx.timestamp)
<1> DEFINE n == Len(sorted)
           I == {i \in 1 .. n : sorted[i].timestamp <= tx.timestamp}
           k == IF I # {} THEN Max(I) ELSE 0
<1>1. n \in Nat /\ I \in SUBSET (1 .. n)
  OBVIOUS
<1>2. I # {} => Max(I) \in I /\ \A i \in I : i <= Max(I)
  BY <1>1, LastIndex
<1>3. k \in 0 .. n
  BY <1>1, <1>2
<1>4. InsertByTimestamp(sorted, tx) = InsertAt(sorted, 1 + k, tx)
  BY DEF InsertByTimestamp, SelectLastInSeq
<1>5. k = n <=> (sorted # << >> => Last(sorted).timestamp <= tx.timestamp)
  <2>1. CASE sorted = << >>
    BY <1>2, <2>1
  <2>2. CASE sorted # << >>
    <3>1. n \in 1 .. n
      BY <2>2
    <3>2. k = n <=> n \in I
      BY <1>1, <1>2, <3>1
    <3> QED
      BY <2>2, <3>1, <3>2 DEF Last
  <2> QED
    BY <2>1, <2>2
<1> HIDE DEF I, k
<1>6. InsertAt(sorted, 1 + k, tx)
          = SubSeq(sorted, 1, k) \o << tx >> \o SubSeq(sorted, k + 1, n)
  <2>1. (1 + k) - 1 = k /\ 1 + k = k + 1
    BY <1>3
  <2> QED
    BY <2>1 DEF InsertAt
<1>7. SubSeq(sorted, 1, k) \o << tx >> = Append(SubSeq(sorted, 1, k), tx)
  BY <1>3
<1> QED
  BY <1>3, <1>4, <1>5, <1>6, <1>7

LEMMA InsertedLast ==
    ASSUME NEW S, NEW sorted \in Seq(S), NEW tx \in S, \A t \in S : t.timestamp \in Nat,
           sorted # << >> => Last(sorted).timestamp <= tx.timestamp
    PROVE  InsertByTimestamp(sorted, tx) = Append(sorted, tx)
<1> DEFINE n == Len(sorted)
<1>1. InsertByTimestamp(sorted, tx) = Append(SubSeq(sorted, 1, n), tx) \o SubSeq(sorted, n + 1, n)
  BY Inserted
<1>2. SubSeq(sorted, 1, n) = sorted /\ SubSeq(sorted, n + 1, n) = << >>
  OBVIOUS
<1>3. Append(sorted, tx) \in Seq(S)
  OBVIOUS
<1>4. Append(sorted, tx) \o << >> = Append(sorted, tx)
  BY <1>3
<1> QED
  BY <1>1, <1>2, <1>4

(***************************************************************************)
(* The removal of old pendings from confirmed transactions and an item.    *)
(***************************************************************************)
LEMMA LastConfirmed ==
    ASSUME NEW S, NEW txs \in Seq(S), NEW n \in 0 .. Len(txs),
           n # 0 => IsConfirmed(txs[n]),
           \A i \in n + 1 .. Len(txs) : ~IsConfirmed(txs[i])
    PROVE  RemoveOldPending(txs)
               = InState("confirmed", SubSeq(txs, 1, n)) \o SubSeq(txs, n + 1, Len(txs))
<1> DEFINE I == {i \in 1 .. Len(txs) : IsConfirmed(txs[i])}
<1>1. Len(txs) \in Nat /\ I \in SUBSET (1 .. Len(txs))
  OBVIOUS
<1>2. I # {} => Max(I) \in I /\ \A i \in I : i <= Max(I)
  BY <1>1, LastIndex
<1>3. (IF I # {} THEN Max(I) ELSE 0) = n
  <2>1. \A i \in I : i <= n
    BY <1>1
  <2>2. n # 0 => n \in I
    BY <1>1
  <2> QED
    BY <1>1, <1>2, <2>1, <2>2
<1>4. SelectLastInSeq(txs, IsConfirmed) = n
  BY <1>3 DEF SelectLastInSeq
<1> QED
  BY <1>4 DEF RemoveOldPending

(***************************************************************************)
(* What a read makes of a log with nothing pending, and with an item that  *)
(* comes last or before the last confirmed transaction.                    *)
(***************************************************************************)
Txs          == TxOf({"confirmed", "pending"})
ConfirmedTxs == TxOf({"confirmed"})

LEMMA TxTypes ==
    /\ \A tx \in ConfirmedTxs : tx \in Txs /\ tx.state = "confirmed" /\ IsConfirmed(tx)
    /\ \A tx \in TxOf({"pending"}) : tx \in Txs /\ tx.state = "pending" /\ ~IsConfirmed(tx)
    /\ \A tx \in Txs : tx.timestamp \in Nat /\ tx.action \in Data
    /\ \A txs \in Seq(ConfirmedTxs) :
           /\ txs \in Seq(Txs)
           /\ \A i \in 1 .. Len(txs) : txs[i].state = "confirmed" /\ IsConfirmed(txs[i])
<1>1. /\ \A tx \in ConfirmedTxs : tx \in Txs /\ tx.state = "confirmed" /\ IsConfirmed(tx)
      /\ \A tx \in TxOf({"pending"}) : tx \in Txs /\ tx.state = "pending" /\ ~IsConfirmed(tx)
      /\ \A tx \in Txs : tx.timestamp \in Nat /\ tx.action \in Data
  BY DEF ConfirmedTxs, Txs, TxOf, IsConfirmed
<1>2. ASSUME NEW txs \in Seq(ConfirmedTxs)
      PROVE  /\ txs \in Seq(Txs)
             /\ \A i \in 1 .. Len(txs) : txs[i].state = "confirmed" /\ IsConfirmed(txs[i])
  <2>1. \A i \in 1 .. Len(txs) : txs[i] \in ConfirmedTxs
    OBVIOUS
  <2>2. ConfirmedTxs \subseteq Txs
    BY <1>1
  <2> QED
    BY <1>1, <2>1, <2>2
<1> QED
  BY <1>1, <1>2

LEMMA SplitAt ==
    ASSUME NEW S, NEW s \in Seq(S), NEW k \in 0 .. Len(s)
    PROVE  /\ SubSeq(s, 1, k) \in Seq(S) /\ SubSeq(s, k + 1, Len(s)) \in Seq(S)
           /\ Len(SubSeq(s, 1, k)) = k /\ Len(SubSeq(s, k + 1, Len(s))) = Len(s) - k
           /\ SubSeq(s, 1, k) \o SubSeq(s, k + 1, Len(s)) = s
<1>1. /\ SubSeq(s, 1, k) \in Seq(S) /\ SubSeq(s, k + 1, Len(s)) \in Seq(S)
      /\ Len(SubSeq(s, 1, k)) = k /\ Len(SubSeq(s, k + 1, Len(s))) = Len(s) - k
  OBVIOUS
<1>2. SubSeq(s, 1, k) \o SubSeq(s, k + 1, Len(s)) = s
  <2>1. 1 \in 1 .. Len(s) + 1 /\ k \in 1 - 1 .. Len(s) /\ Len(s) \in k .. Len(s)
    OBVIOUS
  <2>2. SubSeq(s, 1, k) \o SubSeq(s, k + 1, Len(s)) = SubSeq(s, 1, Len(s))
    BY <2>1, ConcatAdjacentSubSeq
  <2> QED
    BY <2>2, SubSeqFull
<1> QED
  BY <1>1, <1>2

LEMMA AllConfirmed ==
    ASSUME NEW txs \in Seq(ConfirmedTxs)
    PROVE  InState("confirmed", txs) = txs /\ InState("pending", txs) = << >>
<1>1. txs \in Seq(Txs) /\ \A i \in 1 .. Len(txs) : txs[i].state = "confirmed"
  BY TxTypes
<1>2. InState("confirmed", txs) = txs
  BY <1>1, FilterAll
<1>3. \A tx \in ConfirmedTxs : tx.state # "pending"
  BY TxTypes
<1>4. InState("pending", txs) = << >>
  BY <1>3, FilterNone
<1> QED
  BY <1>2, <1>4

LEMMA ConfirmedKept ==
    ASSUME NEW txs \in Seq(ConfirmedTxs) PROVE RemoveOldPending(txs) = txs
<1> DEFINE n == Len(txs)
<1>1. n \in Nat /\ SubSeq(txs, 1, n) = txs /\ SubSeq(txs, n + 1, n) = << >>
      /\ txs \o << >> = txs
  OBVIOUS
<1>2. txs \in Seq(Txs) /\ n \in 0 .. n /\ (n # 0 => IsConfirmed(txs[n]))
  <2>1. n # 0 => n \in 1 .. n
    BY <1>1
  <2> QED
    BY <1>1, <2>1, TxTypes
<1>3. \A i \in n + 1 .. n : ~IsConfirmed(txs[i])
  BY <1>1
<1>4. RemoveOldPending(txs) = InState("confirmed", SubSeq(txs, 1, n)) \o SubSeq(txs, n + 1, n)
  BY <1>2, <1>3, LastConfirmed
<1> QED
  BY <1>1, <1>4, AllConfirmed

LEMMA PendingLastKept ==
    ASSUME NEW txs \in Seq(ConfirmedTxs), NEW item \in TxOf({"pending"})
    PROVE  RemoveOldPending(Append(txs, item)) = Append(txs, item)
<1> DEFINE n   == Len(txs)
           all == Append(txs, item)
<1>1. txs \in Seq(Txs) /\ item \in Txs /\ n \in Nat
  BY TxTypes
<1>2. /\ all \in Seq(Txs) /\ Len(all) = n + 1
      /\ \A i \in 1 .. n : all[i] = txs[i]
      /\ all[n + 1] = item
      /\ SubSeq(all, 1, n) = txs /\ SubSeq(all, n + 1, n + 1) = << item >>
      /\ txs \o << item >> = all
  <2>1. /\ all \in Seq(Txs) /\ Len(all) = n + 1
        /\ \A i \in 1 .. n : all[i] = txs[i]
        /\ all[n + 1] = item
        /\ txs \o << item >> = all
    BY <1>1, AppendProperties, AppendIsConcat
  <2> HIDE DEF all
  <2>2. SubSeq(all, 1, n) = txs
    <3>1. n \in 0 .. Len(all) /\ \A i \in 1 .. n : SubSeq(all, 1, n)[i] = all[i]
      BY <1>1, <2>1
    <3>2. SubSeq(all, 1, n) \in Seq(Txs) /\ Len(SubSeq(all, 1, n)) = n
      BY <2>1, <3>1, SplitAt
    <3> QED
      BY <1>1, <2>1, <3>1, <3>2, SeqEqual
  <2>3. SubSeq(all, n + 1, n + 1) = << item >>
    <3>1. n + 1 \in 1 .. Len(all) /\ n + 1 \in n + 1 .. Len(all)
      BY <1>1, <2>1
    <3>2. SubSeq(all, n + 1, n + 1) = << all[n + 1] >> \o SubSeq(all, n + 1 + 1, n + 1)
      BY <2>1, <3>1, SubSeqRecursiveFirst
    <3>3. SubSeq(all, n + 1 + 1, n + 1) = << >> /\ << item >> \o << >> = << item >>
      BY <1>1
    <3> QED
      BY <2>1, <3>2, <3>3
  <2> QED
    BY <2>1, <2>2, <2>3
<1> HIDE DEF all
<1>3. n \in 0 .. Len(all) /\ (n # 0 => IsConfirmed(all[n]))
  <2>1. n # 0 => n \in 1 .. n
    BY <1>1
  <2> QED
    BY <1>1, <1>2, <2>1, TxTypes
<1>4. \A i \in n + 1 .. Len(all) : ~IsConfirmed(all[i])
  <2>1. \A i \in n + 1 .. n + 1 : i = n + 1
    BY <1>1
  <2> QED
    BY <1>2, <2>1, TxTypes
<1>5. RemoveOldPending(all) = InState("confirmed", SubSeq(all, 1, n)) \o SubSeq(all, n + 1, Len(all))
  BY <1>2, <1>3, <1>4, LastConfirmed
<1> QED
  BY <1>2, <1>5, AllConfirmed DEF all

LEMMA PendingBeforeRemoved ==
    ASSUME NEW txs \in Seq(ConfirmedTxs), NEW item \in TxOf({"pending"}),
           NEW k \in 0 .. Len(txs), k # Len(txs)
    PROVE  RemoveOldPending(Append(SubSeq(txs, 1, k), item) \o SubSeq(txs, k + 1, Len(txs)))
               = txs
<1> DEFINE n     == Len(txs)
           front == SubSeq(txs, 1, k)
           back  == SubSeq(txs, k + 1, n)
           first == Append(front, item)
           all   == first \o back
<1>1. /\ front \in Seq(ConfirmedTxs) /\ back \in Seq(ConfirmedTxs)
      /\ Len(front) = k /\ Len(back) = n - k /\ txs = front \o back
  BY SplitAt
<1>2. n \in Nat /\ n - k \in 1 .. n - k /\ (n + 1) - (k + 1) = n - k
  OBVIOUS
<1> HIDE DEF front, back, n
<1>3. front \in Seq(Txs) /\ back \in Seq(Txs) /\ item \in Txs
  BY <1>1, TxTypes
<1>4. first \in Seq(Txs) /\ Len(first) = k + 1 /\ InState("confirmed", first) = front
  <2>0. item.state # "confirmed"
    BY TxTypes
  <2>1. InState("confirmed", first) = InState("confirmed", front)
    BY <1>3, <2>0, OneMore
  <2> QED
    BY <1>1, <1>3, <2>1, AllConfirmed
<1> HIDE DEF first
<1>5. InState("confirmed", all) = front \o back
  <2>1. \A i \in 1 .. Len(back) : back[i].state = "confirmed"
    BY <1>1, TxTypes
  <2>2. first \in Seq(Txs) /\ back \in Seq(Txs)
    BY <1>3, <1>4
  <2>3. InState("confirmed", first \o back) = InState("confirmed", first) \o back
    BY <2>1, <2>2, FilterTail
  <2> QED
    BY <1>4, <2>3
<1>6. all \in Seq(Txs) /\ Len(all) = n + 1 /\ all[n + 1] = back[n - k]
  <2>1. /\ all \in Seq(Txs) /\ Len(all) = Len(first) + Len(back)
        /\ \A i \in 1 .. Len(first) + Len(back) :
               all[i] = IF i <= Len(first) THEN first[i] ELSE back[i - Len(first)]
    BY <1>3, <1>4, ConcatProperties
  <2>2. k \in Nat /\ n + 1 \in 1 .. (k + 1) + (n - k) /\ ~(n + 1 <= k + 1)
        /\ (k + 1) + (n - k) = n + 1
    BY <1>2
  <2> QED
    BY <1>1, <1>2, <1>4, <2>1, <2>2
<1> HIDE DEF all
<1>7. IsConfirmed(all[n + 1])
  BY <1>1, <1>2, <1>6, TxTypes
<1>8. /\ n + 1 \in 0 .. Len(all)
      /\ \A i \in (n + 1) + 1 .. Len(all) : ~IsConfirmed(all[i])
  BY <1>2, <1>6
<1>9. RemoveOldPending(all)
          = InState("confirmed", SubSeq(all, 1, n + 1)) \o SubSeq(all, (n + 1) + 1, Len(all))
  BY <1>6, <1>7, <1>8, LastConfirmed
<1>10. SubSeq(all, 1, n + 1) = all /\ SubSeq(all, (n + 1) + 1, Len(all)) = << >>
  BY <1>2, <1>6
<1>11. txs \o << >> = txs
  OBVIOUS
<1> QED
  BY <1>1, <1>5, <1>9, <1>10, <1>11 DEF all, first, front, back, n

-----------------------------------------------------------------------------
(***************************************************************************)
(* What is read of a log: the request interpreted from the first of each   *)
(* of its actions.                                                         *)
(***************************************************************************)
Kept(txs)          == UniqueByAction(Parsable(txs))
ReadOf(txs)        == Interpreted(None, Kept(txs))
IsNews(txs, tx)    == /\ IsParsable(tx)
                      /\ \A i \in DOMAIN Kept(txs) : Kept(txs)[i].action # tx.action
ComesLast(txs, tx) == txs # << >> => Last(txs).timestamp <= tx.timestamp

LEMMA KeptType ==
    ASSUME NEW txs \in Seq(ConfirmedTxs)
    PROVE  /\ Kept(txs) \in Seq(ConfirmedTxs)
           /\ \A i \in 1 .. Len(Kept(txs)) : IsParsable(Kept(txs)[i])
<1> DEFINE P == {tx \in ConfirmedTxs : IsParsable(tx)}
<1>1. Kept(txs) \in Seq(P)
  BY LoopTypes DEF Kept
<1>2. P \subseteq ConfirmedTxs /\ \A tx \in P : IsParsable(tx)
  OBVIOUS
<1> HIDE DEF P
<1>3. \A i \in 1 .. Len(Kept(txs)) : Kept(txs)[i] \in P
  BY <1>1
<1>4. Kept(txs) \in Seq(ConfirmedTxs)
  BY <1>1, <1>2, SeqMonotonic
<1> QED
  BY <1>2, <1>3, <1>4

LEMMA KeptMore ==
    ASSUME NEW txs \in Seq(ConfirmedTxs), NEW tx \in Txs
    PROVE  Kept(Append(txs, tx)) = IF IsNews(txs, tx) THEN Append(Kept(txs), tx) ELSE Kept(txs)
<1>1. txs \in Seq(Txs)
  BY TxTypes
<1>2. Parsable(txs) \in Seq(Txs)
  <2>1. Parsable(txs) \in Seq({t \in Txs : IsParsable(t)})
    BY <1>1, LoopTypes
  <2> QED
    BY <2>1
<1>3. Parsable(Append(txs, tx)) = KeepParsable(Parsable(txs), tx)
  BY <1>1, OneMore
<1>4. UniqueByAction(Append(Parsable(txs), tx)) = KeepNew(UniqueByAction(Parsable(txs)), tx)
  BY <1>2, OneMore
<1> QED
  BY <1>3, <1>4 DEF KeepParsable, KeepNew, Kept, IsNews

LEMMA ReadConfirmed ==
    ASSUME NEW txs \in Seq(ConfirmedTxs), SortByTimestamp(txs) = txs
    PROVE  ComputeFromRequestId(txs) = [confirmed |-> ReadOf(txs), pending |-> ReadOf(txs)]
<1>1. ComputeFromRequestId(txs) = ComputeRequestFromTransactions(Kept(txs))
  BY ConfirmedKept DEF ComputeFromRequestId, ComputeFromChannel, Kept
<1>2. Kept(txs) \in Seq(ConfirmedTxs)
  BY KeptType
<1>3. InState("confirmed", Kept(txs)) = Kept(txs) /\ InState("pending", Kept(txs)) = << >>
  BY <1>2, AllConfirmed
<1> QED
  BY <1>1, <1>3, Nothing DEF ComputeRequestFromTransactions, ReadOf

LEMMA ReadPending ==
    ASSUME NEW txs \in Seq(ConfirmedTxs), SortByTimestamp(txs) = txs,
           NEW item \in TxOf({"pending"})
    PROVE  ComputeFromRequestId(Append(txs, item))
               = [confirmed |-> ReadOf(txs),
                  pending   |-> IF ComesLast(txs, item) /\ IsNews(txs, item)
                                THEN Interpret(ReadOf(txs), item) ELSE ReadOf(txs)]
<1> DEFINE sorted == InsertByTimestamp(txs, item)
           Result(kept) == ComputeRequestFromTransactions(UniqueByAction(Parsable(kept)))
<1>1. /\ txs \in Seq(Txs) /\ item \in Txs /\ \A t \in Txs : t.timestamp \in Nat
      /\ item.state = "pending" /\ item.state # "confirmed"
  BY TxTypes
<1>2. ComputeFromRequestId(Append(txs, item)) = Result(RemoveOldPending(sorted))
  <2>1. SortByTimestamp(Append(txs, item)) = sorted
    BY <1>1, OneMore
  <2> QED
    BY <2>1 DEF ComputeFromRequestId, ComputeFromChannel
<1>3. CASE ComesLast(txs, item)
  <2>1. RemoveOldPending(sorted) = Append(txs, item)
    BY <1>1, <1>3, InsertedLast, PendingLastKept DEF ComesLast
  <2>2. Result(Append(txs, item)) = ComputeRequestFromTransactions(Kept(Append(txs, item)))
    BY DEF Kept
  <2>3. Kept(txs) \in Seq(ConfirmedTxs)
    BY KeptType
  <2>4. InState("confirmed", Kept(txs)) = Kept(txs) /\ InState("pending", Kept(txs)) = << >>
    BY <2>3, AllConfirmed
  <2>5. CASE IsNews(txs, item)
    <3>1. Kept(Append(txs, item)) = Append(Kept(txs), item)
      BY <1>1, <2>5, KeptMore
    <3>2. Kept(txs) \in Seq(Txs)
      BY <2>3, TxTypes
    <3>3. /\ InState("confirmed", Append(Kept(txs), item)) = Kept(txs)
          /\ InState("pending", Append(Kept(txs), item)) = << item >>
      <4>1. InState("confirmed", Append(Kept(txs), item)) = InState("confirmed", Kept(txs))
        BY <1>1, <3>2, OneMore
      <4>2. InState("pending", Append(Kept(txs), item))
                = Append(InState("pending", Kept(txs)), item)
        BY <1>1, <3>2, OneMore
      <4>3. Append(<< >>, item) = << item >>
        OBVIOUS
      <4> QED
        BY <2>4, <4>1, <4>2, <4>3
    <3>4. Interpreted(ReadOf(txs), << item >>) = Interpret(ReadOf(txs), item)
      BY InterpretationFold, Interpretation!FoldOne DEF InterpretStep
    <3> QED
      BY <1>2, <1>3, <2>1, <2>2, <2>5, <3>1, <3>3, <3>4
         DEF ComputeRequestFromTransactions, ReadOf
  <2>6. CASE ~IsNews(txs, item)
    <3>1. Kept(Append(txs, item)) = Kept(txs)
      BY <1>1, <2>6, KeptMore
    <3> QED
      BY <1>2, <2>1, <2>2, <2>4, <2>6, <3>1, Nothing
         DEF ComputeRequestFromTransactions, ReadOf
  <2> QED
    BY <2>5, <2>6
<1>4. CASE ~ComesLast(txs, item)
  <2>1. RemoveOldPending(sorted) = txs
    <3>1. PICK k \in 0 .. Len(txs) :
              /\ sorted = Append(SubSeq(txs, 1, k), item) \o SubSeq(txs, k + 1, Len(txs))
              /\ k = Len(txs) <=> ComesLast(txs, item)
      BY <1>1, Inserted DEF ComesLast
    <3> HIDE DEF sorted
    <3> QED
      BY <1>4, <3>1, PendingBeforeRemoved
  <2>2. Result(RemoveOldPending(txs)) = ComputeFromRequestId(txs)
    BY DEF ComputeFromRequestId, ComputeFromChannel
  <2>3. Result(RemoveOldPending(sorted)) = ComputeFromRequestId(txs)
    BY <2>1, <2>2, ConfirmedKept
  <2> QED
    BY <1>2, <1>4, <2>3, ReadConfirmed
<1> QED
  BY <1>3, <1>4

(* One confirmation more is one step of each loop more.                    *)
LEMMA ReadNext ==
    ASSUME NEW txs \in Seq(ConfirmedTxs), SortByTimestamp(txs) = txs,
           NEW tx \in ConfirmedTxs, ComesLast(txs, tx)
    PROVE  /\ Append(txs, tx) \in Seq(ConfirmedTxs)
           /\ SortByTimestamp(Append(txs, tx)) = Append(txs, tx)
           /\ ReadOf(Append(txs, tx)) = IF IsNews(txs, tx) THEN Interpret(ReadOf(txs), tx)
                                        ELSE ReadOf(txs)
<1>1. /\ txs \in Seq(Txs) /\ tx \in Txs /\ \A t \in Txs : t.timestamp \in Nat
      /\ Append(txs, tx) \in Seq(ConfirmedTxs)
  BY TxTypes
<1>2. SortByTimestamp(Append(txs, tx)) = Append(txs, tx)
  <2>1. InsertByTimestamp(txs, tx) = Append(txs, tx)
    BY <1>1, InsertedLast DEF ComesLast
  <2>2. SortByTimestamp(Append(txs, tx)) = InsertByTimestamp(SortByTimestamp(txs), tx)
    BY <1>1, OneMore
  <2> QED
    BY <2>1, <2>2
<1>3. Kept(txs) \in Seq(ConfirmedTxs)
  BY KeptType
<1>4. Interpreted(None, Append(Kept(txs), tx)) = Interpret(Interpreted(None, Kept(txs)), tx)
  BY <1>3, OneMore
<1> QED
  BY <1>1, <1>2, <1>4, KeptMore DEF ReadOf
-----------------------------------------------------------------------------
(***************************************************************************)
(* The inductive invariant.  The log is in the order of its timestamps, so *)
(* that sorting leaves it as it is, and its request is made of its actions:*)
(* every event of the request is the event of an action that was kept, no  *)
(* two of the same one if events tell actions apart, and there are no more *)
(* events than confirmed transactions.                                     *)
(***************************************************************************)
Fields == {"payee", "payer", "creator", "expectedAmount", "state", "extensionsData",
           "extensions", "events"}

IsRequest(r) == DOMAIN r = Fields /\ r.events \in Seq(RequestEvent)

EventsIdentify == \A a, b \in Actions : Event(a) = Event(b) => a = b

Made(r, kept) ==
    r # None =>
        /\ IsRequest(r)
        /\ Len(r.events) <= Len(kept)
        /\ \A i \in 1 .. Len(r.events) :
               \E j \in 1 .. Len(kept) : r.events[i] = Event(kept[j].action)
        /\ EventsIdentify => IsInjective(r.events)

IInv ==
    /\ TypeOK
    /\ SortByTimestamp(log) = log
    /\ log # << >> => Last(log).timestamp <= now
    /\ Len(Kept(log)) <= Len(log)
    /\ Made(ReadOf(log), Kept(log))

LEMMA Types ==
    ASSUME IInv
    PROVE  /\ log \in Seq(ConfirmedTxs) /\ now \in Nat
           /\ pendingItem # None => pendingItem \in TxOf({"pending"})
           /\ None \notin Data
<1>1. 0 .. MaxTime \subseteq Nat
  BY BoundsAssumption
<1>2. [action: Data, state: {"confirmed"}, timestamp: 0 .. MaxTime] \subseteq ConfirmedTxs
  BY <1>1 DEF ConfirmedTxs, TxOf
<1>3. log \in Seq(ConfirmedTxs)
  BY <1>2, SeqMonotonic DEF IInv, TypeOK
<1> QED
  BY <1>1, <1>3, BoundsAssumption DEF IInv, TypeOK, TxOf, Data

(* An action that is applied adds its event and nothing else to them.      *)
LEMMA AppliedEvents ==
    ASSUME NEW r, r # None => IsRequest(r), NEW action \in Action, Accepts(r, action)
    PROVE  /\ DOMAIN Applied(r, action) = Fields
           /\ Applied(r, action).events
                  = IF r = None THEN << Event(action) >> ELSE Append(r.events, Event(action))
           /\ Event(action) \in RequestEvent
<1> DEFINE core == CoreApplied(r, action)
<1>1. /\ DOMAIN core = Fields
      /\ core.events = IF r = None THEN << Event(action) >>
                       ELSE Append(r.events, Event(action))
  BY DEF CoreApplied, CreatedRequest, UpdatedRequest, Recorded, IsRequest, Fields
<1>2. action.name \in ActionNames
  BY DEF Accepts, CoreAccepts, CreateAccepted, UpdateRequestAccepted, AcceptAccepted,
         CancelAccepted, IncreaseAccepted, ReduceAccepted, AddStakeholdersAccepted,
         AddExtensionsDataAccepted, ActionNames, UpdateNames
<1>3. Event(action) \in RequestEvent
  BY <1>2 DEF Event, RequestEvent, Action
<1> HIDE DEF core
<1>4. DOMAIN Applied(r, action) = DOMAIN core /\ Applied(r, action).events = core.events
  BY <1>1 DEF Applied, core, Fields
<1> QED
  BY <1>1, <1>3, <1>4

LEMMA InterpretMade ==
    ASSUME NEW r, NEW kept \in Seq(Txs), Made(r, kept),
           NEW tx \in Txs, IsParsable(tx),
           \A j \in 1 .. Len(kept) : IsParsable(kept[j]) /\ kept[j].action # tx.action
    PROVE  Made(Interpret(r, tx), Append(kept, tx))
<1> DEFINE action == tx.action
           more   == Append(kept, tx)
           made   == Interpret(r, tx)
<1>1. action \in Action /\ action \in Actions
  BY ActionsAssumption DEF Txs, TxOf, Data, IsParsable
<1>2. /\ Len(more) = Len(kept) + 1 /\ Len(kept) \in Nat
      /\ \A j \in 1 .. Len(kept) : more[j] = kept[j]
      /\ more[Len(kept) + 1] = tx
  OBVIOUS
<1>3. CASE ~Accepts(r, action)
  <2>1. made = r
    BY <1>3 DEF Interpret, ApplyOrIgnore
  <2> QED
    BY <1>2, <2>1, SMTT(30) DEF Made, IsRequest
<1>4. CASE Accepts(r, action)
  <2>1. made = Applied(r, action)
    BY <1>4 DEF Interpret, ApplyOrIgnore
  <2>2. /\ DOMAIN made = Fields
        /\ made.events = IF r = None THEN << Event(action) >>
                         ELSE Append(r.events, Event(action))
        /\ Event(action) \in RequestEvent
    BY <1>1, <1>4, <2>1, AppliedEvents DEF Made
  <2> HIDE DEF made, more
  <2>3. ASSUME r = None PROVE Made(made, more)
    <3>1. made.events = << Event(action) >>
      BY <2>2, <2>3
    <3>2. /\ made.events \in Seq(RequestEvent) /\ Len(made.events) = 1
          /\ made.events[1] = Event(action) /\ DOMAIN made.events = {1}
      <4> DEFINE e == Event(action)
      <4>1. e \in RequestEvent
        BY <2>2
      <4> HIDE DEF e
      <4>2. << e >> \in Seq(RequestEvent) /\ Len(<< e >>) = 1 /\ << e >>[1] = e
            /\ DOMAIN << e >> = {1}
        BY <4>1
      <4> QED
        BY <3>1, <4>2 DEF e
    <3>3. \A i \in 1 .. 1 : \E j \in 1 .. Len(more) : made.events[i] = Event(more[j].action)
      <4>1. Len(more) \in 1 .. Len(more) /\ \A i \in 1 .. 1 : i = 1
        BY <1>2
      <4> QED
        BY <1>2, <3>2, <4>1
    <3>4. Len(made.events) <= Len(more)
      BY <1>2, <3>2
    <3>5. IsInjective(made.events)
      BY <3>2 DEF IsInjective
    <3> QED
      BY <2>2, <3>2, <3>3, <3>4, <3>5 DEF Made, IsRequest
  <2>4. ASSUME r # None PROVE Made(made, more)
    <3> DEFINE n == Len(r.events)
    <3>1. r.events \in Seq(RequestEvent) /\ n \in Nat /\ n <= Len(kept)
      BY <2>4 DEF Made, IsRequest
    <3>2. /\ made.events \in Seq(RequestEvent) /\ Len(made.events) = n + 1
          /\ \A i \in 1 .. n : made.events[i] = r.events[i]
          /\ made.events[n + 1] = Event(action)
      BY <2>2, <2>4, <3>1
    <3>3. ASSUME NEW i \in 1 .. n + 1
          PROVE  \E j \in 1 .. Len(more) : made.events[i] = Event(more[j].action)
      <4>1. CASE i = n + 1
        <5>1. Len(more) \in 1 .. Len(more)
          BY <1>2
        <5> QED
          BY <1>2, <3>2, <4>1, <5>1
      <4>2. CASE i # n + 1
        <5>1. i \in 1 .. n
          BY <3>1, <4>2
        <5>2. PICK j \in 1 .. Len(kept) : r.events[i] = Event(kept[j].action)
          BY <2>4, <5>1 DEF Made
        <5>3. j \in 1 .. Len(more)
          BY <1>2
        <5> QED
          BY <1>2, <3>2, <5>1, <5>2, <5>3
      <4> QED
        BY <4>1, <4>2
    <3>4. Len(made.events) <= Len(more)
      BY <1>2, <3>1, <3>2
    <3>5. ASSUME EventsIdentify PROVE IsInjective(made.events)
      <4>1. DOMAIN made.events = 1 .. n + 1 /\ DOMAIN r.events = 1 .. n
        BY <3>1, <3>2
      <4>2. \A i, j \in 1 .. n : r.events[i] = r.events[j] => i = j
        BY <2>4, <3>5, <4>1 DEF Made, IsInjective
      <4>3. ASSUME NEW i \in 1 .. n PROVE made.events[i] # Event(action)
        <5>1. PICK j \in 1 .. Len(kept) : r.events[i] = Event(kept[j].action)
          BY <2>4, <4>3 DEF Made
        <5>2. kept[j].action \in Actions /\ kept[j].action # action
          <6>1. kept[j] \in Txs
            OBVIOUS
          <6> QED
            BY <6>1 DEF Txs, TxOf, Data, IsParsable
        <5> QED
          BY <1>1, <3>2, <3>5, <5>1, <5>2 DEF EventsIdentify
      <4>4. \A i \in 1 .. n + 1 : i \in 1 .. n \/ i = n + 1
        BY <3>1
      <4>5. \A i, j \in 1 .. n + 1 : made.events[i] = made.events[j] => i = j
        BY <3>2, <4>2, <4>3, <4>4
      <4> QED
        BY <4>1, <4>5 DEF IsInjective
    <3> HIDE DEF n
    <3> QED
      BY <2>2, <3>2, <3>3, <3>4, <3>5 DEF Made, IsRequest
  <2>5. Made(made, more)
    BY <2>3, <2>4
  <2> QED
    BY <2>5 DEF made, more
<1> QED
  BY <1>3, <1>4

LEMMA InitIInv == Init => IInv
<1> SUFFICES ASSUME Init PROVE IInv
  OBVIOUS
<1>1. TypeOK
  BY BoundsAssumption DEF Init, TypeOK
<1>2. Kept(log) = << >> /\ ReadOf(log) = None /\ SortByTimestamp(log) = log
  BY Nothing DEF Init, Kept, ReadOf
<1>3. Len(Kept(log)) <= Len(log)
  BY <1>2 DEF Init
<1> QED
  BY <1>1, <1>2, <1>3 DEF IInv, Init, Made

(* The log stays as it is: only types and the clock matter.                *)
LEMMA SameLog ==
    ASSUME IInv, TypeOK', log' = log, now' \in Nat, now <= now'
    PROVE  IInv'
<1>1. log # << >> => Last(log).timestamp \in Nat
  <2>1. log # << >> => Last(log) \in ConfirmedTxs
    BY Types DEF Last
  <2> QED
    BY <2>1, TxTypes
<1>2. log' # << >> => Last(log').timestamp <= now'
  BY <1>1, Types DEF IInv
<1> QED
  BY <1>2 DEF IInv

LEMMA PersistTypes ==
    ASSUME TypeOK, NEW data \in Data, Persist(data)
    PROVE  /\ mempool' \subseteq Data /\ log' = log /\ now' = now
           /\ pendingItem' \in [action: Data, state: {"pending"}, timestamp: Nat]
<1>1. PICK skew \in Skews : pendingItem' = Pending(data, now + skew)
  BY DEF Persist
<1>2. now + skew \in Nat
  BY BoundsAssumption DEF TypeOK
<1> QED
  BY <1>1, <1>2 DEF Persist, Pending, TypeOK

LEMMA ConfirmIInv ==
    ASSUME IInv, NEW data \in mempool, Confirm(data)
    PROVE  IInv'
<1> DEFINE tx == Confirmed(data, now)
<1>1. /\ data \in Data /\ now \in Nat /\ now \in 0 .. MaxTime /\ log \in Seq(ConfirmedTxs)
  BY Types DEF IInv, TypeOK
<1>2. /\ log' = Append(log, tx) /\ mempool' \subseteq Data
      /\ UNCHANGED << pendingItem, writer, now >>
  BY DEF Confirm, IInv, TypeOK
<1>3. /\ tx \in ConfirmedTxs /\ tx \in Txs /\ tx.timestamp = now /\ tx.action = data
      /\ tx \in [action: Data, state: {"confirmed"}, timestamp: 0 .. MaxTime]
  BY <1>1 DEF Confirmed, ConfirmedTxs, Txs, TxOf
<1> HIDE DEF tx
<1>4. TypeOK'
  <2>1. log' \in Seq([action: Data, state: {"confirmed"}, timestamp: 0 .. MaxTime])
    BY <1>2, <1>3 DEF IInv, TypeOK
  <2> QED
    BY <1>2, <2>1 DEF IInv, TypeOK
<1>5. ComesLast(log, tx)
  BY <1>3 DEF IInv, ComesLast
<1>6. /\ SortByTimestamp(log') = log'
      /\ ReadOf(log') = IF IsNews(log, tx) THEN Interpret(ReadOf(log), tx) ELSE ReadOf(log)
  BY <1>1, <1>2, <1>3, <1>5, ReadNext DEF IInv
<1>7. log' # << >> /\ Last(log') = tx /\ Len(log') = Len(log) + 1 /\ Len(log) \in Nat
  BY <1>1, <1>2, <1>3 DEF Last
<1>8. /\ Kept(log') = IF IsNews(log, tx) THEN Append(Kept(log), tx) ELSE Kept(log)
      /\ Kept(log) \in Seq(ConfirmedTxs) /\ Kept(log) \in Seq(Txs)
      /\ DOMAIN Kept(log) = 1 .. Len(Kept(log)) /\ Len(Kept(log)) \in Nat
  <2>1. Kept(log) \in Seq(ConfirmedTxs)
    BY <1>1, KeptType
  <2> QED
    BY <1>1, <1>2, <1>3, <2>1, KeptMore, TxTypes
<1>9. Len(Kept(log')) <= Len(log')
  BY <1>3, <1>7, <1>8 DEF IInv
<1>10. Made(ReadOf(log'), Kept(log'))
  <2>1. CASE IsNews(log, tx)
    <3>1. /\ IsParsable(tx)
          /\ \A j \in 1 .. Len(Kept(log)) :
                 IsParsable(Kept(log)[j]) /\ Kept(log)[j].action # tx.action
      BY <1>1, <1>8, <2>1, KeptType DEF IsNews
    <3> QED
      BY <1>3, <1>6, <1>8, <2>1, <3>1, InterpretMade DEF IInv
  <2>2. CASE ~IsNews(log, tx)
    BY <1>6, <1>8, <2>2 DEF IInv
  <2> QED
    BY <2>1, <2>2
<1>11. log' # << >> => Last(log').timestamp <= now'
  BY <1>1, <1>2, <1>3, <1>7
<1> QED
  BY <1>4, <1>6, <1>9, <1>10, <1>11 DEF IInv

LEMMA NextIInv == IInv /\ [Next]_vars => IInv'
<1> SUFFICES ASSUME IInv, [Next]_vars PROVE IInv'
  OBVIOUS
<1>0. TypeOK /\ now \in Nat /\ now <= now
  BY Types DEF IInv
<1>1. ASSUME NEW action \in Actions, CreateRequest(action) PROVE IInv'
  <2>1. TypeOK' /\ log' = log /\ now' = now
    BY <1>0, <1>1, PersistTypes DEF CreateRequest, TypeOK, Data
  <2> QED
    BY <1>0, <2>1, SameLog
<1>2. ASSUME NEW action \in Actions, Validate(action) PROVE IInv'
  <2>1. TypeOK' /\ log' = log /\ now' = now
    BY <1>0, <1>2 DEF Validate, TypeOK
  <2> QED
    BY <1>0, <2>1, SameLog
<1>3. ASSUME NEW data \in Data, PersistUnchecked(data) PROVE IInv'
  <2>1. TypeOK' /\ log' = log /\ now' = now
    BY <1>0, <1>3, PersistTypes DEF PersistUnchecked, TypeOK
  <2> QED
    BY <1>0, <2>1, SameLog
<1>4. CASE PersistValidated
  <2>1. writer \in Data
    BY <1>0, <1>4 DEF PersistValidated, TypeOK, Data
  <2>2. TypeOK' /\ log' = log /\ now' = now
    BY <1>0, <1>4, <2>1, PersistTypes DEF PersistValidated, TypeOK
  <2> QED
    BY <1>0, <2>2, SameLog
<1>5. ASSUME NEW data \in mempool, Confirm(data) PROVE IInv'
  BY <1>5, ConfirmIInv
<1>6. ASSUME NEW data \in mempool, Fail(data) PROVE IInv'
  <2>1. TypeOK' /\ log' = log /\ now' = now
    BY <1>0, <1>6 DEF Fail, TypeOK
  <2> QED
    BY <1>0, <2>1, SameLog
<1>7. CASE RemovePending
  <2>1. TypeOK' /\ log' = log /\ now' = now
    BY <1>0, <1>7 DEF RemovePending, TypeOK
  <2> QED
    BY <1>0, <2>1, SameLog
<1>8. CASE Tick
  <2>1. now' \in 0 .. MaxTime /\ now' \in Nat /\ now <= now'
    BY <1>0, <1>8, BoundsAssumption DEF Tick, TypeOK
  <2>2. TypeOK' /\ log' = log
    BY <1>0, <1>8, <2>1 DEF Tick, TypeOK
  <2> QED
    BY <2>1, <2>2, SameLog
<1>9. CASE UNCHANGED vars
  <2>1. TypeOK' /\ log' = log /\ now' = now
    BY <1>0, <1>9 DEF vars, TypeOK
  <2> QED
    BY <1>0, <2>1, SameLog
<1> QED
  BY <1>1, <1>2, <1>3, <1>4, <1>5, <1>6, <1>7, <1>8, <1>9 DEF Next

-----------------------------------------------------------------------------
(* The log keeps the order of its timestamps, and the request read from it *)
(* is made of the actions in it.                                           *)
THEOREM Invariance == Spec => []IInv
<1> QED
  BY InitIInv, NextIInv, PTL DEF Spec

(* Confirmed transactions and the pending item have the state and the time *)
(* that the reads look for.                                                *)
THEOREM TypeCorrect == Spec => []TypeOK
<1>1. IInv => TypeOK
  BY DEF IInv
<1> QED
  BY Invariance, <1>1, PTL

(***************************************************************************)
(* The two reads that a client may get, from what was confirmed.           *)
(***************************************************************************)
LEMMA Reads ==
    ASSUME IInv
    PROVE  /\ RequestState(None) = [confirmed |-> ReadOf(log), pending |-> ReadOf(log)]
           /\ \A item \in ItemsSeen :
                  /\ RequestState(item).confirmed = ReadOf(log)
                  /\ \/ RequestState(item).pending = ReadOf(log)
                     \/ /\ item # None /\ item \in Txs /\ IsNews(log, item)
                        /\ RequestState(item).pending = Interpret(ReadOf(log), item)
<1>1. log \in Seq(ConfirmedTxs) /\ SortByTimestamp(log) = log
  BY Types DEF IInv
<1>2. RequestState(None) = [confirmed |-> ReadOf(log), pending |-> ReadOf(log)]
  BY <1>1, ReadConfirmed DEF RequestState, ByChannel
<1>3. ASSUME pendingItem # None
      PROVE  /\ RequestState(pendingItem).confirmed = ReadOf(log)
             /\ pendingItem \in Txs
             /\ \/ RequestState(pendingItem).pending = ReadOf(log)
                \/ /\ IsNews(log, pendingItem)
                   /\ RequestState(pendingItem).pending
                          = Interpret(ReadOf(log), pendingItem)
  <2>1. pendingItem \in TxOf({"pending"})
    BY <1>3, Types
  <2>2. RequestState(pendingItem)
            = [confirmed |-> ReadOf(log),
               pending   |-> IF ComesLast(log, pendingItem) /\ IsNews(log, pendingItem)
                             THEN Interpret(ReadOf(log), pendingItem) ELSE ReadOf(log)]
    BY <1>1, <1>3, <2>1, ReadPending DEF RequestState, ByChannel
  <2> QED
    BY <2>1, <2>2, TxTypes
<1> QED
  BY <1>2, <1>3 DEF ItemsSeen

(* The confirmed request is the one read of the confirmed transactions,    *)
(* whatever is pending and whatever its timestamp (removeOldPending).      *)
THEOREM ConfirmedIsConfirmed == Spec => []ConfirmedIgnoresPending
<1>1. IInv => ConfirmedIgnoresPending
  <2> SUFFICES ASSUME IInv PROVE ConfirmedIgnoresPending
    OBVIOUS
  <2>1. ComputeFromRequestId(log).confirmed = ReadOf(log)
    BY Reads DEF RequestState, ByChannel
  <2>2. RequestState(pendingItem).confirmed = ReadOf(log)
    BY Reads DEF ItemsSeen
  <2> QED
    BY <2>1, <2>2 DEF ConfirmedIgnoresPending
<1> QED
  BY Invariance, <1>1, PTL

(* A pending item that is not older than what is confirmed shows the       *)
(* request as it is once the item is confirmed next.                       *)
THEOREM PendingForecasts == Spec => []PendingIsForecast
<1>1. IInv => PendingIsForecast
  <2> SUFFICES ASSUME IInv, pendingItem # None,
                      log # << >> => Last(log).timestamp <= pendingItem.timestamp
               PROVE  RequestState(pendingItem).pending =
                          ComputeFromRequestId(
                              Append(log, Confirmed(pendingItem.action,
                                                    pendingItem.timestamp))).confirmed
    BY DEF PendingIsForecast
  <2> DEFINE tx == Confirmed(pendingItem.action, pendingItem.timestamp)
  <2>1. log \in Seq(ConfirmedTxs) /\ SortByTimestamp(log) = log
        /\ pendingItem \in TxOf({"pending"})
    BY Types DEF IInv
  <2>2. /\ tx \in ConfirmedTxs /\ tx.timestamp = pendingItem.timestamp
        /\ tx.action = pendingItem.action
    BY <2>1 DEF Confirmed, ConfirmedTxs, TxOf
  <2> HIDE DEF tx
  <2>3. ComesLast(log, tx) /\ ComesLast(log, pendingItem)
    BY <2>2 DEF ComesLast
  <2>4. (IsNews(log, tx) <=> IsNews(log, pendingItem))
        /\ Interpret(ReadOf(log), tx) = Interpret(ReadOf(log), pendingItem)
    BY <2>2 DEF IsNews, IsParsable, Interpret
  <2>5. RequestState(pendingItem).pending
            = IF IsNews(log, pendingItem)
              THEN Interpret(ReadOf(log), pendingItem) ELSE ReadOf(log)
    BY <2>1, <2>3, ReadPending DEF RequestState, ByChannel
  <2>6. /\ Append(log, tx) \in Seq(ConfirmedTxs)
        /\ SortByTimestamp(Append(log, tx)) = Append(log, tx)
        /\ ReadOf(Append(log, tx))
               = IF IsNews(log, tx) THEN Interpret(ReadOf(log), tx) ELSE ReadOf(log)
    BY <2>1, <2>2, <2>3, ReadNext
  <2>7. ComputeFromRequestId(Append(log, tx)).confirmed = ReadOf(Append(log, tx))
    <3> DEFINE more == Append(log, tx)
    <3>1. more \in Seq(ConfirmedTxs) /\ SortByTimestamp(more) = more
      BY <2>6
    <3> HIDE DEF more
    <3>2. ComputeFromRequestId(more) = [confirmed |-> ReadOf(more), pending |-> ReadOf(more)]
      BY <3>1, ReadConfirmed
    <3> QED
      BY <3>2 DEF more
  <2> QED
    BY <2>4, <2>5, <2>6, <2>7 DEF tx
<1> QED
  BY Invariance, <1>1, PTL

(* Where events tell actions apart, no action leaves two events in the     *)
(* request, confirmed or pending, however often it was persisted           *)
(* (uniqueByProperty).                                                     *)
THEOREM NoReplay == ASSUME EventsIdentify PROVE Spec => []AppliedOnce
<1>1. IInv => AppliedOnce
  <2> SUFFICES ASSUME IInv, NEW item \in ItemsSeen, RequestState(item).pending # None
               PROVE  IsInjective(RequestState(item).pending.events)
    BY DEF AppliedOnce
  <2>1. Made(ReadOf(log), Kept(log))
    BY DEF IInv
  <2>2. CASE RequestState(item).pending = ReadOf(log)
    BY <2>1, <2>2 DEF Made
  <2>3. CASE RequestState(item).pending # ReadOf(log)
    <3>1. /\ item \in Txs /\ IsNews(log, item)
          /\ RequestState(item).pending = Interpret(ReadOf(log), item)
      BY <2>3, Reads
    <3>2. /\ Kept(log) \in Seq(Txs)
          /\ \A j \in 1 .. Len(Kept(log)) :
                 IsParsable(Kept(log)[j]) /\ Kept(log)[j].action # item.action
      <4>1. Kept(log) \in Seq(ConfirmedTxs)
            /\ \A j \in 1 .. Len(Kept(log)) : IsParsable(Kept(log)[j])
        BY Types, KeptType
      <4>2. DOMAIN Kept(log) = 1 .. Len(Kept(log))
        BY <4>1
      <4> QED
        BY <3>1, <4>1, <4>2, TxTypes DEF IsNews
    <3>3. Made(Interpret(ReadOf(log), item), Append(Kept(log), item))
      BY <2>1, <3>1, <3>2, InterpretMade DEF IsNews
    <3> QED
      BY <3>1, <3>3 DEF Made
  <2> QED
    BY <2>2, <2>3
<1> QED
  BY Invariance, <1>1, PTL

(* The difference that getRequestFromId returns with the confirmed request *)
(* is enough to restore the pending one.                                   *)
THEOREM NothingIsLost == Spec => []DiffRestoresPending
<1>1. IInv => DiffRestoresPending
  <2> SUFFICES ASSUME IInv, NEW item \in ItemsSeen,
                      RequestState(item).confirmed # None,
                      RequestState(item).pending # RequestState(item).confirmed
               PROVE  LET state == RequestState(item)
                          diff  == ComputeDiff(state.confirmed, state.pending)
                      IN  \A k \in DOMAIN state.confirmed :
                              state.pending[k] =
                                  IF k \notin DOMAIN diff THEN state.confirmed[k]
                                  ELSE IF k = "events"
                                       THEN state.confirmed.events \o diff.events
                                       ELSE diff[k]
    BY DEF DiffRestoresPending, ComputeDiff
  <2> DEFINE c == RequestState(item).confirmed
             p == RequestState(item).pending
             changed == {k \in DOMAIN p : p[k] # c[k]}
             added == SubSeq(p.events, Len(c.events) + 1, Len(p.events))
             diff == ComputeDiff(c, p)
  <2>1. IsRequest(c) /\ c = ReadOf(log)
    BY Reads DEF IInv, Made
  <2>2. /\ item \in Txs /\ IsNews(log, item) /\ p = Interpret(c, item)
    BY <2>1, Reads
  <2>3. /\ DOMAIN p = Fields
        /\ p.events = Append(c.events, Event(item.action))
        /\ Event(item.action) \in RequestEvent
    <3>1. item.action \in Action
      BY <2>2, ActionsAssumption DEF Txs, TxOf, IsNews, IsParsable, Data
    <3>2. Accepts(c, item.action) /\ p = Applied(c, item.action) /\ c # None
      BY <2>2 DEF Interpret, ApplyOrIgnore
    <3> HIDE DEF c, p
    <3> QED
      BY <2>1, <3>1, <3>2, AppliedEvents
  <2>4. diff = [k \in changed |-> IF k = "events" THEN added ELSE p[k]]
    BY DEF ComputeDiff
  <2>5. c.events \o added = p.events
    <3>1. c.events \in Seq(RequestEvent) /\ Len(c.events) \in Nat
      BY <2>1 DEF IsRequest
    <3> DEFINE e == Event(item.action)
               n == Len(c.events)
    <3>2. /\ p.events \in Seq(RequestEvent) /\ Len(p.events) = n + 1
          /\ p.events[n + 1] = e /\ c.events \o << e >> = p.events
      BY <2>3, <3>1, AppendProperties, AppendIsConcat
    <3>3. added = << e >>
      <4>1. n + 1 \in 1 .. Len(p.events) /\ n + 1 \in n + 1 .. Len(p.events)
        BY <3>1, <3>2
      <4>2. SubSeq(p.events, n + 1, n + 1)
                = << p.events[n + 1] >> \o SubSeq(p.events, n + 1 + 1, n + 1)
        BY <3>2, <4>1, SubSeqRecursiveFirst
      <4>3. SubSeq(p.events, n + 1 + 1, n + 1) = << >> /\ << e >> \o << >> = << e >>
        BY <3>1
      <4> QED
        BY <3>2, <4>2, <4>3
    <3> QED
      BY <3>2, <3>3
  <2> HIDE DEF c, p, added, diff
  <2>6. ASSUME NEW k \in DOMAIN c
        PROVE  p[k] = IF k \notin DOMAIN diff THEN c[k]
                      ELSE IF k = "events" THEN c.events \o diff.events ELSE diff[k]
    <3>1. k \in DOMAIN p
      BY <2>1, <2>3 DEF IsRequest
    <3>2. DOMAIN diff = changed
          /\ \A i \in changed : diff[i] = IF i = "events" THEN added ELSE p[i]
      BY <2>4
    <3>3. CASE k \notin changed
      BY <3>1, <3>2, <3>3
    <3>4. CASE k \in changed /\ k # "events"
      BY <3>2, <3>4
    <3>5. CASE k \in changed /\ k = "events"
      BY <2>5, <3>2, <3>5
    <3> QED
      BY <3>3, <3>4, <3>5
  <2> QED
    BY <2>6 DEF c, p, diff
<1> QED
  BY Invariance, <1>1, PTL

-----------------------------------------------------------------------------
(***************************************************************************)
(* Refinement.  RequestLifecycle has rules of its own, which are the ones  *)
(* of RequestCore under another name; the loop over the extensions data is *)
(* a fold on both sides.                                                   *)
(***************************************************************************)
LEMMA SameGetRole ==
    \A identity, parties :
        Lifecycle!GetRole(identity, parties) = GetRole(identity, parties)
  BY DEF GetRole, AreEqualIdentities, Lifecycle!GetRole, Lifecycle!AreEqualIdentities

LEMMA SameCurrencySupported ==
    \A extAction :
        Lifecycle!CurrencySupported(extAction) = CurrencySupported(extAction)
  BY DEF CurrencySupported, Lifecycle!CurrencySupported

LEMMA SameCreationAccepted ==
    \A extAction, r :
        Lifecycle!CreationAccepted(extAction, r)
            = CreationAccepted(extAction, r)
  BY SameCurrencySupported DEF CreationAccepted, Validated, ChainKnown,
     AddressesAccepted, ValidOrAbsent, IdentityHasError, FeeAccepted,
     ValidAmountOrAbsent, IsValidAmount, Lifecycle!CreationAccepted, Lifecycle!Validated,
     Lifecycle!ChainKnown, Lifecycle!AddressesAccepted, Lifecycle!ValidOrAbsent,
     Lifecycle!IdentityHasError, Lifecycle!FeeAccepted, Lifecycle!ValidAmountOrAbsent,
     Lifecycle!IsValidAmount

LEMMA SameCreatedExtension ==
    \A extAction :
        Lifecycle!CreatedExtension(extAction) = CreatedExtension(extAction)
  BY DEF CreatedExtension, HasAmounts, DeclareActions, NothingGiven, Stored,
     DeclarativeValues, AddressValues, FeeValues, Lifecycle!CreatedExtension,
     Lifecycle!HasAmounts, Lifecycle!DeclareActions, Lifecycle!NothingGiven,
     Lifecycle!Stored, Lifecycle!DeclarativeValues, Lifecycle!AddressValues,
     Lifecycle!FeeValues

LEMMA SameUpdateAccepted ==
    \A extAction, state, r, signer :
        Lifecycle!UpdateAccepted(extAction, state, r, signer)
            = UpdateAccepted(extAction, state, r, signer)
  BY SameCurrencySupported, SameGetRole DEF UpdateAccepted, Validated, ChainKnown,
     DeclarationAccepted, MaySignFor, AreEqualIdentities, DeclarationRole, IsValidAmount,
     AddPaymentInstructionAccepted, AddRefundInstructionAccepted, AddDelegateAccepted,
     DelegateField, AddPaymentAddressAccepted, ValidOrAbsent, IdentityHasError,
     AddRefundAddressAccepted, AddFeeAccepted, FeeAccepted, ValidAmountOrAbsent,
     Lifecycle!UpdateAccepted, Lifecycle!Validated, Lifecycle!ChainKnown,
     Lifecycle!DeclarationAccepted, Lifecycle!MaySignFor, Lifecycle!AreEqualIdentities,
     Lifecycle!DeclarationRole, Lifecycle!IsValidAmount,
     Lifecycle!AddPaymentInstructionAccepted, Lifecycle!AddRefundInstructionAccepted,
     Lifecycle!AddDelegateAccepted, Lifecycle!DelegateField,
     Lifecycle!AddPaymentAddressAccepted, Lifecycle!ValidOrAbsent,
     Lifecycle!IdentityHasError, Lifecycle!AddRefundAddressAccepted,
     Lifecycle!AddFeeAccepted, Lifecycle!FeeAccepted, Lifecycle!ValidAmountOrAbsent

LEMMA SameExtensionEvent ==
    \A extAction, signer :
        Lifecycle!ExtensionEvent(extAction, signer) = ExtensionEvent(extAction, signer)
  BY DEF ExtensionEvent, Lifecycle!ExtensionEvent

LEMMA SameAssigned ==
    \A values, extAction, r, signer :
        Lifecycle!Assigned(values, extAction, r, signer)
            = Assigned(values, extAction, r, signer)
  BY SameGetRole DEF Assigned, DelegateField, AssignedFields, Lifecycle!Assigned,
     Lifecycle!DelegateField, Lifecycle!AssignedFields

LEMMA SameUpdatedExtension ==
    \A extAction, state, r, signer :
        Lifecycle!UpdatedExtension(extAction, state, r, signer)
            = UpdatedExtension(extAction, state, r, signer)
  BY SameAssigned, SameExtensionEvent DEF UpdatedExtension, Author,
     Lifecycle!UpdatedExtension, Lifecycle!Author

LEMMA SameSubsAccepted ==
    \A extAction, r :
        Lifecycle!SubsAccepted(extAction, r) = SubsAccepted(extAction, r)
  BY SameCreationAccepted DEF SubsAccepted, SaltsOf, Range, Cardinality,
     Lifecycle!SubsAccepted, Lifecycle!SaltsOf, Lifecycle!Range, Lifecycle!Cardinality

LEMMA SameCreatedSubs ==
    \A extAction :
        Lifecycle!CreatedSubs(extAction) = CreatedSubs(extAction)
  BY SameCreatedExtension DEF CreatedSubs, SaltsOf, Range, Lifecycle!CreatedSubs,
     Lifecycle!SaltsOf, Lifecycle!Range

LEMMA SameApplyActionToPnAccepted ==
    \A extAction, state, r, signer :
        Lifecycle!ApplyActionToPnAccepted(extAction, state, r, signer)
            = ApplyActionToPnAccepted(extAction, state, r, signer)
  BY SameUpdateAccepted DEF ApplyActionToPnAccepted, ActionOnSub,
     Lifecycle!ApplyActionToPnAccepted, Lifecycle!ActionOnSub

LEMMA SameApplyActionToPn ==
    \A extAction, state, r, signer :
        Lifecycle!ApplyActionToPn(extAction, state, r, signer)
            = ApplyActionToPn(extAction, state, r, signer)
  BY SameExtensionEvent, SameUpdatedExtension DEF ApplyActionToPn, ActionOnSub,
     Lifecycle!ApplyActionToPn, Lifecycle!ActionOnSub

LEMMA SameStepAccepted ==
    \A extensions, extAction, r, signer :
        Lifecycle!StepAccepted(extensions, extAction, r, signer)
            = StepAccepted(extensions, extAction, r, signer)
  BY SameApplyActionToPnAccepted, SameCreationAccepted, SameSubsAccepted,
     SameUpdateAccepted DEF StepAccepted, Recognised, CreateAllAccepted,
     Lifecycle!StepAccepted, Lifecycle!Recognised, Lifecycle!CreateAllAccepted

LEMMA SameStep ==
    \A extensions, extAction, r, signer :
        Lifecycle!Step(extensions, extAction, r, signer)
            = Step(extensions, extAction, r, signer)
  BY SameApplyActionToPn, SameCreatedExtension, SameCreatedSubs, SameUpdatedExtension
     DEF Step, CreateAll, Lifecycle!Step, Lifecycle!CreateAll

LEMMA SameApplyActionToExtensions ==
    \A acc, extAction, r, signer :
        Lifecycle!ApplyActionToExtensions(acc, extAction, r, signer)
            = ApplyActionToExtensions(acc, extAction, r, signer)
  BY SameStep, SameStepAccepted DEF ApplyActionToExtensions,
     Lifecycle!ApplyActionToExtensions
ExtensionStep(r, signer, acc, extAction) ==
    ApplyActionToExtensions(acc, extAction, r, signer)
Extensions == INSTANCE SequenceFolds WITH Op <- ExtensionStep

AbstractStep(r, signer, acc, extAction) ==
    Lifecycle!ApplyActionToExtensions(acc, extAction, r, signer)
Abstract == INSTANCE SequenceFolds WITH Op <- AbstractStep

LEMMA SameReduceExtensions ==
    ASSUME NEW data \in Seq(ExtensionAction), NEW r, NEW signer
    PROVE  Lifecycle!ReduceExtensions(data, r, signer) = ReduceExtensions(data, r, signer)
<1> DEFINE base == [ok |-> TRUE, extensions |-> r.extensions]
<1>1. ReduceExtensions(data, r, signer) = Extensions!Fold(r, signer, base, data)
  BY DEF ReduceExtensions, ExtensionStep, Extensions!Fold, FoldLeft,
         Extensions!FoldLeft, MapThenFoldSet, Extensions!MapThenFoldSet, Max,
         Extensions!Max
<1>2. Lifecycle!ReduceExtensions(data, r, signer) = Abstract!Fold(r, signer, base, data)
  BY DEF Lifecycle!ReduceExtensions, AbstractStep, Abstract!Fold, Lifecycle!FoldLeft,
         Abstract!FoldLeft, Lifecycle!MapThenFoldSet, Abstract!MapThenFoldSet,
         Lifecycle!Max, Abstract!Max
<1> HIDE DEF base
<1>3. PICK f : /\ Extensions!IsTrace(r, signer, f, base, data)
               /\ Extensions!Fold(r, signer, base, data) = f[Len(data)]
  BY Extensions!FoldTrace
<1>4. PICK h : /\ Abstract!IsTrace(r, signer, h, base, data)
               /\ Abstract!Fold(r, signer, base, data) = h[Len(data)]
  BY Abstract!FoldTrace
<1>5. Extensions!IsTrace(r, signer, h, base, data)
  BY <1>4, SameApplyActionToExtensions
     DEF Extensions!IsTrace, Abstract!IsTrace, ExtensionStep, AbstractStep
<1>6. Len(data) \in Nat /\ Len(data) <= Len(data)
  OBVIOUS
<1>7. \A n \in 0 .. Len(data) : f[n] = h[n]
  BY <1>3, <1>5, <1>6, Extensions!TraceUnique
<1> QED
  BY <1>1, <1>2, <1>3, <1>4, <1>6, <1>7

LEMMA SameRules ==
    ASSUME NEW r, NEW action \in Action
    PROVE  /\ Lifecycle!Accepts(r, action) = Accepts(r, action)
           /\ Lifecycle!Applied(r, action) = Applied(r, action)
<1>1. Lifecycle!CoreAccepts(r, action) = CoreAccepts(r, action)
  BY DEF AcceptAccepted, AddExtensionsDataAccepted, AddStakeholdersAccepted,
         AreEqualIdentities, CancelAccepted, CheckRequest, CoreAccepts, CreateAccepted,
         GetRole, IdentityHasError, IncreaseAccepted, IsValidAmount, ReduceAccepted,
         UpdateRequestAccepted, Lifecycle!AcceptAccepted,
         Lifecycle!AddExtensionsDataAccepted, Lifecycle!AddStakeholdersAccepted,
         Lifecycle!AreEqualIdentities, Lifecycle!CancelAccepted, Lifecycle!CheckRequest,
         Lifecycle!CoreAccepts, Lifecycle!CreateAccepted, Lifecycle!GetRole,
         Lifecycle!IdentityHasError, Lifecycle!IncreaseAccepted,
         Lifecycle!IsValidAmount, Lifecycle!ReduceAccepted,
         Lifecycle!UpdateRequestAccepted
<1>2. Lifecycle!CoreApplied(r, action) = CoreApplied(r, action)
  BY DEF AreEqualIdentities, CoreApplied, CreatedRequest, Event, GetRole, NextAmount,
         NextState, Recorded, UpdatedRequest, Lifecycle!AreEqualIdentities,
         Lifecycle!CoreApplied, Lifecycle!CreatedRequest, Lifecycle!Event,
         Lifecycle!GetRole, Lifecycle!NextAmount, Lifecycle!NextState,
         Lifecycle!Recorded, Lifecycle!UpdatedRequest
<1>3. action.extensionsData \in Seq(ExtensionAction)
  BY DEF Action
<1>4. Lifecycle!ExtensionsReduced(r, action) = ExtensionsReduced(r, action)
  <2> DEFINE core == CoreApplied(r, action)
  <2>1. Lifecycle!ReduceExtensions(action.extensionsData, core, action.signer)
            = ReduceExtensions(action.extensionsData, core, action.signer)
    BY <1>3, SameReduceExtensions
  <2> QED
    BY <1>2, <2>1 DEF Lifecycle!ExtensionsReduced, ExtensionsReduced
<1> QED
  BY <1>1, <1>2, <1>4 DEF Lifecycle!Accepts, Accepts, Lifecycle!Applied, Applied

(* What a client would read now is the request that the history keeps.     *)
LEMMA ReadChannel ==
    ASSUME NEW txs \in Seq(ConfirmedTxs), SortByTimestamp(txs) = txs,
           NEW item, item # None => item \in TxOf({"pending"})
    PROVE  ComputeFromRequestId(ByChannel(txs, item)).confirmed = ReadOf(txs)
<1>1. CASE item = None
  BY <1>1, ReadConfirmed DEF ByChannel
<1>2. CASE item # None
  BY <1>2, ReadPending DEF ByChannel
<1> QED
  BY <1>1, <1>2

LEMMA LogTypes ==
    /\ \A txs \in Seq([action: Data, state: {"confirmed"}, timestamp: 0 .. MaxTime]) :
           txs \in Seq(ConfirmedTxs)
    /\ [action: Data, state: {"pending"}, timestamp: Nat] = TxOf({"pending"})
<1>1. [action: Data, state: {"confirmed"}, timestamp: 0 .. MaxTime] \subseteq ConfirmedTxs
  <2>1. 0 .. MaxTime \subseteq Nat
    BY BoundsAssumption
  <2> QED
    BY <2>1 DEF ConfirmedTxs, TxOf
<1> QED
  BY <1>1, SeqMonotonic DEF TxOf

HistoryIInv == IInv /\ request = ReadOf(log)

LEMMA HistoryMapped ==
    ASSUME HistoryIInv, IInv', [HistoryNext]_<< vars, request >>
    PROVE  request' = ReadOf(log')
<1>1. CASE UNCHANGED << log, pendingItem >> /\ request' = request
  BY <1>1 DEF HistoryIInv
<1>2. CASE request' = ComputeFromRequestId(ByChannel(log', pendingItem')).confirmed
  <2>1. log' \in Seq([action: Data, state: {"confirmed"}, timestamp: 0 .. MaxTime])
    BY DEF IInv, TypeOK
  <2>2. log' \in Seq(ConfirmedTxs) /\ SortByTimestamp(log') = log'
    BY <2>1, LogTypes DEF IInv
  <2>3. pendingItem' # None => pendingItem' \in TxOf({"pending"})
    BY LogTypes DEF IInv, TypeOK
  <2> QED
    BY <1>2, <2>2, <2>3, ReadChannel
<1> QED
  BY <1>1, <1>2 DEF HistoryNext, vars

(* Only a confirmation changes the log.                                    *)
LEMMA LogChanges ==
    ASSUME [Next]_vars
    PROVE  log' = log \/ \E data \in mempool : Confirm(data)
  BY DEF Next, vars, CreateRequest, Validate, PersistUnchecked, PersistValidated, Persist,
         Fail, RemovePending, Tick

(* A confirmed action that is applied is a step of the lifecycle.          *)
LEMMA AppliedIsStep ==
    ASSUME NEW action \in Actions, Accepts(request, action),
           request' = Applied(request, action), MaxLog > 0,
           request # None => Len(request.events) < MaxLog
    PROVE  Lifecycle!Next
<1>1. action \in Action
  BY ActionsAssumption
<1>2. Lifecycle!Accepts(request, action) /\ request' = Lifecycle!Applied(request, action)
  BY <1>1, SameRules
<1>3. CASE request = None
  BY <1>2, <1>3 DEF Lifecycle!Next, Lifecycle!Create
<1>4. CASE request # None
  <2>1. action.name \in UpdateNames
    BY <1>4 DEF Accepts, CoreAccepts, UpdateRequestAccepted, AcceptAccepted,
         CancelAccepted, IncreaseAccepted, ReduceAccepted, AddStakeholdersAccepted,
         AddExtensionsDataAccepted, UpdateNames
  <2>2. Lifecycle!Update(action.name, action)
    BY <1>2, <1>4 DEF Lifecycle!Update
  <2> QED
    BY <2>1, <2>2
       DEF UpdateNames, Lifecycle!Next, Lifecycle!Accept, Lifecycle!Cancel,
           Lifecycle!IncreaseExpectedAmount, Lifecycle!ReduceExpectedAmount,
           Lifecycle!AddStakeholders, Lifecycle!AddExtensionsData
<1> QED
  BY <1>3, <1>4

LEMMA StepSimulated ==
    ASSUME HistoryIInv, request' = ReadOf(log'), [Next]_vars
    PROVE  [Lifecycle!Next]_request
<1>1. CASE log' = log
  BY <1>1 DEF HistoryIInv
<1>2. ASSUME NEW data \in mempool, Confirm(data) PROVE [Lifecycle!Next]_request
  <2> DEFINE tx == Confirmed(data, now)
  <2>1. /\ log \in Seq(ConfirmedTxs) /\ now \in Nat /\ data \in Data
        /\ SortByTimestamp(log) = log
    BY Types DEF HistoryIInv, IInv, TypeOK
  <2>2. tx \in ConfirmedTxs /\ tx.action = data /\ tx.timestamp = now
    BY <2>1 DEF Confirmed, ConfirmedTxs, TxOf
  <2>3. log' = Append(log, tx) /\ Len(log) < MaxLog
    BY <1>2 DEF Confirm
  <2> HIDE DEF tx
  <2>4. ComesLast(log, tx)
    BY <2>2 DEF ComesLast, HistoryIInv, IInv
  <2>5. request' = IF IsNews(log, tx) THEN Interpret(request, tx) ELSE request
    BY <2>1, <2>2, <2>3, <2>4, ReadNext DEF HistoryIInv
  <2>6. CASE request' = request
    BY <2>6
  <2>7. CASE request' # request
    <3>1. IsParsable(tx) /\ Accepts(request, data) /\ request' = Applied(request, data)
      BY <2>2, <2>5, <2>7 DEF IsNews, Interpret, ApplyOrIgnore
    <3>2. data \in Actions
      BY <2>1, <2>2, <3>1 DEF Data, IsParsable
    <3>3. Kept(log) \in Seq(ConfirmedTxs)
      BY <2>1, KeptType
    <3>4. request # None => /\ Len(request.events) <= Len(Kept(log))
                            /\ request.events \in Seq(RequestEvent)
      BY DEF HistoryIInv, IInv, Made, IsRequest
    <3>5. MaxLog > 0 /\ (request # None => Len(request.events) < MaxLog)
      <4>1. Len(log) \in Nat /\ Len(Kept(log)) \in Nat /\ MaxLog \in Nat
        BY <2>1, <3>3, BoundsAssumption
      <4>2. Len(Kept(log)) <= Len(log)
        BY DEF HistoryIInv, IInv
      <4>3. request # None => Len(request.events) \in Nat
        BY <3>4
      <4> QED
        BY <2>3, <3>4, <4>1, <4>2, <4>3
    <3> QED
      BY <3>1, <3>2, <3>5, AppliedIsStep
  <2> QED
    BY <2>6, <2>7
<1> QED
  BY <1>1, <1>2, LogChanges

(***************************************************************************)
(* The confirmed request that clients read behaves like the request of     *)
(* RequestLifecycle: each confirmation applies one action to it or leaves  *)
(* it as it is, whatever is replayed, reordered, dropped or pending.  What *)
(* RequestLifecycleProofs proves of a lifecycle holds of the request read. *)
(***************************************************************************)
THEOREM Refinement == HistorySpec => ImplementsLifecycle
<1>1. HistoryInit => HistoryIInv /\ Lifecycle!Init
  <2>1. HistoryInit => ReadOf(log) = None
    BY Nothing DEF HistoryInit, Init, Kept, ReadOf
  <2> QED
    BY <2>1, InitIInv DEF HistoryInit, HistoryIInv, Lifecycle!Init
<1>2. HistoryIInv /\ [HistoryNext]_<< vars, request >>
          => HistoryIInv' /\ [Lifecycle!Next]_request
  <2> SUFFICES ASSUME HistoryIInv, [HistoryNext]_<< vars, request >>
               PROVE  HistoryIInv' /\ [Lifecycle!Next]_request
    OBVIOUS
  <2>1. [Next]_vars
    BY DEF HistoryNext, vars
  <2>2. IInv'
    BY <2>1, NextIInv DEF HistoryIInv
  <2>3. request' = ReadOf(log')
    BY <2>2, HistoryMapped
  <2> QED
    BY <2>1, <2>2, <2>3, StepSimulated DEF HistoryIInv
<1> QED
  BY <1>1, <1>2, PTL DEF HistorySpec, ImplementsLifecycle, Lifecycle!Spec
=============================================================================
