-------------------------- MODULE RequestClientProofs --------------------------
(***************************************************************************)
(* Theorems of RequestClient, for every set of operations and number of    *)
(* retries.                                                                *)
(*                                                                         *)
(* What is reported of an operation is tied to its polling by the refresh  *)
(* of its confirmation: that refresh exists only once the poll has found   *)
(* the operation, which is then indexed for good, and it ends once.        *)
(***************************************************************************)
EXTENDS RequestClient, TLAPS

ConfirmedRefresh(o) == refreshes[<< o, "confirmed" >>]

PollOK(o) ==
    /\ call[o] = "confirmed" => o \in indexed
    /\ ConfirmedRefresh(o).pc # "none" => call[o] = "confirmed"
    /\ reported[o] # "nothing" =>
           call[o] = "error" \/ ConfirmedRefresh(o).pc \in {"returned", "threw"}
    /\ reported[o] = "confirmed" => call[o] = "confirmed"

PollsOK == \A o \in Ops : PollOK(o)

DataOK ==
    \A r \in Refreshes :
        refreshes[r].pc \in {"balance", "returned"} => Found(requestData)

WaiterOK == waiter = "resolved" => Creation \in indexed

IInv == TypeOK /\ PollsOK /\ DataOK /\ WaiterOK

LEMMA RefreshesOfOps ==
    \A o \in Ops : << o, "posted" >> \in Refreshes /\ << o, "confirmed" >> \in Refreshes
BY DEF Refreshes

RefreshRecord ==
    [pc: {"none", "skipped", "awaiting", "asked", "answered",
          "balance", "returned", "threw"}, fetched: Views]

(* The records a step may put into refreshes.                              *)
LEMMA RefreshTypes ==
    /\ NoView \in Views
    /\ BeginRefresh \in RefreshRecord /\ BeginRefresh.pc \in {"asked", "threw"}
    /\ \A view \in Views, pc \in {"none", "skipped", "awaiting", "asked", "answered",
                                  "balance", "returned", "threw"} :
           Refresh(pc, view) \in RefreshRecord /\ Refresh(pc, view).pc = pc
BY DEF NoView, View, Views, BeginRefresh, Refresh, RefreshRecord

LEMMA InitIInv == Init => IInv
<1> SUFFICES ASSUME Init
             PROVE  IInv
  OBVIOUS
<1>1. NoView \in Views
  BY DEF NoView, View, Views
<1>2. \A r \in Refreshes : refreshes[r].pc = "none"
  BY DEF Init, NoRefresh, Refresh
<1>3. TypeOK
  <2>1. NoRefresh \in RefreshRecord
    BY <1>1, RefreshTypes DEF NoRefresh
  <2>2. refreshes \in [Refreshes -> RefreshRecord]
    BY <2>1 DEF Init
  <2>3. /\ call \in [Ops -> {"new", "posting", "polling", "rejected", "confirmed", "error"}]
        /\ polls \in [Ops -> 0..MaxRetries]
        /\ reported \in [Ops -> {"nothing", "confirmed", "error"}]
    BY OpsAssumption DEF Init
  <2>4. creationFailed \in BOOLEAN
    BY DEF Init
  <2> QED
    BY <1>1, <2>2, <2>3, <2>4 DEF Init, TypeOK, RefreshRecord
<1>4. \A o \in Ops : PollOK(o)
  <2> SUFFICES ASSUME NEW o \in Ops
               PROVE  PollOK(o)
    OBVIOUS
  <2>1. refreshes[<< o, "confirmed" >>].pc = "none"
    BY <1>2, RefreshesOfOps
  <2>2. call[o] = "new" /\ reported[o] = "nothing"
    BY DEF Init
  <2> QED
    BY <2>1, <2>2 DEF PollOK, ConfirmedRefresh
<1>5. DataOK /\ WaiterOK
  BY <1>2 DEF Init, DataOK, WaiterOK
<1> QED
  BY <1>3, <1>4, <1>5 DEF IInv, PollsOK

LEMMA PostingIInv ==
    ASSUME IInv, NEW o \in Ops,
           Post(o) \/ PostFails(o) \/ NodePersists(o) \/ Index(o) \/ PollAgain(o)
    PROVE  IInv'
<1> USE DEF IInv
<1>1. TypeOK'
  BY OpsAssumption DEF TypeOK, Post, PostFails, NodePersists, Index, PollAgain, node, object
<1>2. PollsOK'
  BY DEF TypeOK, PollsOK, PollOK, ConfirmedRefresh,
         Post, PostFails, NodePersists, Index, PollAgain, node, object
<1>3. DataOK'
  BY DEF DataOK, Found, Post, PostFails, NodePersists, Index, PollAgain, node, object
<1>4. WaiterOK'
  BY DEF WaiterOK, Post, PostFails, NodePersists, Index, PollAgain, node, object
<1> QED
  BY <1>1, <1>2, <1>3, <1>4

(***************************************************************************)
(* A step that puts one refresh into another state, and reports nothing.   *)
(***************************************************************************)
LEMMA QuietStep ==
    ASSUME IInv, NEW r \in Refreshes, NEW record \in RefreshRecord,
           refreshes' = [refreshes EXCEPT ![r] = record],
           UNCHANGED << call, polls, node >>, EmitNothing,
           requestData' \in Views,
           (\E s \in Refreshes : refreshes'[s].pc \in {"balance", "returned"})
               => Found(requestData)',
           r[2] = "confirmed" =>
               refreshes[r].pc \notin {"none", "returned", "threw"}
    PROVE  IInv'
<1> USE DEF IInv
<1>1. TypeOK'
  BY DEF TypeOK, node, EmitNothing, RefreshRecord
<1>2. PollsOK'
  <2> SUFFICES ASSUME NEW o \in Ops
               PROVE  PollOK(o)'
    BY DEF PollsOK
  <2>1. refreshes' \in [Refreshes -> RefreshRecord] /\ << o, "confirmed" >> \in Refreshes
    BY RefreshesOfOps DEF TypeOK, RefreshRecord
  <2>2. CASE r = << o, "confirmed" >>
    <3>1. reported[o] = "nothing" \/ call[o] = "error"
      BY <2>2 DEF PollsOK, PollOK, ConfirmedRefresh, TypeOK
    <3>2. call[o] = "confirmed"
      BY <2>2 DEF PollsOK, PollOK, ConfirmedRefresh
    <3> QED
      BY <2>1, <3>1, <3>2 DEF PollsOK, PollOK, node, EmitNothing
  <2>3. CASE r # << o, "confirmed" >>
    BY <2>1, <2>3 DEF PollsOK, PollOK, ConfirmedRefresh, node, EmitNothing, TypeOK
  <2> QED
    BY <2>2, <2>3
<1>3. DataOK'
  BY DEF DataOK
<1>4. WaiterOK'
  BY DEF WaiterOK, node, EmitNothing
<1> QED
  BY <1>1, <1>2, <1>3, <1>4

(* What Refreshes are made of.                                             *)
LEMMA RefreshParts ==
    \A r \in Refreshes : r[1] \in Ops /\ r = << r[1], r[2] >>
BY OpsAssumption DEF Refreshes

(***************************************************************************)
(* A refresh that throws; it may be the one of a confirmation, if it has   *)
(* begun and has not ended.                                                *)
(***************************************************************************)
LEMMA ThrowStep ==
    ASSUME IInv, NEW r \in Refreshes, Throws(r),
           UNCHANGED << call, polls, node, requestData >>,
           refreshes[r].pc \notin {"none", "returned", "threw"}
    PROVE  IInv'
<1> DEFINE record == Refresh("threw", NoView)
<1>1. record \in RefreshRecord /\ record.pc = "threw"
  BY RefreshTypes
<1>2. refreshes' = [refreshes EXCEPT ![r] = record]
  BY DEF Throws
<1>3. refreshes \in [Refreshes -> RefreshRecord]
  BY DEF IInv, TypeOK, RefreshRecord
<1>4. DataOK'
  BY <1>1, <1>2, <1>3 DEF IInv, DataOK, Found
<1>5. CASE r[2] # "confirmed"
  <2>1. EmitNothing
    BY <1>5 DEF Throws
  <2>2. (\E s \in Refreshes : refreshes'[s].pc \in {"balance", "returned"})
            => Found(requestData)'
    BY <1>4 DEF DataOK
  <2> QED
    BY <1>1, <1>2, <1>5, <2>1, <2>2, QuietStep DEF IInv, TypeOK
<1>6. CASE r[2] = "confirmed"
  <2>1. PICK o \in Ops : EmitError(o) /\ r = << o, "confirmed" >>
    BY <1>6, RefreshParts DEF Throws
  <2>2. TypeOK'
    BY <1>1, <1>2, <1>3, <2>1 DEF IInv, TypeOK, RefreshRecord, EmitError, node
  <2>3. ASSUME NEW p \in Ops
        PROVE  PollOK(p)'
    <3>1. CASE p = o
      BY <1>1, <1>2, <1>3, <2>1, <3>1
         DEF IInv, TypeOK, PollsOK, PollOK, ConfirmedRefresh, EmitError, node
    <3>2. CASE p # o
      <4>1. << p, "confirmed" >> \in Refreshes /\ << p, "confirmed" >> # r
        BY <2>1, <3>2, RefreshesOfOps
      <4>2. ConfirmedRefresh(p)' = ConfirmedRefresh(p) /\ reported'[p] = reported[p]
        BY <1>2, <1>3, <2>1, <3>2, <4>1 DEF ConfirmedRefresh, EmitError, IInv, TypeOK
      <4> QED
        BY <4>2 DEF IInv, PollsOK, PollOK, node
    <3> QED
      BY <3>1, <3>2
  <2>4. WaiterOK'
    BY <2>1 DEF IInv, WaiterOK, EmitError, node
  <2> QED
    BY <1>4, <2>2, <2>3, <2>4 DEF IInv, PollsOK
<1> QED
  BY <1>5, <1>6

LEMMA PostedIInv ==
    ASSUME IInv, NEW o \in Ops, Posted(o)
    PROVE  IInv'
<1> DEFINE r == << o, "posted" >>
<1>1. r \in Refreshes
  BY RefreshesOfOps
<1>2. refreshes \in [Refreshes -> RefreshRecord]
  BY DEF IInv, TypeOK, RefreshRecord
<1>3. PICK record \in RefreshRecord :
          /\ record.pc \in {"asked", "threw", "skipped"}
          /\ refreshes' = [refreshes EXCEPT ![r] = record]
  <2>1. CASE refreshes' = [refreshes EXCEPT ![r] = BeginRefresh]
    BY <2>1, RefreshTypes
  <2>2. CASE refreshes' = [refreshes EXCEPT ![r].pc = "skipped"]
    <3>1. [refreshes[r] EXCEPT !.pc = "skipped"] \in RefreshRecord
      BY <1>1, <1>2 DEF RefreshRecord
    <3> QED
      BY <1>1, <1>2, <2>2, <3>1 DEF RefreshRecord
  <2> QED
    BY <2>1, <2>2 DEF Posted
<1> HIDE DEF r
<1>4. TypeOK'
  BY <1>1, <1>2, <1>3 DEF IInv, TypeOK, RefreshRecord, Posted, node
<1>5. ASSUME NEW p \in Ops
      PROVE  PollOK(p)'
  <2>1. << p, "confirmed" >> \in Refreshes /\ << p, "confirmed" >> # r
    BY RefreshesOfOps DEF r
  <2>2. ConfirmedRefresh(p)' = ConfirmedRefresh(p)
    BY <1>2, <1>3, <2>1 DEF ConfirmedRefresh
  <2> QED
    BY <2>2 DEF IInv, TypeOK, PollsOK, PollOK, Posted, node
<1>6. DataOK'
  BY <1>2, <1>3 DEF IInv, DataOK, Found, Posted
<1>7. WaiterOK'
  BY DEF IInv, WaiterOK, Posted, node
<1> QED
  BY <1>4, <1>5, <1>6, <1>7 DEF IInv, PollsOK

LEMMA PollFindsIInv ==
    ASSUME IInv, NEW o \in Ops, PollFinds(o)
    PROVE  IInv'
<1> DEFINE r == << o, "confirmed" >>
<1>1. r \in Refreshes
  BY RefreshesOfOps
<1>2. refreshes \in [Refreshes -> RefreshRecord]
  BY DEF IInv, TypeOK, RefreshRecord
<1>3. PICK record \in RefreshRecord :
          /\ record.pc \in {"asked", "threw", "awaiting"}
          /\ refreshes' = [refreshes EXCEPT ![r] = record]
  <2>1. CASE refreshes' = [refreshes EXCEPT ![r] = BeginRefresh]
    BY <2>1, RefreshTypes
  <2>2. CASE refreshes' = [refreshes EXCEPT ![r].pc = "awaiting"]
    <3>1. [refreshes[r] EXCEPT !.pc = "awaiting"] \in RefreshRecord
      BY <1>1, <1>2 DEF RefreshRecord
    <3> QED
      BY <1>1, <1>2, <2>2, <3>1 DEF RefreshRecord
  <2> QED
    BY <2>1, <2>2 DEF PollFinds
<1> HIDE DEF r
<1>4. TypeOK'
  BY <1>1, <1>2, <1>3 DEF IInv, TypeOK, RefreshRecord, PollFinds, node
<1>5. ASSUME NEW p \in Ops
      PROVE  PollOK(p)'
  <2>1. CASE p = o
    <3>1. reported[o] = "nothing"
      BY DEF IInv, PollsOK, PollOK, PollFinds
    <3> QED
      BY <2>1, <3>1 DEF IInv, TypeOK, PollsOK, PollOK, PollFinds, node
  <2>2. CASE p # o
    <3>1. << p, "confirmed" >> \in Refreshes /\ << p, "confirmed" >> # r
      BY <2>2, RefreshesOfOps DEF r
    <3>2. ConfirmedRefresh(p)' = ConfirmedRefresh(p)
      BY <1>2, <1>3, <3>1 DEF ConfirmedRefresh
    <3> QED
      BY <2>2, <3>2 DEF IInv, TypeOK, PollsOK, PollOK, PollFinds, node
  <2> QED
    BY <2>1, <2>2
<1>6. DataOK'
  BY <1>2, <1>3 DEF IInv, DataOK, Found, PollFinds
<1>7. WaiterOK'
  BY DEF IInv, WaiterOK, PollFinds, node
<1> QED
  BY <1>4, <1>5, <1>6, <1>7 DEF IInv, PollsOK

LEMMA PollGivesUpIInv ==
    ASSUME IInv, NEW o \in Ops, PollGivesUp(o)
    PROVE  IInv'
<1> USE DEF IInv
<1>1. TypeOK'
  BY DEF TypeOK, PollGivesUp, EmitError, node
<1>2. PollsOK'
  BY DEF TypeOK, PollsOK, PollOK, ConfirmedRefresh, PollGivesUp, EmitError, node
<1>3. DataOK'
  BY DEF DataOK, Found, PollGivesUp
<1>4. WaiterOK'
  BY DEF WaiterOK, PollGivesUp, EmitError, node
<1> QED
  BY <1>1, <1>2, <1>3, <1>4

LEMMA AwaitPostedIInv ==
    ASSUME IInv, NEW o \in Ops, AwaitPosted(o)
    PROVE  IInv'
<1> DEFINE r == << o, "confirmed" >>
<1>1. r \in Refreshes /\ refreshes[r].pc = "awaiting"
  BY RefreshesOfOps DEF AwaitPosted
<1>2. CASE Throws(r)
  BY <1>1, <1>2, ThrowStep DEF AwaitPosted
<1>3. CASE ~Throws(r)
  <2>1. refreshes' = [refreshes EXCEPT ![r] = BeginRefresh] /\ EmitNothing
    BY <1>3 DEF AwaitPosted
  <2>2. (\E s \in Refreshes : refreshes'[s].pc \in {"balance", "returned"})
            => Found(requestData)'
    BY <2>1, RefreshTypes DEF IInv, DataOK, Found, TypeOK, AwaitPosted
  <2> QED
    BY <1>1, <2>1, <2>2, RefreshTypes, QuietStep DEF AwaitPosted, IInv, TypeOK
<1> QED
  BY <1>2, <1>3

LEMMA NodeAnswersIInv ==
    ASSUME IInv, NEW r \in Refreshes, NodeAnswers(r)
    PROVE  IInv'
<1>1. NodeView \in Views
  BY DEF IInv, TypeOK, NodeView, View, Views
<1>2. (\E s \in Refreshes : refreshes'[s].pc \in {"balance", "returned"})
          => Found(requestData)'
  BY <1>1, RefreshTypes DEF IInv, DataOK, Found, TypeOK, NodeAnswers
<1> QED
  BY <1>1, <1>2, RefreshTypes, QuietStep DEF NodeAnswers, IInv, TypeOK, EmitNothing

LEMMA SetDataIInv ==
    ASSUME IInv, NEW r \in Refreshes, SetData(r)
    PROVE  IInv'
<1>1. refreshes \in [Refreshes -> RefreshRecord] /\ refreshes[r].pc = "answered"
  BY DEF IInv, TypeOK, RefreshRecord, SetData
<1>2. CASE Found(refreshes[r].fetched)
  <2> DEFINE record == [refreshes[r] EXCEPT !.pc = "balance"]
  <2>1. record \in RefreshRecord /\ refreshes[r].fetched \in Views
    BY <1>1 DEF RefreshRecord
  <2>2. refreshes' = [refreshes EXCEPT ![r] = record]
    BY <1>1, <1>2 DEF SetData
  <2>3. requestData' = refreshes[r].fetched /\ Found(requestData)' /\ EmitNothing
    BY <1>2 DEF SetData, Found
  <2> HIDE DEF record
  <2> QED
    BY <1>1, <2>1, <2>2, <2>3, QuietStep DEF SetData
<1>3. CASE ~Found(refreshes[r].fetched)
  BY <1>1, <1>3, ThrowStep DEF SetData
<1> QED
  BY <1>2, <1>3

LEMMA RefreshFailsIInv ==
    ASSUME IInv, NEW r \in Refreshes, RefreshFails(r)
    PROVE  IInv'
BY ThrowStep DEF RefreshFails

LEMMA GetDataIInv ==
    ASSUME IInv, NEW r \in Refreshes, GetData(r)
    PROVE  IInv'
<1>1. refreshes \in [Refreshes -> RefreshRecord] /\ refreshes[r].pc = "balance"
  BY DEF IInv, TypeOK, RefreshRecord, GetData
<1>2. CASE creationFailed
  BY <1>1, <1>2, ThrowStep DEF GetData
<1>3. CASE ~creationFailed
  <2> DEFINE record == Refresh("returned", NoView)
  <2>1. record \in RefreshRecord /\ record.pc = "returned"
    BY RefreshTypes
  <2>2. Returns(r) /\ refreshes' = [refreshes EXCEPT ![r] = record]
    BY <1>3 DEF GetData, Returns
  <2>3. Found(requestData)'
    BY <1>1 DEF IInv, DataOK, Found, GetData
  <2> HIDE DEF record
  <2>4. CASE r[2] # "confirmed"
    BY <1>1, <2>1, <2>2, <2>3, <2>4, QuietStep DEF GetData, Returns, IInv, TypeOK
  <2>5. CASE r[2] = "confirmed"
    <3>1. PICK o \in Ops : EmitConfirmed(o) /\ r = << o, "confirmed" >>
      BY <2>2, <2>5, RefreshParts DEF Returns
    <3>2. call[o] = "confirmed" /\ o \in indexed
      BY <1>1, <3>1 DEF IInv, PollsOK, PollOK, ConfirmedRefresh
    <3>3. TypeOK'
      BY <1>1, <2>1, <2>2, <3>1
         DEF IInv, TypeOK, RefreshRecord, EmitConfirmed, GetData, node
    <3>4. ASSUME NEW p \in Ops
          PROVE  PollOK(p)'
      <4>1. CASE p = o
        BY <1>1, <2>1, <2>2, <3>1, <3>2, <4>1
           DEF IInv, TypeOK, PollsOK, PollOK, ConfirmedRefresh, EmitConfirmed, GetData, node
      <4>2. CASE p # o
        <5>1. << p, "confirmed" >> \in Refreshes /\ << p, "confirmed" >> # r
          BY <3>1, <4>2, RefreshesOfOps
        <5>2. ConfirmedRefresh(p)' = ConfirmedRefresh(p) /\ reported'[p] = reported[p]
          BY <1>1, <2>2, <3>1, <4>2, <5>1
             DEF ConfirmedRefresh, EmitConfirmed, IInv, TypeOK
        <5> QED
          BY <5>2 DEF IInv, PollsOK, PollOK, GetData, node
      <4> QED
        BY <4>1, <4>2
    <3>5. DataOK'
      BY <2>3 DEF DataOK
    <3>6. WaiterOK'
      BY <3>1, <3>2 DEF IInv, WaiterOK, EmitConfirmed, GetData, node
    <3> QED
      BY <3>3, <3>4, <3>5, <3>6 DEF IInv, PollsOK
  <2> QED
    BY <2>4, <2>5
<1> QED
  BY <1>2, <1>3

LEMMA UserIInv ==
    ASSUME IInv, UserRefresh \/ WaitForConfirmation
    PROVE  IInv'
<1>1. CASE UserRefresh
  <2> DEFINE r == << Creation, "user" >>
  <2>1. r \in Refreshes /\ r[2] = "user"
    BY DEF Refreshes
  <2>2. (\E s \in Refreshes : refreshes'[s].pc \in {"balance", "returned"})
            => Found(requestData)'
    BY <1>1, RefreshTypes DEF IInv, DataOK, Found, TypeOK, UserRefresh
  <2> QED
    BY <1>1, <2>1, <2>2, RefreshTypes, QuietStep
       DEF UserRefresh, IInv, TypeOK, EmitNothing
<1>2. CASE WaitForConfirmation
  BY <1>2 DEF IInv, TypeOK, PollsOK, PollOK, ConfirmedRefresh, DataOK, Found, WaiterOK,
              WaitForConfirmation, node
<1> QED
  BY <1>1, <1>2

LEMMA NextIInv == IInv /\ [Next]_vars => IInv'
<1> SUFFICES ASSUME IInv, [Next]_vars
             PROVE  IInv'
  OBVIOUS
<1>1. CASE Next
  BY <1>1, PostingIInv, PostedIInv, PollFindsIInv, PollGivesUpIInv, AwaitPostedIInv,
     NodeAnswersIInv, SetDataIInv, RefreshFailsIInv, GetDataIInv, UserIInv
     DEF Next, Updates
<1>2. CASE UNCHANGED vars
  BY <1>2 DEF vars, node, object, IInv, TypeOK, PollsOK, PollOK, ConfirmedRefresh,
              DataOK, Found, WaiterOK
<1> QED
  BY <1>1, <1>2

-----------------------------------------------------------------------------
(* The inductive invariant holds in every behaviour.                       *)
THEOREM Invariance == Spec => []IInv
BY InitIInv, NextIInv, PTL DEF Spec

(* The variables keep their types: no operation is polled more often than  *)
(* its retries allow, and nothing is indexed that was not submitted.       *)
THEOREM TypeCorrect == Spec => []TypeOK
<1>1. IInv => TypeOK
  BY DEF IInv
<1> QED
  BY Invariance, <1>1, PTL

(* The user hears 'confirmed', by event or by promise, only for what the   *)
(* subgraph of the node has.                                               *)
THEOREM OnlyIndexedIsConfirmed == Spec => []ConfirmedIsIndexed
<1>1. IInv => ConfirmedIsIndexed
  BY DEF IInv, PollsOK, PollOK, WaiterOK, ConfirmedIsIndexed
<1> QED
  BY Invariance, <1>1, PTL

(* However refreshes overlap, the data they return are those of a request  *)
(* that exists.                                                            *)
THEOREM AlwaysARequest == Spec => []ReturnedDataIsARequest
<1>1. IInv => ReturnedDataIsARequest
  BY DEF IInv, DataOK, ReturnedDataIsARequest
<1> QED
  BY Invariance, <1>1, PTL

-----------------------------------------------------------------------------
(***************************************************************************)
(* What a step may do to what has been reported, and to a failed creation. *)
(***************************************************************************)
OneReport ==
    \A o \in Ops : reported[o] # "nothing" => reported'[o] = reported[o]

NothingFromFailed ==
    creationFailed =>
        /\ creationFailed'
        /\ \A o \in Ops : reported'[o] = "confirmed" => reported[o] = "confirmed"
        /\ \A r \in Refreshes :
               refreshes'[r].pc = "returned" => refreshes[r].pc = "returned"

(* A step that reports nothing and lets no refresh return.                 *)
LEMMA QuietReports ==
    ASSUME IInv, EmitNothing, NEW r \in Refreshes, NEW record \in RefreshRecord,
           refreshes' = [refreshes EXCEPT ![r] = record],
           record.pc = "returned" => ~creationFailed
    PROVE  OneReport /\ NothingFromFailed
BY DEF IInv, TypeOK, EmitNothing, OneReport, NothingFromFailed

LEMMA ThrowReports ==
    ASSUME IInv, NEW r \in Refreshes, Throws(r),
           refreshes[r].pc \notin {"none", "returned", "threw"}
    PROVE  OneReport /\ NothingFromFailed
<1>1. Refresh("threw", NoView) \in RefreshRecord /\ Refresh("threw", NoView).pc = "threw"
  BY RefreshTypes
<1>2. CASE r[2] # "confirmed"
  BY <1>1, <1>2, QuietReports DEF Throws
<1>3. CASE r[2] = "confirmed"
  <2>1. PICK o \in Ops : EmitError(o) /\ r = << o, "confirmed" >>
    BY <1>3, RefreshParts DEF Throws
  <2>2. reported[o] = "nothing"
    BY <2>1 DEF IInv, PollsOK, PollOK, ConfirmedRefresh
  <2>3. OneReport
    BY <2>1, <2>2 DEF OneReport, EmitError, IInv, TypeOK
  <2>4. \A s \in Refreshes :
            refreshes'[s].pc = "returned" => refreshes[s].pc = "returned"
    BY <1>1 DEF Throws, IInv, TypeOK
  <2> QED
    BY <2>1, <2>3, <2>4 DEF NothingFromFailed, EmitError, IInv, TypeOK
<1> QED
  BY <1>2, <1>3

LEMMA GetDataReports ==
    ASSUME IInv, NEW r \in Refreshes, GetData(r)
    PROVE  OneReport /\ NothingFromFailed
<1>1. refreshes[r].pc = "balance"
  BY DEF GetData
<1>2. CASE creationFailed
  BY <1>1, <1>2, ThrowReports DEF GetData
<1>3. CASE ~creationFailed
  <2>1. Returns(r) /\ NothingFromFailed
    BY <1>3 DEF GetData, NothingFromFailed
  <2>2. OneReport
    <3>1. CASE r[2] # "confirmed"
      BY <2>1, <3>1 DEF Returns, EmitNothing, OneReport
    <3>2. CASE r[2] = "confirmed"
      <4>1. PICK o \in Ops : EmitConfirmed(o) /\ r = << o, "confirmed" >>
        BY <2>1, <3>2, RefreshParts DEF Returns
      <4>2. reported[o] = "nothing"
        BY <1>1, <4>1 DEF IInv, PollsOK, PollOK, ConfirmedRefresh
      <4> QED
        BY <4>1, <4>2 DEF OneReport, EmitConfirmed, IInv, TypeOK
    <3> QED
      BY <3>1, <3>2
  <2> QED
    BY <2>1, <2>2
<1> QED
  BY <1>2, <1>3

LEMMA OperationReports ==
    ASSUME IInv, NEW o \in Ops,
           \/ Post(o) \/ Posted(o) \/ PostFails(o) \/ NodePersists(o) \/ Index(o)
           \/ PollFinds(o) \/ PollAgain(o) \/ PollGivesUp(o)
    PROVE  OneReport /\ NothingFromFailed
<1>1. CASE Post(o) \/ PostFails(o) \/ NodePersists(o) \/ Index(o) \/ PollAgain(o)
  BY <1>1 DEF Post, PostFails, NodePersists, Index, PollAgain, object,
              OneReport, NothingFromFailed
<1>2. CASE Posted(o) \/ PollFinds(o)
  <2>1. UNCHANGED << reported, creationFailed >>
    BY <1>2 DEF Posted, PollFinds
  <2>2. ASSUME NEW r \in Refreshes, refreshes'[r].pc = "returned"
        PROVE  refreshes[r].pc = "returned"
    <3>1. CASE Posted(o)
      BY <2>2, <3>1, RefreshTypes DEF Posted, IInv, TypeOK
    <3>2. CASE PollFinds(o)
      BY <2>2, <3>2, RefreshTypes DEF PollFinds, IInv, TypeOK
    <3> QED
      BY <1>2, <3>1, <3>2
  <2> QED
    BY <2>1, <2>2 DEF OneReport, NothingFromFailed
<1>3. CASE PollGivesUp(o)
  <2>1. reported[o] = "nothing"
    BY <1>3 DEF PollGivesUp, IInv, PollsOK, PollOK
  <2> QED
    BY <1>3, <2>1 DEF PollGivesUp, EmitError, OneReport, NothingFromFailed, IInv, TypeOK
<1> QED
  BY <1>1, <1>2, <1>3

LEMMA RefreshReports ==
    ASSUME IInv, NEW r \in Refreshes,
           NodeAnswers(r) \/ SetData(r) \/ RefreshFails(r)
    PROVE  OneReport /\ NothingFromFailed
<1>1. CASE NodeAnswers(r)
  BY <1>1 DEF NodeAnswers, Refresh, OneReport, NothingFromFailed, IInv, TypeOK
<1>2. CASE SetData(r)
  <2>1. CASE Throws(r)
    BY <1>2, <2>1, ThrowReports DEF SetData
  <2>2. CASE ~Throws(r)
    BY <1>2, <2>2 DEF SetData, EmitNothing, OneReport, NothingFromFailed, IInv, TypeOK
  <2> QED
    BY <2>1, <2>2
<1>3. CASE RefreshFails(r)
  BY <1>3, ThrowReports DEF RefreshFails
<1> QED
  BY <1>1, <1>2, <1>3

LEMMA AwaitPostedReports ==
    ASSUME IInv, NEW o \in Ops, AwaitPosted(o)
    PROVE  OneReport /\ NothingFromFailed
<1> DEFINE r == << o, "confirmed" >>
<1>1. r \in Refreshes /\ refreshes[r].pc = "awaiting"
  BY RefreshesOfOps DEF AwaitPosted
<1>2. CASE Throws(r)
  BY <1>1, <1>2, ThrowReports
<1>3. CASE ~Throws(r)
  BY <1>1, <1>3, RefreshTypes, QuietReports DEF AwaitPosted
<1> QED
  BY <1>2, <1>3

LEMMA StepReports == IInv /\ [Next]_vars => OneReport /\ NothingFromFailed
<1> SUFFICES ASSUME IInv, [Next]_vars
             PROVE  OneReport /\ NothingFromFailed
  OBVIOUS
<1>1. CASE UserRefresh
  BY <1>1, RefreshTypes DEF UserRefresh, OneReport, NothingFromFailed, IInv, TypeOK
<1>2. CASE WaitForConfirmation \/ UNCHANGED vars
  BY <1>2 DEF WaitForConfirmation, vars, object, OneReport, NothingFromFailed
<1> QED
  BY <1>1, <1>2, OperationReports, AwaitPostedReports, RefreshReports, GetDataReports
     DEF Next, Updates

(* An operation is reported once: 'confirmed' is never followed by an      *)
(* error of the same operation, nor an error by 'confirmed'.               *)
THEOREM OneOutcome == Spec => ReportedOnce
<1>1. IInv /\ [Next]_vars =>
          [\A o \in Ops : reported[o] # "nothing" => reported'[o] = reported[o]]_vars
  BY StepReports DEF OneReport
<1> QED
  BY Invariance, <1>1, PTL DEF Spec, ReportedOnce

(* An object whose creation failed to be confirmed gives no data and       *)
(* announces nothing, whatever refreshes were under way.                   *)
THEOREM FailureIsFinal == Spec => FailedForGood
<1>1. IInv /\ [Next]_vars =>
          [ creationFailed =>
              /\ creationFailed'
              /\ \A o \in Ops : reported'[o] = "confirmed" => reported[o] = "confirmed"
              /\ \A r \in Refreshes :
                     refreshes'[r].pc = "returned" => refreshes[r].pc = "returned"
          ]_vars
  BY StepReports DEF NothingFromFailed
<1> QED
  BY Invariance, <1>1, PTL DEF Spec, FailedForGood
=============================================================================
