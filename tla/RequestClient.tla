----------------------------- MODULE RequestClient -----------------------------
(***************************************************************************)
(* A client of a node: a Request object (packages/request-client.js/src/   *)
(* api/request.ts), the HTTP data access under it (http-data-access.ts)    *)
(* and the two handlers of the node it talks to (packages/request-node).   *)
(*                                                                         *)
(* An operation is an element of Ops: the Creation, or an update of the    *)
(* same request.  Each is posted once; the client then polls the node for  *)
(* its confirmation and the Request object refreshes its data, twice for   *)
(* an operation: when it has been posted, and when it is confirmed.  Every *)
(* answer of the node arrives at a time of its own, so that refreshes      *)
(* overlap.  What is read of a request is which operations are confirmed   *)
(* and which are pending: what they do to it is RequestLogic's.            *)
(***************************************************************************)
EXTENDS Integers

CONSTANTS Ops, Creation,
          MaxRetries,   \* getConfirmationMaxRetry
          None

ASSUME OpsAssumption ==
    /\ Creation \in Ops
    /\ None \notin Ops
    /\ MaxRetries \in Nat

Updates == Ops \ {Creation}

(* The refreshes: of each operation, and one the user asks for.            *)
Refreshes == (Ops \X {"posted", "confirmed"}) \cup {<< Creation, "user" >>}

VARIABLES
    call,           \* progress of each operation in http-data-access.ts
    polls,          \* polls that found nothing
    submitted,      \* operations the node has submitted to its storage
    indexed,        \* those the subgraph has: the others are late or failed
    pendingItem,    \* the item of the channel in the node's PendingStore
    refreshes,      \* the refreshes of the Request object
    requestData,    \* its requestData and pendingData
    creationFailed, \* its confirmationErrorOccurredAtCreation
    reported,       \* the event each operation ended with
    waiter          \* the promise of waitForConfirmation, if asked for

node == << submitted, indexed, pendingItem >>
object == << refreshes, requestData, creationFailed, reported, waiter >>
vars == << call, polls, node, object >>

View(confirmed, pending) == [confirmed |-> confirmed, pending |-> pending]
NoView == View({}, {})

Refresh(pc, fetched) == [pc |-> pc, fetched |-> fetched]
NoRefresh == Refresh("none", NoView)

Init ==
    /\ call = [o \in Ops |-> "new"]
    /\ polls = [o \in Ops |-> 0]
    /\ submitted = {}
    /\ indexed = {}
    /\ pendingItem = None
    /\ refreshes = [r \in Refreshes |-> NoRefresh]
    /\ requestData = NoView
    /\ creationFailed = FALSE
    /\ reported = [o \in Ops |-> "nothing"]
    /\ waiter = "none"

-----------------------------------------------------------------------------
(* The refresh of an object (refresh, getData).                            *)

(* What the node answers a read of the channel with (DataAccess).          *)
NodeView == View(indexed, {pendingItem} \ (indexed \cup {None}))

(* The interpretation needs the creation, confirmed or pending.            *)
Found(view) == Creation \in view.confirmed \cup view.pending

Finished(r) == refreshes[r].pc \in {"returned", "threw"}

(* A refresh throws at once if the creation has failed.                    *)
BeginRefresh == Refresh(IF creationFailed THEN "threw" ELSE "asked", NoView)

(* The events of a refresh made for a confirmation.                        *)
EmitConfirmedToNobody(o) ==         \* mutant: the object's emitter is not told
    /\ reported' = [reported EXCEPT ![o] = "confirmed"]
    /\ UNCHANGED << waiter, creationFailed >>

EmitConfirmed(o) ==
    /\ reported' = [reported EXCEPT ![o] = "confirmed"]
    /\ waiter' = IF o = Creation /\ waiter = "waiting" THEN "resolved" ELSE waiter
    /\ UNCHANGED creationFailed

(* The errors of an update go to the object's emitter like the creation's. *)
EmitError(o) ==
    /\ reported' = [reported EXCEPT ![o] = "error"]
    /\ waiter' = IF waiter = "waiting" THEN "rejected" ELSE waiter
    /\ creationFailed' = (creationFailed \/ o = Creation)

EmitNothing == UNCHANGED << reported, waiter, creationFailed >>

ThrowsSilently(r) ==                \* mutant: no catch around the refresh
    /\ refreshes' = [refreshes EXCEPT ![r] = Refresh("threw", NoView)]
    /\ EmitNothing

Throws(r) ==
    /\ refreshes' = [refreshes EXCEPT ![r] = Refresh("threw", NoView)]
    /\ IF r[2] = "confirmed" THEN EmitError(r[1]) ELSE EmitNothing

-----------------------------------------------------------------------------
(* The node: PersistTransactionHandler, and its storage and subgraph.      *)

(* The node may do so after its client has given up on the answer.         *)
NodePersists(o) ==
    /\ call[o] \in {"posting", "rejected"}
    /\ o \notin submitted
    /\ submitted' = submitted \cup {o}
    /\ pendingItem' = o
    /\ UNCHANGED << call, polls, indexed, object >>

Index(o) ==
    /\ o \in submitted \ indexed
    /\ indexed' = indexed \cup {o}
    /\ UNCHANGED << call, polls, submitted, pendingItem, object >>

-----------------------------------------------------------------------------
(***************************************************************************)
(* Posting.  createRequest gives the user the object when its refresh has  *)
(* ended (or at once, with skipRefresh); the updates are methods of it.    *)
(***************************************************************************)
HasObject == refreshes[<< Creation, "posted" >>].pc \in {"returned", "skipped"}

Post(o) ==
    /\ call[o] = "new"
    /\ o \in Updates => HasObject
    /\ call' = [call EXCEPT ![o] = "posting"]
    /\ UNCHANGED << polls, node, object >>

(* The node answers 200: the emitter exists and the polls are under way.   *)
Posted(o) ==
    /\ call[o] = "posting"
    /\ o \in submitted
    /\ call' = [call EXCEPT ![o] = "polling"]
    /\ \/ refreshes' = [refreshes EXCEPT ![<< o, "posted" >>] = BeginRefresh]
       \/ /\ o = Creation
          /\ refreshes' = [refreshes EXCEPT ![<< o, "posted" >>].pc = "skipped"]
    /\ UNCHANGED << polls, node, requestData, creationFailed, reported, waiter >>

(* The node answers 500, or its answer is lost: the call rejects.  The     *)
(* POST is not sent again, "since it may fail because of a slow Storage".  *)
PostFails(o) ==
    /\ call[o] = "posting"
    /\ call' = [call EXCEPT ![o] = "rejected"]
    /\ UNCHANGED << polls, node, object >>

-----------------------------------------------------------------------------
(* Polling: GetConfirmedTransactionHandler answers 404 until the subgraph  *)
(* has the data's hash; any other failure is retried like a 404.           *)

PollFindsAnything(o) ==             \* mutant: an empty answer is a success
    /\ call[o] = "polling"
    /\ call' = [call EXCEPT ![o] = "confirmed"]
    /\ refreshes' = [refreshes EXCEPT ![<< o, "confirmed" >>].pc = "asked"]
    /\ UNCHANGED << polls, node, requestData, creationFailed, reported, waiter >>

(* The handler of 'confirmed' first awaits the refresh of the posting, if  *)
(* the operation is an update.                                             *)
PollFinds(o) ==
    /\ call[o] = "polling"
    /\ o \in indexed
    /\ call' = [call EXCEPT ![o] = "confirmed"]
    /\ IF o = Creation
       THEN refreshes' = [refreshes EXCEPT ![<< o, "confirmed" >>] = BeginRefresh]
       ELSE refreshes' = [refreshes EXCEPT ![<< o, "confirmed" >>].pc = "awaiting"]
    /\ UNCHANGED << polls, node, requestData, creationFailed, reported, waiter >>

PollAgain(o) ==
    /\ call[o] = "polling"
    /\ polls[o] < MaxRetries
    /\ polls' = [polls EXCEPT ![o] = @ + 1]
    /\ UNCHANGED << call, node, object >>

PollGivesUpAndGoesOn(o) ==          \* mutant: reported, and polled again
    /\ call[o] = "polling"
    /\ polls[o] = MaxRetries
    /\ EmitError(o)
    /\ UNCHANGED << call, polls, node, refreshes, requestData >>

PollGivesUp(o) ==
    /\ call[o] = "polling"
    /\ polls[o] = MaxRetries
    /\ call' = [call EXCEPT ![o] = "error"]
    /\ EmitError(o)
    /\ UNCHANGED << polls, node, refreshes, requestData >>

-----------------------------------------------------------------------------
(* Refreshing.                                                             *)

AwaitPosted(o) ==
    LET posted == << o, "posted" >>
        r == << o, "confirmed" >>
    IN  /\ refreshes[r].pc = "awaiting"
        /\ Finished(posted)
        /\ IF creationFailed \/ refreshes[posted].pc = "threw"
           THEN Throws(r)
           ELSE /\ refreshes' = [refreshes EXCEPT ![r] = BeginRefresh]
                /\ EmitNothing
        /\ UNCHANGED << call, polls, node, requestData >>

UserRefresh ==
    LET r == << Creation, "user" >>
    IN  /\ HasObject
        /\ refreshes[r] = NoRefresh
        /\ refreshes' = [refreshes EXCEPT ![r] = BeginRefresh]
        /\ UNCHANGED << call, polls, node, requestData, creationFailed, reported, waiter >>

(* The node's answer is what it knows now; it may arrive much later.       *)
NodeAnswers(r) ==
    /\ refreshes[r].pc = "asked"
    /\ refreshes' = [refreshes EXCEPT ![r] = Refresh("answered", NodeView)]
    /\ UNCHANGED << call, polls, node, requestData, creationFailed, reported, waiter >>

SetDataUnchecked(r) ==              \* mutant: sets what is no request
    /\ refreshes[r].pc = "answered"
    /\ requestData' = refreshes[r].fetched
    /\ refreshes' = [refreshes EXCEPT ![r].pc = "balance"]
    /\ EmitNothing
    /\ UNCHANGED << call, polls, node >>

SetData(r) ==
    /\ refreshes[r].pc = "answered"
    /\ IF Found(refreshes[r].fetched)
       THEN /\ requestData' = refreshes[r].fetched
            /\ refreshes' = [refreshes EXCEPT ![r].pc = "balance"]
            /\ EmitNothing
       ELSE /\ Throws(r)
            /\ UNCHANGED requestData
    /\ UNCHANGED << call, polls, node >>

(* The GET fails with all its retries, or the balance cannot be had.       *)
RefreshFails(r) ==
    /\ refreshes[r].pc \in {"asked", "balance"}
    /\ Throws(r)
    /\ UNCHANGED << call, polls, node, requestData >>

Returns(r) ==
    /\ refreshes' = [refreshes EXCEPT ![r] = Refresh("returned", NoView)]
    /\ IF r[2] = "confirmed" THEN EmitConfirmed(r[1]) ELSE EmitNothing

GetDataUnchecked(r) ==              \* mutant: a failed creation is forgotten
    /\ refreshes[r].pc = "balance"
    /\ Returns(r)
    /\ UNCHANGED << call, polls, node, requestData >>

(* The balance has come: getData returns what the object holds by now.     *)
GetData(r) ==
    /\ refreshes[r].pc = "balance"
    /\ IF creationFailed THEN Throws(r) ELSE Returns(r)
    /\ UNCHANGED << call, polls, node, requestData >>

WaitForConfirmation ==
    /\ HasObject
    /\ waiter = "none"
    /\ waiter' = "waiting"
    /\ UNCHANGED << call, polls, node, refreshes, requestData, creationFailed, reported >>

-----------------------------------------------------------------------------
Next ==
    \/ \E o \in Ops :
           \/ Post(o) \/ Posted(o) \/ PostFails(o)
           \/ NodePersists(o) \/ Index(o)
           \/ PollFinds(o) \/ PollAgain(o) \/ PollGivesUp(o)
    \/ \E o \in Updates : AwaitPosted(o)
    \/ \E r \in Refreshes :
           NodeAnswers(r) \/ SetData(r) \/ RefreshFails(r) \/ GetData(r)
    \/ UserRefresh
    \/ WaitForConfirmation

Spec == Init /\ [][Next]_vars

(***************************************************************************)
(* Timers fire and promises settle: a poll ends, an HTTP GET is answered   *)
(* or fails, a continuation runs.  Users and the node's storage owe        *)
(* nothing.                                                                *)
(***************************************************************************)
Fairness ==
    /\ \A o \in Ops :
           WF_vars(PollFinds(o) \/ PollAgain(o) \/ PollGivesUp(o))
    /\ \A o \in Updates : WF_vars(AwaitPosted(o))
    /\ \A r \in Refreshes :
           WF_vars(NodeAnswers(r) \/ SetData(r) \/ GetData(r) \/ RefreshFails(r))

FairSpec == Spec /\ Fairness

-----------------------------------------------------------------------------
Views == [confirmed: SUBSET Ops, pending: SUBSET Ops]

TypeOK ==
    /\ call \in [Ops -> {"new", "posting", "polling", "rejected", "confirmed", "error"}]
    /\ polls \in [Ops -> 0..MaxRetries]
    /\ submitted \subseteq Ops
    /\ indexed \subseteq submitted
    /\ pendingItem \in Ops \cup {None}
    /\ refreshes \in
           [Refreshes -> [pc: {"none", "skipped", "awaiting", "asked", "answered",
                               "balance", "returned", "threw"},
                          fetched: Views]]
    /\ requestData \in Views
    /\ creationFailed \in BOOLEAN
    /\ reported \in [Ops -> {"nothing", "confirmed", "error"}]
    /\ waiter \in {"none", "waiting", "resolved", "rejected"}

(***************************************************************************)
(* 'confirmed' reaches the user, as an event or by waitForConfirmation,    *)
(* only for what the subgraph of the node has (getConfirmedTransaction).   *)
(***************************************************************************)
ConfirmedIsIndexed ==
    /\ \A o \in Ops : reported[o] = "confirmed" => o \in indexed
    /\ waiter = "resolved" => Creation \in indexed

(***************************************************************************)
(* The data a refresh returns always have the creation, confirmed or       *)
(* pending, though the refreshes of several operations write the fields    *)
(* it returns while it waits for the balance (request.ts, refresh).        *)
(***************************************************************************)
ReturnedDataIsARequest ==
    \A r \in Refreshes :
        refreshes[r].pc = "returned" => Found(requestData)

(***************************************************************************)
(* Once the confirmation of the creation has failed the object gives no    *)
(* data any more and announces nothing confirmed, not even a refresh that  *)
(* was already under way (request.ts, refresh and getData).                *)
(***************************************************************************)
FailedForGood ==
    [][ creationFailed =>
            /\ creationFailed'
            /\ \A o \in Ops : reported'[o] = "confirmed" => reported[o] = "confirmed"
            /\ \A r \in Refreshes :
                   refreshes'[r].pc = "returned" => refreshes[r].pc = "returned"
      ]_vars

(***************************************************************************)
(* An operation ends once: the event it was reported with is never         *)
(* followed by the other one.                                              *)
(***************************************************************************)
ReportedOnce ==
    [][ \A o \in Ops : reported[o] # "nothing" => reported'[o] = reported[o] ]_vars

(***************************************************************************)
(* Whatever fails on the way, an operation that the node accepted is       *)
(* reported to the user, as confirmed or as an error.                      *)
(***************************************************************************)
Reported ==
    \A o \in Ops : call[o] = "polling" ~> reported[o] # "nothing"

(***************************************************************************)
(* The promise of waitForConfirmation settles if it was asked for before   *)
(* the creation was reported.  Asked for later it may never: it listens    *)
(* from then on, and createRequest itself waits for a refresh before the   *)
(* user has an object to ask (request.ts, request-network.ts).             *)
(***************************************************************************)
WaiterInTimeSettles ==
    waiter = "waiting" /\ reported[Creation] = "nothing" ~> waiter # "waiting"

-----------------------------------------------------------------------------
(* What a comment says and the code does not do.                           *)

(***************************************************************************)
(* "Refresh the request data [...] and return these data" (request.ts):    *)
(* what a refresh returns is not older than what it read.  It returns what *)
(* the object holds, and another refresh may have set that while it waited *)
(* for the balance.                                                        *)
(***************************************************************************)
RefreshedDataNotOlder ==
    [][ \A r \in Refreshes :
            refreshes[r].pc = "balance" /\ refreshes'[r].pc = "returned" =>
                refreshes[r].fetched.confirmed \subseteq requestData.confirmed
      ]_vars
=============================================================================
