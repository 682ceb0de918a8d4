----------------------------- MODULE RequestCore -----------------------------
(***************************************************************************)
(* packages/request-logic: what one signed action does to one request      *)
(* (requestLogicCore.ts and actions/*.ts).  A rejected action is one for   *)
(* which applyActionToRequest throws.  Currency, timestamps, nonces and    *)
(* the request id are data no rule here reads: the id of an update is only *)
(* required to be present.                                                 *)
(***************************************************************************)
EXTENDS AdvancedLogic

CONSTANT HasAdvancedLogic   \* FALSE: no advanced logic layer was given

States == {"created", "accepted", "canceled"}

UpdateNames == {"accept", "cancel", "increaseExpectedAmount",
                "reduceExpectedAmount", "addStakeholders", "addExtensionsData"}
ActionNames == {"create"} \cup UpdateNames

(***************************************************************************)
(* A signed action.  The signer is recovered from the signature and is     *)
(* always an ethereum address.  `amount` is expectedAmount of a creation   *)
(* and deltaAmount of an increase or a reduction.                          *)
(***************************************************************************)
Action ==
    [name: ActionNames \cup {"unknown"},
     signer: EthereumAddresses,
     versionSupported: BOOLEAN,
     withRequestId: BOOLEAN,
     payee: Identities \cup {None},
     payer: Identities \cup {None},
     amount: Int,
     extensionsData: Seq(ExtensionAction)]

RequestEvent ==
    [name: ActionNames, actionSigner: EthereumAddresses, amount: Int,
     extensionsDataLength: Nat]

Event(action) ==
    [name |-> action.name, actionSigner |-> action.signer,
     amount |-> action.amount,
     extensionsDataLength |-> Len(action.extensionsData)]

(***************************************************************************)
(* createRequest                                                           *)
(***************************************************************************)
CreateAccepted(action) ==
    /\ action.name = "create"
    /\ action.payee # None \/ action.payer # None
    /\ action.payee # None => ~IdentityHasError(action.payee)
    /\ action.payer # None => ~IdentityHasError(action.payer)
    /\ IsValidAmount(action.amount)
    /\ GetRole(action.signer, action) # "third-party"

CreatedRequest(action) ==
    [payee |-> action.payee,
     payer |-> action.payer,
     creator |-> action.signer,
     expectedAmount |-> action.amount,
     state |-> IF GetRole(action.signer, action) = "payee"
               THEN "created" ELSE "accepted",
     extensionsData |-> action.extensionsData,
     extensions |-> << >>,
     events |-> << Event(action) >>]

(***************************************************************************)
(* Updates.  Every one of them first checks the request: in particular     *)
(* payee and payer must be ethereum addresses, although createRequest      *)
(* also lets smart contracts in.                                           *)
(***************************************************************************)
CheckRequest(request) ==
    /\ request.payee # None \/ request.payer # None
    /\ request.creator \in EthereumAddresses
    /\ request.payee # None => request.payee \in EthereumAddresses
    /\ request.payer # None => request.payer \in EthereumAddresses
    /\ IsValidAmount(request.expectedAmount)

AcceptInAnyState(request, action) ==        \* mutant: state not checked
    action.name = "accept" /\ GetRole(action.signer, request) = "payer"

AcceptAccepted(request, action) ==
    /\ action.name = "accept"
    /\ request.payer # None
    /\ request.state = "created"
    /\ GetRole(action.signer, request) = "payer"

CancelUnlessCanceled(request, action) ==    \* mutant: one rule for both parties
    /\ action.name = "cancel"
    /\ GetRole(action.signer, request) # "third-party"
    /\ request.state # "canceled"

CancelAccepted(request, action) ==
    /\ action.name = "cancel"
    /\ \/ /\ GetRole(action.signer, request) = "payer"
          /\ request.state = "created"
       \/ /\ GetRole(action.signer, request) = "payee"
          /\ request.state # "canceled"

IncreaseInAnyState(request, action) ==      \* mutant: state not checked
    /\ action.name = "increaseExpectedAmount"
    /\ IsValidAmount(action.amount)
    /\ GetRole(action.signer, request) = "payer"

IncreaseAccepted(request, action) ==
    /\ action.name = "increaseExpectedAmount"
    /\ request.payer # None
    /\ IsValidAmount(action.amount)
    /\ GetRole(action.signer, request) = "payer"
    /\ request.state # "canceled"

(* reduceAmount throws when the result is not a valid amount.              *)
ReduceAccepted(request, action) ==
    /\ action.name = "reduceExpectedAmount"
    /\ request.payee # None
    /\ IsValidAmount(action.amount)
    /\ GetRole(action.signer, request) = "payee"
    /\ request.state # "canceled"
    /\ IsValidAmount(request.expectedAmount - action.amount)

AddStakeholdersAccepted(request, action) == action.name = "addStakeholders"

AddExtensionsDataAccepted(request, action) ==
    /\ action.name = "addExtensionsData"
    /\ action.extensionsData # << >>

UpdateRequestAccepted(request, action) ==
    /\ CheckRequest(request)
    /\ action.withRequestId
    /\ \/ AcceptAccepted(request, action)
       \/ CancelAccepted(request, action)
       \/ IncreaseAccepted(request, action)
       \/ ReduceAccepted(request, action)
       \/ AddStakeholdersAccepted(request, action)
       \/ AddExtensionsDataAccepted(request, action)

(* pushExtensionsData and the push of the event, common to every update.   *)
Recorded(request, action) ==
    [request EXCEPT
        !.extensionsData = @ \o action.extensionsData,
        !.events = Append(@, Event(action))]

NextState(request, action) ==
    IF action.name = "accept" THEN "accepted"
    ELSE IF action.name = "cancel" THEN "canceled"
    ELSE request.state

NextAmountReplaced(request, action) ==      \* mutant: delta taken as the amount
    IF action.name \in {"increaseExpectedAmount", "reduceExpectedAmount"}
    THEN action.amount ELSE request.expectedAmount

NextAmount(request, action) ==
    IF action.name = "increaseExpectedAmount"
    THEN request.expectedAmount + action.amount
    ELSE IF action.name = "reduceExpectedAmount"
    THEN request.expectedAmount - action.amount
    ELSE request.expectedAmount

UpdatedRequest(request, action) ==
    [Recorded(request, action) EXCEPT
        !.state = NextState(request, action),
        !.expectedAmount = NextAmount(request, action)]

(***************************************************************************)
(* applyActionToRequest: the creation or the update, then the reduce of    *)
(* its extensionsData.  One rejected extension action rejects the action   *)
(* as a whole.  `request` is None before the creation.                     *)
(***************************************************************************)
CoreAccepts(request, action) ==
    /\ action.versionSupported
    /\ IF request = None THEN CreateAccepted(action)
                         ELSE UpdateRequestAccepted(request, action)

CoreApplied(request, action) ==
    IF request = None THEN CreatedRequest(action)
                      ELSE UpdatedRequest(request, action)

ExtensionsReduced(request, action) ==
    ReduceExtensions(action.extensionsData, CoreApplied(request, action),
                     action.signer)

Accepts(request, action) ==
    /\ CoreAccepts(request, action)
    /\ HasAdvancedLogic => ExtensionsReduced(request, action).ok

Applied(request, action) ==
    IF HasAdvancedLogic
    THEN [CoreApplied(request, action) EXCEPT
             !.extensions = ExtensionsReduced(request, action).extensions]
    ELSE CoreApplied(request, action)

(* One step of the interpretation loop: a rejected action is ignored.      *)
ApplyOrIgnore(request, action) ==
    IF Accepts(request, action) THEN Applied(request, action) ELSE request
=============================================================================
