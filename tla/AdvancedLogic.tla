---------------------------- MODULE AdvancedLogic ----------------------------
(***************************************************************************)
(* The extension states of one request (packages/advanced-logic): the      *)
(* generic shell of AbstractExtension around the networks, the meta        *)
(* network, and the fold of requestLogicCore over the extensionsData of an *)
(* action.  An exception is the value ok = FALSE.                          *)
(*                                                                         *)
(* `extensions` is a function from the ids created so far to their state.  *)
(***************************************************************************)
EXTENDS PaymentNetworks

(* An extension action as found in extensionsData: `subs` are the networks *)
(* a meta network is created with, or the one action applied to one.       *)
SubAction == [salt: Salts, action: NetworkAction]

ExtensionAction ==
    [id: Ids, action: ExtensionActionNames, complete: BOOLEAN,
     subsequent: BOOLEAN, amount: Int, given: Parameters,
     delegate: Identities \cup {None}, subs: Seq(SubAction)]

(* getExtensionForActionAndState finds no extension: "not recognized".     *)
Recognised(extAction) == extAction.id \notin UnknownIds

(***************************************************************************)
(* Creation, also of the networks of a meta network: all of them must be   *)
(* acceptable beside the request's own extensions, each with its own salt. *)
(***************************************************************************)
SaltsOf(extAction) == {sub.salt : sub \in Range(extAction.subs)}

SubsAccepted(extAction, request) ==
    /\ Cardinality(SaltsOf(extAction)) = Len(extAction.subs)
    /\ \A sub \in Range(extAction.subs) :
           /\ sub.action.id \in SubNetworkIds
           /\ CreationAccepted([sub.action EXCEPT !.action = "create"], request)

CreateAllAccepted(extAction, request) ==
    /\ CreationAccepted(extAction, request)
    /\ extAction.id \in MetaIds => SubsAccepted(extAction, request)

CreatedSubs(extAction) ==
    [salt \in SaltsOf(extAction) |->
        CreatedExtension((CHOOSE sub \in Range(extAction.subs) :
                              sub.salt = salt).action)]

CreateAll(extAction) ==
    IF extAction.id \in MetaIds
    THEN [CreatedExtension(extAction) EXCEPT !.subs = CreatedSubs(extAction)]
    ELSE CreatedExtension(extAction)

(***************************************************************************)
(* applyApplyActionToExtension: an action on one network of a meta network,*)
(* which must have been there before the current action.  The action has   *)
(* no version: a creation, which would reset the network, is refused.      *)
(***************************************************************************)
ActionOnSub(extAction, state) ==
    LET sub == extAction.subs[1]
    IN  [sub.action EXCEPT !.id = state.subs[sub.salt].id]

ApplyActionToPnAccepted(extAction, state, request, signer) ==
    LET salt == extAction.subs[1].salt
    IN  /\ extAction.action = "applyActionToPn"
        /\ extAction.id \in MetaIds
        /\ extAction.id \in DOMAIN request.extensions
        /\ salt \in DOMAIN request.extensions[extAction.id].subs
        /\ UpdateAccepted(ActionOnSub(extAction, state), state.subs[salt],
                          request, signer)

ApplyActionToPn(extAction, state, request, signer) ==
    LET salt == extAction.subs[1].salt
    IN  [state EXCEPT
            !.subs[salt] = UpdatedExtension(ActionOnSub(extAction, state), @,
                                            request, signer),
            !.events = Append(@, ExtensionEvent(extAction, signer))]

(***************************************************************************)
(* applyActionToExtensions for one extension action.  `acc.ok` is FALSE    *)
(* once an exception has been thrown; `request` is the request before its  *)
(* extensions are updated.                                                 *)
(***************************************************************************)
StepAccepted(extensions, extAction, request, signer) ==
    /\ Recognised(extAction)
    /\ \/ /\ extAction.action = "create"
          /\ CreateAllAccepted(extAction, request)
       \/ /\ extAction.action # "create"
          /\ extAction.id \in DOMAIN extensions
          /\ LET state == extensions[extAction.id]
             IN  \/ UpdateAccepted(extAction, state, request, signer)
                 \/ ApplyActionToPnAccepted(extAction, state, request, signer)

Step(extensions, extAction, request, signer) ==
    CASE extAction.action = "create" -> CreateAll(extAction)
      [] extAction.action = "applyActionToPn" ->
             ApplyActionToPn(extAction, extensions[extAction.id], request, signer)
      [] OTHER ->
             UpdatedExtension(extAction, extensions[extAction.id], request, signer)

ApplyActionToExtensions(acc, extAction, request, signer) ==
    IF acc.ok /\ StepAccepted(acc.extensions, extAction, request, signer)
    THEN LET state == Step(acc.extensions, extAction, request, signer)
         IN  [acc EXCEPT !.extensions =
                 [id \in DOMAIN @ \cup {extAction.id} |->
                     IF id = extAction.id THEN state ELSE @[id]]]
    ELSE [acc EXCEPT !.ok = FALSE]

(* The reduce of requestLogicCore over the extensionsData of an action.    *)
ReduceExtensions(extensionsData, request, signer) ==
    FoldLeft(LAMBDA acc, extAction :
                 ApplyActionToExtensions(acc, extAction, request, signer),
             [ok |-> TRUE, extensions |-> request.extensions],
             extensionsData)
=============================================================================
