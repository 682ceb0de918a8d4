--------------------------- MODULE RequestLifecycle ---------------------------
(***************************************************************************)
(* One request as its confirmed channel is interpreted: a step is one      *)
(* iteration of the reduce in computeRequestFromTransactions               *)
(* (request-logic.ts) that applies an action.  An ignored action leaves    *)
(* the request as it is, a stuttering step.  The signed actions that may   *)
(* arrive, in any order, are the constant Actions.                         *)
(***************************************************************************)
EXTENDS RequestCore

CONSTANTS Actions,     \* the signed actions that may appear in the channel
          MaxEvents    \* bound: actions applied to the request

ASSUME ActionsAssumption == Actions \subseteq Action
ASSUME MaxEventsAssumption == MaxEvents \in Nat

VARIABLE request       \* None before the creation

Init == request = None

Create(action) ==
    /\ request = None
    /\ MaxEvents > 0
    /\ Accepts(request, action)
    /\ request' = Applied(request, action)

Update(name, action) ==
    /\ request # None
    /\ Len(request.events) < MaxEvents
    /\ action.name = name
    /\ Accepts(request, action)
    /\ request' = Applied(request, action)

Accept(action)                 == Update("accept", action)
Cancel(action)                 == Update("cancel", action)
IncreaseExpectedAmount(action) == Update("increaseExpectedAmount", action)
ReduceExpectedAmount(action)   == Update("reduceExpectedAmount", action)
AddStakeholders(action)        == Update("addStakeholders", action)
AddExtensionsData(action)      == Update("addExtensionsData", action)

Next == \E action \in Actions :
    \/ Create(action)
    \/ Accept(action)
    \/ Cancel(action)
    \/ IncreaseExpectedAmount(action)
    \/ ReduceExpectedAmount(action)
    \/ AddStakeholders(action)
    \/ AddExtensionsData(action)

Spec == Init /\ [][Next]_request

-----------------------------------------------------------------------------
(***************************************************************************)
(* The type of a request.  The extension states are the advanced logic's:  *)
(* here they are only required to be there.                                *)
(***************************************************************************)
RequestOf(exts) ==
    [payee: Identities \cup {None},
     payer: Identities \cup {None},
     creator: EthereumAddresses,
     expectedAmount: Nat,
     state: States,
     extensionsData: Seq(ExtensionAction),
     extensions: {exts},
     events: Seq(RequestEvent)]

(* Every field of the request keeps its type; in particular a reduction    *)
(* never leaves a negative expected amount behind.                         *)
TypeOK == request # None => request \in RequestOf(request.extensions)

Indices == DOMAIN request.events
EventAt(i) == request.events[i]
Happened(name) == \E i \in Indices : EventAt(i).name = name
CreatedByPayee == GetRole(request.creator, request) = "payee"

(***************************************************************************)
(* The history starts with the only creation, signed by the creator, who   *)
(* is the payee or the payer (create.ts, requestLogicCore.ts 55-64).       *)
(***************************************************************************)
OneCreation ==
    request # None =>
        /\ 1 \in Indices
        /\ EventAt(1).actionSigner = request.creator
        /\ GetRole(request.creator, request) # "third-party"
        /\ \A i \in Indices : EventAt(i).name = "create" <=> i = 1

(***************************************************************************)
(* The state of a request is determined by its history: canceled iff a     *)
(* cancel was applied, accepted iff not canceled and the payer created or  *)
(* accepted it, created otherwise (actions/create, accept, cancel).        *)
(***************************************************************************)
StateExplainedByEvents ==
    request # None =>
        request.state = IF Happened("cancel") THEN "canceled"
                        ELSE IF Happened("accept") \/ ~CreatedByPayee
                        THEN "accepted" ELSE "created"

(***************************************************************************)
(* Each event that changed the state or the amount was signed by a party   *)
(* entitled to it: acceptance and increase by the payer, reduction by the  *)
(* payee, cancellation by the payee, or by the payer of a request he had   *)
(* neither created nor accepted yet.                                       *)
(***************************************************************************)
EventsAuthorised ==
    request # None =>
        \A i \in Indices :
            LET role == GetRole(EventAt(i).actionSigner, request)
            IN  /\ EventAt(i).name \in {"accept", "increaseExpectedAmount"}
                       => role = "payer"
                /\ EventAt(i).name = "reduceExpectedAmount" => role = "payee"
                /\ EventAt(i).name = "cancel" =>
                       \/ role = "payee"
                       \/ /\ role = "payer"
                          /\ CreatedByPayee
                          /\ ~Happened("accept")

(***************************************************************************)
(* Cancellation is final and acceptance happens at most once: after a      *)
(* cancel only stakeholders and extension data may still be added, and no  *)
(* second accept follows the first, nor any one a creation by the payer.   *)
(***************************************************************************)
CancelIsFinal ==
    request # None =>
        \A i, j \in Indices :
            i < j =>
                /\ EventAt(i).name = "cancel" =>
                       EventAt(j).name \in {"addStakeholders", "addExtensionsData"}
                /\ EventAt(j).name = "accept" =>
                       EventAt(i).name # "accept" /\ CreatedByPayee

(***************************************************************************)
(* The ledger: the expected amount is the amount of the creation plus the  *)
(* increases minus the reductions found in the history.                    *)
(***************************************************************************)
SignedAmount(event) ==
    CASE event.name \in {"create", "increaseExpectedAmount"} -> event.amount
      [] event.name = "reduceExpectedAmount" -> -event.amount
      [] OTHER -> 0

AddSigned(sum, event) == sum + SignedAmount(event)

AmountExplainedByEvents ==
    request # None =>
        request.expectedAmount = FoldLeft(AddSigned, 0, request.events)

(* The states of the networks created, those inside a meta network too.    *)
NetworkStates(extensions) ==
    LET created == {id \in DOMAIN extensions : id \in DeclarativeIds}
    IN  {extensions[id] : id \in created}
        \cup UNION {Range(extensions[id].subs) : id \in created}

AddDeclared(d, sum, event) ==
    IF event.name = d THEN sum + event.amount ELSE sum

(***************************************************************************)
(* Declared amounts are the sums of the declarations in the extension's    *)
(* own history, and each declaration was signed by the party of its role   *)
(* or by that party's delegate (declarative.ts, meta.ts).                  *)
(***************************************************************************)
DeclaredExplainedByEvents ==
    request # None =>
        \A state \in NetworkStates(request.extensions) :
            \A d \in DOMAIN state.declared :
                /\ state.declared[d] =
                       FoldLeft(LAMBDA sum, event : AddDeclared(d, sum, event),
                                0, state.events)
                /\ \A i \in DOMAIN state.events :
                       state.events[i].name = d =>
                           MaySignFor(
                               IF d \in {"declareSentPayment",
                                         "declareReceivedRefund"}
                               THEN "payer" ELSE "payee",
                               state, request, state.events[i].from)

(***************************************************************************)
(* A step never resets an extension: what was created stays created, its   *)
(* history only grows, and what is once assigned is never replaced.  Only  *)
(* the payee assigns where a payment and its fee go and only the payer     *)
(* where a refund goes; the instructions their delegates may assign too.   *)
(* So it is for a network by itself or in a meta network                   *)
(* (abstract-extension.ts 66, address-based.ts, meta.ts).                  *)
(***************************************************************************)
PayerFields == {"refundInfo", "refundAddress", "payerDelegate"}

MayAssign(field, state, parties, signer) ==
    LET role  == IF field \in PayerFields THEN "payer" ELSE "payee"
        party == IF field \in PayerFields THEN parties.payer ELSE parties.payee
    IN  IF field \in {"paymentInfo", "refundInfo"}
        THEN MaySignFor(role, state, parties, signer)
        ELSE AreEqualIdentities(signer, party)

ExtensionKept(old, new, parties, signer) ==
    /\ IsPrefix(old.events, new.events)
    /\ \A d \in DOMAIN old.declared : new.declared[d] >= old.declared[d]
    /\ \A field \in DOMAIN old.values : new.values[field] # old.values[field] =>
           old.values[field] = None /\ MayAssign(field, old, parties, signer)

ExtensionsNeverReset ==
    [][ request # None =>
            LET signer == Last(request'.events).actionSigner
            IN  \A id \in DOMAIN request.extensions :
                    LET old == request.extensions[id]
                        new == request'.extensions[id]
                    IN  /\ id \in DOMAIN request'.extensions
                        /\ ExtensionKept(old, new, request, signer)
                        /\ \A salt \in DOMAIN old.subs :
                               ExtensionKept(old.subs[salt], new.subs[salt],
                                             request, signer)
      ]_request

=============================================================================
