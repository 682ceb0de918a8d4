--------------------------- MODULE PaymentNetworks ---------------------------
(***************************************************************************)
(* The extensions of packages/advanced-logic, each by itself: the payment  *)
(* networks and content data.  The payment networks are classes that       *)
(* derive from one another; a set of ids for each class, contained in the  *)
(* set of the class it derives from, says which rules apply to an id.      *)
(***************************************************************************)
EXTENDS RequestTypes, SequencesExt

CONSTANTS
    DeclarativeIds,    \* payment networks: all are DeclarativePaymentNetworks
    AddressBasedIds,   \* ... AddressBasedPaymentNetworks
    FeeBasedIds,       \* ... FeeReferenceBasedPaymentNetworks
    ToNativeIds,       \* any-to-eth and any-to-near: fee based
    MetaIds,           \* the network made of other networks
    SubNetworkIds,     \* the networks it may be made of
    ContentDataIds,    \* served by ContentData
    UnknownIds,        \* ids AdvancedLogic does not recognise
    WrongCurrencyIds,  \* networks that do not support the request's currency
    Salts              \* identifiers of networks in a meta network

ASSUME NetworksAssumption ==
    /\ ToNativeIds \subseteq FeeBasedIds
    /\ FeeBasedIds \subseteq AddressBasedIds
    /\ AddressBasedIds \cup MetaIds \subseteq DeclarativeIds
    /\ SubNetworkIds \cap MetaIds = {}

DeclareActions ==
    {"declareSentPayment", "declareSentRefund",
     "declareReceivedPayment", "declareReceivedRefund"}

UpdateActions ==
    {"addPaymentInstruction", "addRefundInstruction", "addDelegate",
     "addPaymentAddress", "addRefundAddress", "addFee"} \cup DeclareActions

(***************************************************************************)
(* An extension action.  `given` holds its parameters but for the delegate *)
(* of addDelegate and the amount of a declaration; `complete` says that a  *)
(* creation carries what its network requires and in a valid form: version,*)
(* content, salt, network, accepted tokens, dates and rates of a stream.   *)
(* `subsequent` marks the creation of a stream that continues another.     *)
(***************************************************************************)
NothingGiven ==
    [paymentInfo |-> None, refundInfo |-> None,
     payeeDelegate |-> None, payerDelegate |-> None,
     paymentAddress |-> None, refundAddress |-> None,
     feeAddress |-> None, feeAmount |-> None]

Parameters ==
    [paymentInfo: {None, "info"}, refundInfo: {None, "info"},
     payeeDelegate: Identities \cup {None},
     payerDelegate: Identities \cup {None},
     paymentAddress: Identities \cup {None},
     refundAddress: Identities \cup {None},
     feeAddress: Identities \cup {None},
     feeAmount: Int \cup {None}]

Ids == DeclarativeIds \cup ContentDataIds \cup UnknownIds
ExtensionActionNames == {"create", "applyActionToPn"} \cup UpdateActions

NetworkAction ==
    [id: Ids, action: ExtensionActionNames, complete: BOOLEAN,
     subsequent: BOOLEAN, amount: Int, given: Parameters,
     delegate: Identities \cup {None}]

ExtensionEvent(extAction, signer) ==
    [name |-> extAction.action, from |-> signer, amount |-> extAction.amount]

(* isValidAddress, for a parameter that may be left out.                   *)
ValidOrAbsent(address) == address = None \/ ~IdentityHasError(address)

ValidAmountOrAbsent(amount) == amount = None \/ IsValidAmount(amount)

(***************************************************************************)
(* validate: the currency of the request must be one of the network's.  A  *)
(* network that pays in a native token also wants to find the chain, on an *)
(* update in the extensions the request had before the current action; one *)
(* that pays in tokens goes without.                                       *)
(***************************************************************************)
CurrencySupported(extAction) == extAction.id \notin WrongCurrencyIds

ChainKnown(extAction, request) ==
    extAction.id \in ToNativeIds /\ extAction.action # "create" =>
        extAction.id \in DOMAIN request.extensions

Validated(extAction, request) ==
    CurrencySupported(extAction) /\ ChainKnown(extAction, request)

(***************************************************************************)
(* Creation.  The guard reads the extensions of the request as they were   *)
(* before the current action (requestState.extensions), not the ones the   *)
(* fold over extensionsData has built so far.  A creation checks nothing   *)
(* about its signer, and takes a fee amount without an address.            *)
(***************************************************************************)
CreationOverwrites(extAction, request) ==   \* mutant: no existence check
    extAction.complete /\ Validated(extAction, request)

AddressesAccepted(given) ==
    ValidOrAbsent(given.paymentAddress) /\ ValidOrAbsent(given.refundAddress)

FeeAccepted(given) ==
    ValidOrAbsent(given.feeAddress) /\ ValidAmountOrAbsent(given.feeAmount)

CreationAccepted(extAction, request) ==
    /\ Validated(extAction, request)
    /\ extAction.id \notin DOMAIN request.extensions
    /\ extAction.complete
    /\ extAction.id \in AddressBasedIds => AddressesAccepted(extAction.given)
    /\ extAction.id \in FeeBasedIds => FeeAccepted(extAction.given)

(* The parameters a creation stores, by the class of the network.          *)
DeclarativeValues == {"paymentInfo", "refundInfo", "payeeDelegate", "payerDelegate"}
AddressValues     == {"paymentAddress", "refundAddress"}
FeeValues         == {"feeAddress", "feeAmount"}

Stored(id) ==
    {field \in DOMAIN NothingGiven :
        \/ field \in DeclarativeValues /\ id \in DeclarativeIds \ MetaIds
        \/ field \in AddressValues /\ id \in AddressBasedIds
        \/ field \in FeeValues /\ id \in FeeBasedIds}

(* A meta network and a subsequent stream replace the values of the class  *)
(* they derive from, its declared amounts with them.                       *)
HasAmounts(extAction) ==
    extAction.id \in DeclarativeIds \ MetaIds /\ ~extAction.subsequent

CreatedExtension(extAction) ==
    [id       |-> extAction.id,
     declared |-> [d \in IF HasAmounts(extAction) THEN DeclareActions ELSE {} |-> 0],
     values   |-> [field \in DOMAIN NothingGiven |->
                      IF field \in Stored(extAction.id)
                      THEN extAction.given[field] ELSE None],
     subs     |-> << >>,
     events   |-> IF extAction.id \in DeclarativeIds
                  THEN << [name |-> "create", from |-> None, amount |-> 0] >>
                  ELSE << >>]

(***************************************************************************)
(* checkIdentities: the party of that role must exist and the signer must  *)
(* be it or its delegate.                                                  *)
(***************************************************************************)
MaySignFor(role, state, request, signer) ==
    LET party    == IF role = "payee" THEN request.payee ELSE request.payer
        delegate == IF role = "payee" THEN state.values.payeeDelegate
                                      ELSE state.values.payerDelegate
    IN  /\ party # None
        /\ \/ AreEqualIdentities(signer, party)
           \/ AreEqualIdentities(signer, delegate)

DeclarationRoleSwapped(action) ==           \* mutant: received and sent swapped
    IF action \in {"declareReceivedPayment", "declareSentRefund"}
    THEN "payer" ELSE "payee"

DeclarationRole(action) ==
    IF action \in {"declareSentPayment", "declareReceivedRefund"}
    THEN "payer" ELSE "payee"

(* addAmount throws without an amount to add to.                           *)
DeclarationAccepted(extAction, state, request, signer) ==
    /\ extAction.action \in DOMAIN state.declared
    /\ MaySignFor(DeclarationRole(extAction.action), state, request, signer)
    /\ IsValidAmount(extAction.amount)

AddPaymentInstructionAccepted(extAction, state, request, signer) ==
    /\ extAction.action = "addPaymentInstruction"
    /\ state.values.paymentInfo = None
    /\ MaySignFor("payee", state, request, signer)

AddRefundInstructionAccepted(extAction, state, request, signer) ==
    /\ extAction.action = "addRefundInstruction"
    /\ state.values.refundInfo = None
    /\ MaySignFor("payer", state, request, signer)

(* addDelegate: the delegate of the signer's own role, assigned only once. *)
DelegateField(request, signer) ==
    IF GetRole(signer, request) = "payee" THEN "payeeDelegate"
                                          ELSE "payerDelegate"

AddDelegateAccepted(extAction, state, request, signer) ==
    /\ extAction.action = "addDelegate"
    /\ GetRole(signer, request) # "third-party"
    /\ state.values[DelegateField(request, signer)] = None

(* Where money goes is for the party itself to say: a delegate may not.    *)
AddPaymentAddressAccepted(extAction, state, request, signer) ==
    /\ extAction.action = "addPaymentAddress"
    /\ extAction.id \in AddressBasedIds
    /\ ValidOrAbsent(extAction.given.paymentAddress)
    /\ state.values.paymentAddress = None
    /\ AreEqualIdentities(signer, request.payee)

AddRefundAddressAccepted(extAction, state, request, signer) ==
    /\ extAction.action = "addRefundAddress"
    /\ extAction.id \in AddressBasedIds
    /\ ValidOrAbsent(extAction.given.refundAddress)
    /\ state.values.refundAddress = None
    /\ AreEqualIdentities(signer, request.payer)

AddFeeAccepted(extAction, state, request, signer) ==
    /\ extAction.action = "addFee"
    /\ extAction.id \in FeeBasedIds
    /\ FeeAccepted(extAction.given)
    /\ state.values.feeAddress = None
    /\ state.values.feeAmount = None
    /\ AreEqualIdentities(signer, request.payee)

UpdateAccepted(extAction, state, request, signer) ==
    /\ Validated(extAction, request)
    /\ extAction.id \in DeclarativeIds
    /\ \/ DeclarationAccepted(extAction, state, request, signer)
       \/ AddPaymentInstructionAccepted(extAction, state, request, signer)
       \/ AddRefundInstructionAccepted(extAction, state, request, signer)
       \/ AddDelegateAccepted(extAction, state, request, signer)
       \/ AddPaymentAddressAccepted(extAction, state, request, signer)
       \/ AddRefundAddressAccepted(extAction, state, request, signer)
       \/ AddFeeAccepted(extAction, state, request, signer)

(* The fields of the extension's values that an update assigns.            *)
AssignedFields(action) ==
    CASE action = "addPaymentInstruction" -> {"paymentInfo"}
      [] action = "addRefundInstruction"  -> {"refundInfo"}
      [] action = "addPaymentAddress"     -> {"paymentAddress"}
      [] action = "addRefundAddress"      -> {"refundAddress"}
      [] action = "addFee"                -> {"feeAddress", "feeAmount"}
      [] OTHER -> {}

Assigned(values, extAction, request, signer) ==
    IF extAction.action = "addDelegate"
    THEN [values EXCEPT ![DelegateField(request, signer)] = extAction.delegate]
    ELSE [field \in DOMAIN values |->
              IF field \in AssignedFields(extAction.action)
              THEN extAction.given[field] ELSE values[field]]

(* The events of the address and fee actions do not name their signer.     *)
Author(action, signer) ==
    IF action \in {"addPaymentAddress", "addRefundAddress", "addFee"}
    THEN None ELSE signer

UpdatedExtension(extAction, state, request, signer) ==
    [state EXCEPT
        !.declared = [d \in DOMAIN @ |->
            @[d] + (IF d = extAction.action THEN extAction.amount ELSE 0)],
        !.values = Assigned(@, extAction, request, signer),
        !.events = Append(@, ExtensionEvent(extAction,
                                 Author(extAction.action, signer)))]
=============================================================================
