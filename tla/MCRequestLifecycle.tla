-------------------------- MODULE MCRequestLifecycle --------------------------
(***************************************************************************)
(* Model checking of RequestLifecycle: two sets of signed actions, one for *)
(* the life of the request, one for its extensions.                        *)
(***************************************************************************)
EXTENDS RequestLifecycle

CONSTANTS payee, payer, other, contract, bad,
          decl, toErc20, toEth, bitcoin, meta, content, alien, salt1, salt2

Plain(name, signer, amount) ==
    [name |-> name, signer |-> signer, versionSupported |-> TRUE,
     withRequestId |-> TRUE, payee |-> None, payer |-> None,
     amount |-> amount, extensionsData |-> << >>]

Creation(signer, creditor, debtor, amount) ==
    [Plain("create", signer, amount) EXCEPT !.payee = creditor, !.payer = debtor]

With(action, extActions) == [action EXCEPT !.extensionsData = extActions]

Ext(id, act, amount) ==
    [id |-> id, action |-> act, complete |-> TRUE, subsequent |-> FALSE,
     amount |-> amount, given |-> NothingGiven, delegate |-> None, subs |-> << >>]

Signers == {payee, payer, other}

(* Creations: every pair of parties, each signer, valid and invalid amount. *)
Creations ==
    {Creation(s, c, d, 1) : s \in Signers, c \in {payee, None, contract, bad},
                            d \in {payer, payee, None, contract}}
    \cup {Creation(payee, payee, payer, n) : n \in {-1, 0, 2}}
    \cup {[Creation(payee, payee, payer, 1) EXCEPT !.versionSupported = FALSE]}

Updates ==
    {Plain(name, s, 0) : name \in {"accept", "cancel"}, s \in Signers}
    \cup {Plain(name, s, n) :
            name \in {"increaseExpectedAmount", "reduceExpectedAmount"},
            s \in Signers, n \in {-1, 0, 2}}
    \cup {Plain("addStakeholders", other, 0), Plain("addExtensionsData", other, 0),
          Plain("unknown", payee, 0),
          [Plain("cancel", payee, 0) EXCEPT !.withRequestId = FALSE],
          With(Plain("accept", payer, 0), << Ext(alien, "create", 0) >>),
          With(Plain("addExtensionsData", other, 0), << Ext(content, "create", 0) >>)}

CoreActions == Creations \cup Updates

(* Extensions: creations with and without parameters, twice in one action, *)
(* declarations, delegates and instructions by each signer.                *)
Create1 == Ext(decl, "create", 0)
CreateWithDelegate ==
    [Create1 EXCEPT !.given.payeeDelegate = other, !.given.paymentInfo = "info"]

ExtensionCreations ==
    {With(Creation(payer, payee, payer, 1), e) :
        e \in { << CreateWithDelegate >>,
                << Create1, Ext(decl, "declareSentPayment", 1),
                   CreateWithDelegate >> }}
    \cup {With(Creation(payee, payee, payer, 1), e) :
        e \in { << Create1 >>, << CreateWithDelegate >>,
                << Ext(content, "create", 0), Ext(content, "declareSentPayment", 1) >>,
                << [Create1 EXCEPT !.complete = FALSE] >> }}

ExtensionUpdates ==
    {With(Plain("addExtensionsData", s, 0), << e >>) :
        s \in Signers,
        e \in {Create1, Ext(alien, "create", 0),
               Ext(decl, "declareSentPayment", 1),
               Ext(decl, "declareReceivedPayment", 1),
               Ext(decl, "declareReceivedPayment", -1),
               Ext(decl, "declareSentRefund", 1),
               Ext(decl, "declareReceivedRefund", 1),
               [Ext(decl, "addDelegate", 0) EXCEPT !.delegate = other],
               [Ext(decl, "addDelegate", 0) EXCEPT !.delegate = payer],
               [Ext(decl, "addPaymentInstruction", 0)
                    EXCEPT !.given.paymentInfo = "info"],
               [Ext(decl, "addRefundInstruction", 0)
                    EXCEPT !.given.refundInfo = "info"]}}

(* Networks with addresses and fees, in an action of their own or followed *)
(* by an update in the same action.                                        *)
Given(id, act, field, value) == [Ext(id, act, 0) EXCEPT !.given[field] = value]

AddressGiven == Given(toErc20, "create", "paymentAddress", contract)

NetworkCreations ==
    {With(Creation(payee, payee, payer, 1), e) :
        e \in { << AddressGiven >>,
                << Given(toErc20, "create", "feeAmount", 1),
                   Given(toErc20, "addPaymentAddress", "paymentAddress", payee) >>,
                << Ext(toEth, "create", 0) >>,
                << Ext(toEth, "create", 0),
                   Given(toEth, "addPaymentAddress", "paymentAddress", payee) >>,
                << Given(toEth, "create", "refundAddress", bad) >>,
                << [Ext(toErc20, "create", 0) EXCEPT !.subsequent = TRUE] >>,
                << Ext(bitcoin, "create", 0) >> }}

NetworkUpdates(id, s) ==
    {Given(id, "addPaymentAddress", "paymentAddress", s),
     Given(id, "addPaymentAddress", "paymentAddress", bad),
     Given(id, "addRefundAddress", "refundAddress", s),
     [Given(id, "addFee", "feeAddress", s) EXCEPT !.given.feeAmount = 1],
     Given(id, "addFee", "feeAmount", -1),
     Ext(id, "declareReceivedPayment", 1)}

(* A meta network: an action on it, and actions on each of its networks.   *)
Sub(salt, e) ==
    [salt |-> salt, action |-> [field \in DOMAIN e \ {"subs"} |-> e[field]]]
WithSubs(e, subs) == [e EXCEPT !.subs = subs]
OnSub(salt, e) == WithSubs(Ext(meta, "applyActionToPn", 0), << Sub(salt, e) >>)

MetaCreations ==
    {With(Creation(payee, payee, payer, 1), << WithSubs(Ext(meta, "create", 0), subs) >>) :
        subs \in { << Sub(salt1, CreateWithDelegate), Sub(salt2, AddressGiven) >>,
                   << Sub(salt1, Ext(toErc20, "create", 0)), Sub(salt2, Ext(toEth, "create", 0)) >>,
                   << Sub(salt1, Create1), Sub(salt1, AddressGiven) >>,
                   << Sub(salt1, Ext(bitcoin, "create", 0)) >> }}

MetaUpdates(s) ==
    {OnSub(salt1, e) : e \in NetworkUpdates(decl, s)
                              \cup {Create1, Ext(decl, "declareSentPayment", 1)}}
    \cup {OnSub(salt2, Given(toEth, "addRefundAddress", "refundAddress", s)),
          Ext(meta, "declareReceivedPayment", 1),
          [Ext(meta, "addDelegate", 0) EXCEPT !.delegate = other],
          WithSubs(Ext(meta, "create", 0), << Sub(salt1, Create1) >>)}

Additions ==
    {With(Plain("addExtensionsData", s, 0), << e >>) :
        s \in Signers,
        e \in NetworkUpdates(toErc20, payee) \cup NetworkUpdates(toEth, payee)
                  \cup MetaUpdates(payee)}

NetworkActions == NetworkCreations \cup MetaCreations \cup Additions

ExtensionActions == ExtensionCreations \cup ExtensionUpdates

AllActions == CoreActions \cup ExtensionActions \cup NetworkActions
=============================================================================
