------------------------ MODULE TransferableReceivable ------------------------
(***************************************************************************)
(* ERC20TransferableReceivable: an ERC721 token for the right to be paid a *)
(* request.  A token is minted once for an owner and a payment reference;  *)
(* whoever owns it is paid.                                                *)
(***************************************************************************)
EXTENDS PaymentProxies

CONSTANTS References,        \* payment references
          Amounts            \* amounts a receivable can be minted for, with 0

VARIABLES
    receivableTokenId,         \* the counter of ids
    receivableTokenIdMapping,  \* <<owner, reference>> -> id, 0 if not minted
    receivableInfoMapping,     \* id -> token, amount and what was paid of it
    owner                      \* id -> its owner (ERC721)

receivableVars == << receivableTokenId, receivableTokenIdMapping,
                     receivableInfoMapping, owner >>

Keys == Users \X References

ReceivableInfo == [tokenAddress : Tokens, amount : Nat, balance : Nat]

ASSUME ReceivableAssumption == Amounts \subseteq Nat

TypeOK ==
    /\ receivableTokenId \in Nat
    /\ receivableTokenIdMapping \in [Keys -> 0 .. receivableTokenId]
    /\ receivableInfoMapping \in [1 .. receivableTokenId -> ReceivableInfo]
    /\ owner \in [1 .. receivableTokenId -> Users]

ReceivableInit ==
    /\ receivableTokenId = 0
    /\ receivableTokenIdMapping = [key \in Keys |-> 0]
    /\ receivableInfoMapping = << >>
    /\ owner = << >>

NewInfo(token, amount) == [tokenAddress |-> token, amount |-> amount, balance |-> 0]

MintedOften(to, reference) == TRUE              \* mutant: minted twice
NotMinted(to, reference) == receivableTokenIdMapping[<< to, reference >>] = 0

(* mint: anyone may call it, for any owner and terms.                      *)
Mint(to, reference, amount, token) ==
    /\ amount > 0
    /\ NotMinted(to, reference)
    /\ receivableTokenId' = receivableTokenId + 1
    /\ receivableTokenIdMapping' =
           [receivableTokenIdMapping EXCEPT ![<< to, reference >>] = receivableTokenId']
    /\ receivableInfoMapping' = Append(receivableInfoMapping, NewInfo(token, amount))
    /\ owner' = Append(owner, to)

(* transferFrom of ERC721, by the owner.                                   *)
TransferFrom(id, to) ==
    /\ id \in 1 .. receivableTokenId
    /\ owner' = [owner EXCEPT ![id] = to]
    /\ UNCHANGED << receivableTokenId, receivableTokenIdMapping, receivableInfoMapping >>

(* payOwner: the state it changes here ...                                 *)
PayOwner(id, amount) ==
    /\ amount # 0
    /\ id \in 1 .. receivableTokenId
    /\ receivableInfoMapping' = [receivableInfoMapping EXCEPT ![id].balance = @ + amount]
    /\ UNCHANGED << receivableTokenId, receivableTokenIdMapping, owner >>

(* ... and the payment, which it delegates to the code of ERC20FeeProxy.   *)
PayOwnerTokens(w, sender, id, payment) ==
    Emit(TransferFromWithReferenceAndFee(w, Receivable, sender,
             receivableInfoMapping[id].tokenAddress,
             [payment EXCEPT !.to = owner[id]]),
         [name |-> "TransferableReceivablePayment", address |-> Receivable,
          recipient |-> owner[id], amount |-> payment.amount,
          receivableTokenId |-> id, paymentReference |-> payment.ref])

ReceivableNext ==
    \/ \E key \in Keys, amount \in Amounts, token \in Tokens :
           Mint(key[1], key[2], amount, token)
    \/ \E id \in 1 .. receivableTokenId, to \in Users : TransferFrom(id, to)
    \/ \E id \in 1 .. receivableTokenId, amount \in Amounts : PayOwner(id, amount)

ReceivableSpec == ReceivableInit /\ [][ReceivableNext]_receivableVars

(***************************************************************************)
(* Every receivable is the one of exactly one owner and reference: what is *)
(* paid to it is paid of one request, and the processor, which finds it by *)
(* that key, can always reach it (the mapping mint() checks and fills).    *)
(***************************************************************************)
OneReferencePerReceivable ==
    \A id \in 1 .. receivableTokenId :
        \E k \in Keys : /\ receivableTokenIdMapping[k] = id
                       /\ \A l \in Keys : receivableTokenIdMapping[l] = id => l = k

KeepsTerms ==
    /\ \A k \in Keys : receivableTokenIdMapping[k] # 0 =>
           receivableTokenIdMapping'[k] = receivableTokenIdMapping[k]
    /\ \A id \in 1 .. receivableTokenId :
           LET info == receivableInfoMapping[id]
               next == receivableInfoMapping'[id]
           IN  /\ next.tokenAddress = info.tokenAddress
               /\ next.amount = info.amount
               /\ next.balance >= info.balance

(***************************************************************************)
(* Once minted, a reference keeps its receivable, and the receivable its   *)
(* token and amount; what was paid of it only grows, whoever owns it.      *)
(***************************************************************************)
ReceivableTermsKept == [][KeepsTerms]_receivableVars
=============================================================================
