---------------------------- MODULE RequestTypes ----------------------------
(***************************************************************************)
(* Identities, roles and amounts, shared by the request logic              *)
(* (packages/request-logic) and the advanced logic (packages/              *)
(* advanced-logic).  An identity is a model value: two identities are      *)
(* equal when type and lower-cased value are, so equality of model values  *)
(* stands for areEqualIdentities.  `None` is JavaScript's undefined/null.  *)
(***************************************************************************)
EXTENDS Integers

CONSTANTS
    EthereumAddresses,    \* identities of type ethereumAddress
    SmartContracts,       \* identities of type ethereumSmartContract
    MalformedIdentities,  \* another type, or a value that is no address
    None

Identities == EthereumAddresses \cup SmartContracts \cup MalformedIdentities

ASSUME IdentitiesAssumption ==
    /\ EthereumAddresses \cap SmartContracts = {}
    /\ (EthereumAddresses \cup SmartContracts) \cap MalformedIdentities = {}
    /\ None \notin Identities

(***************************************************************************)
(* isValidAmount accepts the decimal strings of the natural numbers; a     *)
(* malformed or negative amount is any other integer.                      *)
(***************************************************************************)
IsValidAmount(amount) == amount \in Nat

IdentityHasError(identity) == identity \in MalformedIdentities

AreEqualIdentities(id1, id2) ==
    id1 # None /\ id2 # None /\ id1 = id2

Roles == {"payee", "payer", "third-party"}

(* The payee is tried first: an identity that is both is the payee.        *)
GetRole(identity, parties) ==
    IF AreEqualIdentities(parties.payee, identity) THEN "payee"
    ELSE IF AreEqualIdentities(parties.payer, identity) THEN "payer"
    ELSE "third-party"
=============================================================================
