------------------------------ MODULE EscrowToPay ------------------------------
(***************************************************************************)
(* The contract ERC20EscrowToPay (packages/smart-contracts): a payer locks *)
(* tokens for a request, then pays the payee, freezes the funds to get     *)
(* them back later, or lets the payee claim them after a delay.            *)
(*                                                                         *)
(* A transaction is one atomic step; one that reverts changes nothing and  *)
(* is no step.  Time only moves between transactions.  Tokens follow the   *)
(* ERC20 standard and keep an allowance of 2^256 - 1 as it is, so the      *)
(* allowance of the proxy is either nothing or enough.                     *)
(***************************************************************************)
EXTENDS Integers, FiniteSets, Functions

CONSTANTS Refs,            \* payment references
          Tokens, Users,
          Escrow,          \* the contract's own address
          Owner,           \* the admin, one of the Users
          None,            \* address(0)
          Amounts,         \* what a payer may send as amount or fee
          Periods,         \* what the owner may set as a period
          Supply,          \* Users -> tokens of each kind held at first
          MinPeriod,       \* 30 days
          EmergencyClaimPeriod,  \* 24 weeks
          FrozenPeriod,    \* 52 weeks
          MaxUint,         \* 2^256 - 1
          MaxTime          \* bound: the clock

Accounts == Users \cup {Escrow}

ASSUME EscrowAssumption ==
    /\ IsFiniteSet(Refs)      \* byte strings that fit in a transaction
    /\ Escrow \notin Users /\ None \notin Accounts /\ Owner \in Users
    /\ Amounts \subseteq Nat /\ Periods \subseteq Nat
    /\ Supply \in [Users -> Nat]
    /\ MinPeriod \in Nat \ {0}
    /\ EmergencyClaimPeriod \in Nat /\ EmergencyClaimPeriod >= MinPeriod
    /\ FrozenPeriod \in Nat /\ FrozenPeriod >= MinPeriod
    /\ MaxUint \in Nat /\ MaxTime \in Nat \ {0}

VARIABLES requestMapping, balance, approved,
          emergencyClaimPeriod, frozenPeriod, now

periods == << emergencyClaimPeriod, frozenPeriod >>
vars == << requestMapping, balance, approved, periods, now >>

(* The value of a mapping where nothing was written or all was deleted.    *)
NoRequest ==
    [tokenAddress |-> None, payee |-> None, payer |-> None, amount |-> 0,
     unlockDate |-> 0, emergencyClaimDate |-> 0,
     emergencyState |-> FALSE, isFrozen |-> FALSE]

Init ==
    /\ requestMapping = [ref \in Refs |-> NoRequest]
    /\ balance = [t \in Tokens |->
                     [a \in Accounts |-> IF a = Escrow THEN 0 ELSE Supply[a]]]
    /\ approved = {}
    /\ emergencyClaimPeriod = EmergencyClaimPeriod
    /\ frozenPeriod = FrozenPeriod
    /\ now = 1

-----------------------------------------------------------------------------
(* Modifiers.                                                              *)
OnlyPayer(ref, sender) == sender = requestMapping[ref].payer
OnlyPayee(ref, sender) == sender = requestMapping[ref].payee
IsInEscrow(ref)        == requestMapping[ref].amount > 0
IsNotInEmergencyState(ref) == ~requestMapping[ref].emergencyState
IsNotFrozen(ref)       == ~requestMapping[ref].isFrozen

IsNotInEscrowUnchecked(ref) == TRUE     \* mutant: a reference may be reused
IsNotInEscrow(ref)     == requestMapping[ref].amount = 0

(* The balances after a transfer, as a function of those before it.        *)
Moved(b, token, from, to, amount) ==
    [b EXCEPT ![token] =
        [a \in Accounts |-> b[token][a] - (IF a = from THEN amount ELSE 0)
                                       + (IF a = to THEN amount ELSE 0)]]

-----------------------------------------------------------------------------
(***************************************************************************)
(* payEscrow, with the delegatecall of the proxy's transfers: the amount   *)
(* to the contract, then the fee unless its address is zero.               *)
(***************************************************************************)
PayEscrow(sender, ref, token, to, amount, fee, feeAddress) ==
    LET afterAmount == Moved(balance, token, sender, Escrow, amount)
    IN  /\ IsNotInEscrow(ref)
        /\ amount # 0 /\ fee # 0
        /\ to # None
        /\ balance[token][sender] >= amount
        /\ IF feeAddress = None
           THEN balance' = afterAmount
           ELSE /\ afterAmount[token][sender] >= fee
                /\ balance' = Moved(afterAmount, token, sender, feeAddress, fee)
        /\ requestMapping' = [requestMapping EXCEPT ![ref] =
               [NoRequest EXCEPT !.tokenAddress = token, !.payee = to,
                                 !.payer = sender, !.amount = amount]]
        /\ UNCHANGED << approved, periods, now >>

FrozenInEmergency(request) ==       \* mutant: the claim is not reverted
    [request EXCEPT !.isFrozen = TRUE, !.unlockDate = now + frozenPeriod]

FrozenFromNow(request) ==           \* mutant: no waiting period
    [request EXCEPT !.emergencyState = FALSE, !.emergencyClaimDate = 0,
                    !.isFrozen = TRUE, !.unlockDate = now]

Frozen(request) ==
    [request EXCEPT !.emergencyState = FALSE, !.emergencyClaimDate = 0,
                    !.isFrozen = TRUE, !.unlockDate = now + frozenPeriod]

(* The addition reverts on overflow.                                       *)
FreezeRequest(sender, ref) ==
    /\ OnlyPayer(ref, sender)
    /\ IsInEscrow(ref)
    /\ IsNotFrozen(ref)
    /\ now + frozenPeriod <= MaxUint
    /\ requestMapping' = [requestMapping EXCEPT ![ref] = Frozen(@)]
    /\ UNCHANGED << balance, approved, periods, now >>

(***************************************************************************)
(* _withdraw: the proxy is approved if need be, the request is deleted and *)
(* the whole amount goes to the receiver, without a fee.                   *)
(***************************************************************************)
WithdrawKeepingRequest(ref, receiver) ==    \* mutant: the request stays
    LET request == requestMapping[ref]
    IN  /\ approved' = approved \cup {request.tokenAddress}
        /\ balance[request.tokenAddress][Escrow] >= request.amount
        /\ balance' = Moved(balance, request.tokenAddress, Escrow, receiver,
                            request.amount)
        /\ UNCHANGED requestMapping

Withdraw(ref, receiver) ==
    LET request == requestMapping[ref]
    IN  /\ receiver # None
        /\ approved' = approved \cup {request.tokenAddress}
        /\ balance[request.tokenAddress][Escrow] >= request.amount
        /\ balance' = Moved(balance, request.tokenAddress, Escrow, receiver,
                            request.amount)
        /\ requestMapping' = [requestMapping EXCEPT ![ref] = NoRequest]

PayRequestFromEscrow(sender, ref) ==
    /\ OnlyPayer(ref, sender)
    /\ IsInEscrow(ref)
    /\ IsNotInEmergencyState(ref)
    /\ IsNotFrozen(ref)
    /\ Withdraw(ref, requestMapping[ref].payee)
    /\ UNCHANGED << periods, now >>

InitiateEmergencyClaim(sender, ref) ==
    /\ OnlyPayee(ref, sender)
    /\ IsInEscrow(ref)
    /\ IsNotInEmergencyState(ref)
    /\ IsNotFrozen(ref)
    /\ now + emergencyClaimPeriod <= MaxUint
    /\ requestMapping' = [requestMapping EXCEPT
           ![ref].emergencyClaimDate = now + emergencyClaimPeriod,
           ![ref].emergencyState = TRUE]
    /\ UNCHANGED << balance, approved, periods, now >>

ClaimableAtOnce(ref) ==             \* mutant: the date is not checked
    requestMapping[ref].emergencyState

Claimable(ref) ==
    /\ requestMapping[ref].emergencyState
    /\ requestMapping[ref].emergencyClaimDate <= now

CompleteEmergencyClaim(sender, ref) ==
    /\ OnlyPayee(ref, sender)
    /\ IsInEscrow(ref)
    /\ IsNotFrozen(ref)
    /\ Claimable(ref)
    /\ Withdraw(ref, requestMapping[ref].payee)
    /\ UNCHANGED << periods, now >>

RevertEmergencyClaim(sender, ref) ==
    /\ OnlyPayer(ref, sender)
    /\ IsInEscrow(ref)
    /\ IsNotFrozen(ref)
    /\ requestMapping[ref].emergencyState
    /\ requestMapping' = [requestMapping EXCEPT
           ![ref].emergencyState = FALSE, ![ref].emergencyClaimDate = 0]
    /\ UNCHANGED << balance, approved, periods, now >>

(* Anyone may call it; the funds go to the payer.                          *)
RefundFrozenFunds(ref) ==
    /\ IsInEscrow(ref)
    /\ IsNotInEmergencyState(ref)
    /\ requestMapping[ref].isFrozen
    /\ requestMapping[ref].unlockDate <= now
    /\ Withdraw(ref, requestMapping[ref].payer)
    /\ UNCHANGED << periods, now >>

(* Anyone may call it, any number of times: safeApprove of lib/SafeERC20   *)
(* sets the allowance whatever it was, and its result is not looked at.    *)
ApprovePaymentProxyToSpend(token) ==
    /\ approved' = approved \cup {token}
    /\ UNCHANGED << requestMapping, balance, periods, now >>

PeriodLongEnough(period) == period >= MinPeriod

SetEmergencyClaimPeriod(sender, period) ==
    /\ sender = Owner
    /\ PeriodLongEnough(period)
    /\ emergencyClaimPeriod' = period
    /\ UNCHANGED << requestMapping, balance, approved, frozenPeriod, now >>

SetFrozenPeriod(sender, period) ==
    /\ sender = Owner
    /\ PeriodLongEnough(period)
    /\ frozenPeriod' = period
    /\ UNCHANGED << requestMapping, balance, approved, emergencyClaimPeriod, now >>

(* The time of the block of the next transaction.                          *)
Tick ==
    /\ now < MaxTime
    /\ now' = now + 1
    /\ UNCHANGED << requestMapping, balance, approved, periods >>

Next ==
    \/ \E ref \in Refs, sender \in Users :
           \/ \E token \in Tokens, to \in Accounts \cup {None},
                 amount \in Amounts, fee \in Amounts,
                 feeAddress \in Users \cup {None} :
                  PayEscrow(sender, ref, token, to, amount, fee, feeAddress)
           \/ FreezeRequest(sender, ref)
           \/ PayRequestFromEscrow(sender, ref)
           \/ InitiateEmergencyClaim(sender, ref)
           \/ CompleteEmergencyClaim(sender, ref)
           \/ RevertEmergencyClaim(sender, ref)
    \/ \E ref \in Refs : RefundFrozenFunds(ref)
    \/ \E token \in Tokens : ApprovePaymentProxyToSpend(token)
    \/ \E sender \in Users, period \in Periods :
           \/ SetEmergencyClaimPeriod(sender, period)
           \/ SetFrozenPeriod(sender, period)
    \/ Tick

Spec == Init /\ [][Next]_vars

-----------------------------------------------------------------------------
Request ==
    [tokenAddress: Tokens \cup {None}, payee: Accounts \cup {None},
     payer: Users \cup {None}, amount: Nat, unlockDate: Nat,
     emergencyClaimDate: Nat, emergencyState: BOOLEAN, isFrozen: BOOLEAN]

TypeOK ==
    /\ requestMapping \in [Refs -> Request]
    /\ balance \in [Tokens -> [Accounts -> Nat]]
    /\ approved \subseteq Tokens
    /\ emergencyClaimPeriod \in Nat /\ emergencyClaimPeriod >= MinPeriod
    /\ frozenPeriod \in Nat /\ frozenPeriod >= MinPeriod
    /\ now \in Nat

(***************************************************************************)
(* The contract never owes more than it holds: the open requests of a      *)
(* token sum up to no more than its balance, so no withdrawal can fail for *)
(* want of funds (payEscrow and _withdraw move what they record).          *)
(***************************************************************************)
Debt(request, token) == IF request.tokenAddress = token THEN request.amount ELSE 0

Owed(token) ==
    SumFunctionOnSet([ref \in Refs |-> Debt(requestMapping[ref], token)], Refs)

Solvent == \A token \in Tokens : balance[token][Escrow] >= Owed(token)

(***************************************************************************)
(* A request is frozen or under an emergency claim, never both, and is     *)
(* complete: an open one has its parties and token, and each date is set   *)
(* exactly when its flag is; a closed one is blank.                        *)
(***************************************************************************)
WellFormed(request) ==
    /\ ~(request.isFrozen /\ request.emergencyState)
    /\ request.isFrozen <=> request.unlockDate > 0
    /\ request.emergencyState <=> request.emergencyClaimDate > 0
    /\ IF request.amount > 0
       THEN /\ request.tokenAddress \in Tokens
            /\ request.payee \in Accounts
            /\ request.payer \in Users
       ELSE request = NoRequest

RequestsWellFormed == \A ref \in Refs : WellFormed(requestMapping[ref])

(***************************************************************************)
(* Nobody's money is stuck: whatever happened before, the payer of an open *)
(* request can pay, or revert the claim that keeps him from paying, or the *)
(* request is frozen and it can be refunded as soon as its date has come.  *)
(***************************************************************************)
NeverStuck ==
    \A ref \in Refs : IsInEscrow(ref) =>
        LET request == requestMapping[ref]
        IN  \/ ENABLED PayRequestFromEscrow(request.payer, ref)
            \/ ENABLED RevertEmergencyClaim(request.payer, ref)
            \/ request.isFrozen /\ request.unlockDate > now
            \/ ENABLED RefundFrozenFunds(ref)

(***************************************************************************)
(* Who gets the money of a request that closes: its payer if it was frozen *)
(* and its date has come, its payee if a claim has waited long enough or   *)
(* the request was neither frozen nor claimed.  The receiver gets exactly  *)
(* the amount of the request and no other balance changes.                 *)
(***************************************************************************)
ClosesAsAgreed ==
    [][ \A ref \in Refs :
            LET request == requestMapping[ref]
            IN  request.amount > 0 /\ requestMapping'[ref] # request
                    /\ requestMapping'[ref].amount = 0 =>
                /\ request.isFrozen => request.unlockDate <= now
                /\ request.emergencyState => request.emergencyClaimDate <= now
                /\ balance' = Moved(balance, request.tokenAddress, Escrow,
                                    IF request.isFrozen THEN request.payer
                                                        ELSE request.payee,
                                    request.amount)
      ]_vars

(***************************************************************************)
(* An open request keeps its parties, token and amount until it closes: no *)
(* payment, claim or freeze of anybody changes what is owed to whom.       *)
(***************************************************************************)
TermsKept ==
    [][ \A ref \in Refs :
            requestMapping[ref].amount > 0 =>
                \/ requestMapping'[ref] = NoRequest
                \/ \A field \in {"tokenAddress", "payee", "payer", "amount"} :
                       requestMapping'[ref][field] = requestMapping[ref][field]
      ]_vars

(***************************************************************************)
(* "This lock is irreversable, once the funds are frozen, payer must wait  *)
(* for the whole period": a freeze sets a date at least 30 days ahead, and *)
(* neither the date nor the lock changes until the refund.  In the same    *)
(* way an emergency claim gives the payer at least 30 days to react, and   *)
(* its date stays as long as the claim does.                               *)
(***************************************************************************)
WaitingPeriodsKept ==
    [][ \A ref \in Refs :
            LET old == requestMapping[ref]  new == requestMapping'[ref]
            IN  /\ old.isFrozen /\ new.amount > 0 =>
                       new.isFrozen /\ new.unlockDate = old.unlockDate
                /\ ~old.isFrozen /\ new.isFrozen =>
                       new.unlockDate >= now + MinPeriod
                /\ ~old.emergencyState /\ new.emergencyState =>
                       new.emergencyClaimDate >= now + MinPeriod
                /\ old.emergencyState /\ new.emergencyState =>
                       new.emergencyClaimDate = old.emergencyClaimDate
      ]_vars
=============================================================================
