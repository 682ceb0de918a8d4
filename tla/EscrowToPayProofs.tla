--------------------------- MODULE EscrowToPayProofs ---------------------------
(***************************************************************************)
(* Theorems about EscrowToPay, for any number of references, tokens and    *)
(* users, any amounts and any periods.  The inductive invariant is the     *)
(* type invariant with RequestsWellFormed, which is inductive with it: it  *)
(* says that a closed request is blank, so that payEscrow starts afresh,   *)
(* and that freezing and claiming exclude each other.                      *)
(*                                                                         *)
(* The solvency of the contract has an invariant of its own: what the open *)
(* requests of a token add up to.  Each transaction changes that sum by    *)
(* the one request it opens or closes, and the balance by as much.         *)
(***************************************************************************)
EXTENDS EscrowToPay, FiniteSetTheorems, TLAPS

IInv == TypeOK /\ RequestsWellFormed

(* A transfer of what the sender has keeps every balance a natural number. *)
LEMMA MovedType ==
    ASSUME NEW b \in [Tokens -> [Accounts -> Nat]],
           NEW token \in Tokens, NEW from \in Accounts, NEW to \in Accounts,
           NEW amount \in Nat, b[token][from] >= amount
    PROVE  Moved(b, token, from, to, amount) \in [Tokens -> [Accounts -> Nat]]
<1> DEFINE given == [a \in Accounts |->
                        b[token][a] - (IF a = from THEN amount ELSE 0)
                                    + (IF a = to THEN amount ELSE 0)]
<1>1. given \in [Accounts -> Nat]
  OBVIOUS
<1>2. Moved(b, token, from, to, amount) = [b EXCEPT ![token] = given]
  BY DEF Moved
<1> QED
  BY <1>1, <1>2

(* The blank request is well formed and has the type of a request.         *)
LEMMA BlankRequest == NoRequest \in Request /\ WellFormed(NoRequest)
  BY DEF NoRequest, Request, WellFormed

(* What makes an open request well formed.                                 *)
LEMMA OpenWellFormed ==
    ASSUME NEW r \in Request, r.amount > 0, r.tokenAddress \in Tokens,
           r.payee \in Accounts, r.payer \in Users,
           ~(r.isFrozen /\ r.emergencyState),
           r.isFrozen <=> r.unlockDate > 0,
           r.emergencyState <=> r.emergencyClaimDate > 0
    PROVE  WellFormed(r)
  BY DEF WellFormed

(* A withdrawal pays the receiver and blanks the request.                  *)
LEMMA WithdrawIInv ==
    ASSUME IInv, NEW ref \in Refs, NEW receiver \in Accounts,
           IsInEscrow(ref), Withdraw(ref, receiver), UNCHANGED << periods, now >>
    PROVE  IInv'
<1>1. requestMapping[ref] \in Request /\ WellFormed(requestMapping[ref])
  BY DEF IInv, TypeOK, RequestsWellFormed
<1>2. requestMapping[ref].tokenAddress \in Tokens /\ requestMapping[ref].amount \in Nat
  BY <1>1 DEF WellFormed, Request, IsInEscrow
<1>3. balance' \in [Tokens -> [Accounts -> Nat]]
  <2>1. Escrow \in Accounts
    BY DEF Accounts
  <2>2. balance[requestMapping[ref].tokenAddress][Escrow] >= requestMapping[ref].amount
    BY DEF Withdraw
  <2>3. balance \in [Tokens -> [Accounts -> Nat]]
    BY DEF IInv, TypeOK
  <2>4. balance' = Moved(balance, requestMapping[ref].tokenAddress, Escrow,
                         receiver, requestMapping[ref].amount)
    BY DEF Withdraw
  <2> QED
    BY <1>2, <2>1, <2>2, <2>3, <2>4, MovedType
<1>4. requestMapping' = [requestMapping EXCEPT ![ref] = NoRequest]
  BY DEF Withdraw
<1>5. requestMapping' \in [Refs -> Request] /\ RequestsWellFormed'
  BY <1>4, BlankRequest DEF IInv, TypeOK, RequestsWellFormed
<1>6. approved' \subseteq Tokens
  BY <1>2 DEF Withdraw, IInv, TypeOK
<1> QED
  BY <1>3, <1>5, <1>6 DEF IInv, TypeOK, periods

(* A step that rewrites one request into a well-formed one.                *)
LEMMA RewriteIInv ==
    ASSUME IInv, NEW ref \in Refs, NEW request \in Request, WellFormed(request),
           requestMapping' = [requestMapping EXCEPT ![ref] = request],
           UNCHANGED << balance, approved, periods, now >>
    PROVE  IInv'
  BY DEF IInv, TypeOK, RequestsWellFormed, periods

LEMMA InitIInv == Init => IInv
<1> SUFFICES ASSUME Init PROVE IInv
  OBVIOUS
<1>1. requestMapping \in [Refs -> Request] /\ RequestsWellFormed
  BY BlankRequest DEF Init, RequestsWellFormed
<1>2. balance \in [Tokens -> [Accounts -> Nat]]
  BY EscrowAssumption DEF Init, Accounts
<1> QED
  BY <1>1, <1>2, EscrowAssumption DEF Init, IInv, TypeOK

LEMMA PayEscrowIInv ==
    ASSUME IInv, NEW ref \in Refs, NEW sender \in Users, NEW token \in Tokens,
           NEW to \in Accounts \cup {None}, NEW amount \in Amounts,
           NEW fee \in Amounts, NEW feeAddress \in Users \cup {None},
           PayEscrow(sender, ref, token, to, amount, fee, feeAddress)
    PROVE  IInv'
<1> DEFINE afterAmount == Moved(balance, token, sender, Escrow, amount)
           request == [NoRequest EXCEPT !.tokenAddress = token, !.payee = to,
                                        !.payer = sender, !.amount = amount]
<1>1. amount \in Nat /\ fee \in Nat /\ amount > 0
  BY EscrowAssumption DEF PayEscrow
<1>2. sender \in Accounts /\ Escrow \in Accounts /\ to \in Accounts
  BY DEF Accounts, PayEscrow
<1>3. afterAmount \in [Tokens -> [Accounts -> Nat]]
  <2>1. balance \in [Tokens -> [Accounts -> Nat]] /\ balance[token][sender] >= amount
    BY DEF IInv, TypeOK, PayEscrow
  <2> QED
    BY <1>1, <1>2, <2>1, MovedType
<1>4. balance' \in [Tokens -> [Accounts -> Nat]]
  <2>1. CASE feeAddress = None
    BY <1>3, <2>1 DEF PayEscrow
  <2>2. CASE feeAddress # None
    <3>1. feeAddress \in Accounts
      BY <2>2 DEF Accounts
    <3>2. /\ afterAmount[token][sender] >= fee
          /\ balance' = Moved(afterAmount, token, sender, feeAddress, fee)
      BY <2>2 DEF PayEscrow
    <3> HIDE DEF afterAmount
    <3> QED
      BY <1>1, <1>2, <1>3, <3>1, <3>2, MovedType
  <2> QED
    BY <2>1, <2>2
<1>5. request \in Request /\ WellFormed(request)
  <2>1. request \in Request
    BY <1>1, <1>2 DEF NoRequest, Request
  <2>2. /\ request.amount > 0 /\ request.tokenAddress \in Tokens
        /\ request.payee \in Accounts /\ request.payer \in Users
        /\ request.unlockDate = 0 /\ request.emergencyClaimDate = 0
    BY <1>1, <1>2 DEF NoRequest
  <2>3. ~request.isFrozen /\ ~request.emergencyState
    BY DEF NoRequest
  <2> HIDE DEF request
  <2> QED
    BY <2>1, <2>2, <2>3, OpenWellFormed
<1>6. requestMapping' = [requestMapping EXCEPT ![ref] = request]
  BY DEF PayEscrow
<1> HIDE DEF request
<1>7. requestMapping' \in [Refs -> Request] /\ RequestsWellFormed'
  BY <1>5, <1>6 DEF IInv, TypeOK, RequestsWellFormed
<1> QED
  BY <1>4, <1>7 DEF IInv, TypeOK, PayEscrow, periods

(* A freeze puts an open request that is not frozen into a well-formed one.*)
LEMMA FrozenWellFormed ==
    ASSUME IInv, NEW ref \in Refs, IsInEscrow(ref), IsNotFrozen(ref)
    PROVE  /\ Frozen(requestMapping[ref]) \in Request
           /\ WellFormed(Frozen(requestMapping[ref]))
<1>1. requestMapping[ref] \in Request /\ WellFormed(requestMapping[ref])
  BY DEF IInv, TypeOK, RequestsWellFormed
<1>2. now + frozenPeriod \in Nat /\ now + frozenPeriod > 0
  BY EscrowAssumption DEF IInv, TypeOK
<1> DEFINE new == Frozen(requestMapping[ref])
<1>3. new \in Request
  BY <1>1, <1>2 DEF Frozen, Request
<1>4. /\ new.amount > 0 /\ new.tokenAddress \in Tokens
      /\ new.payee \in Accounts /\ new.payer \in Users
      /\ new.unlockDate > 0 /\ new.emergencyClaimDate = 0
  BY <1>1, <1>2 DEF Frozen, Request, WellFormed, IsInEscrow
<1>5. new.isFrozen /\ ~new.emergencyState
  BY <1>1 DEF Frozen, Request
<1> HIDE DEF new
<1>6. WellFormed(new)
  BY <1>3, <1>4, <1>5, OpenWellFormed
<1> QED
  BY <1>3, <1>6 DEF new

LEMMA FreezeIInv ==
    ASSUME IInv, NEW ref \in Refs, NEW sender \in Users, FreezeRequest(sender, ref)
    PROVE  IInv'
<1>1. requestMapping' =
          [requestMapping EXCEPT ![ref] = Frozen(requestMapping[ref])]
  BY DEF FreezeRequest
<1>2. IsInEscrow(ref) /\ IsNotFrozen(ref)
      /\ UNCHANGED << balance, approved, periods, now >>
  BY DEF FreezeRequest
<1> QED
  BY <1>1, <1>2, FrozenWellFormed, RewriteIInv

LEMMA InitiateIInv ==
    ASSUME IInv, NEW ref \in Refs, NEW sender \in Users,
           InitiateEmergencyClaim(sender, ref)
    PROVE  IInv'
<1> DEFINE old == requestMapping[ref]
           request == [old EXCEPT !.emergencyClaimDate = now + emergencyClaimPeriod,
                                  !.emergencyState = TRUE]
<1>1. old \in Request /\ WellFormed(old) /\ old.amount > 0
      /\ ~old.isFrozen /\ ~old.emergencyState
  BY DEF IInv, TypeOK, RequestsWellFormed, InitiateEmergencyClaim, IsInEscrow,
         IsNotFrozen, IsNotInEmergencyState
<1>2. now + emergencyClaimPeriod \in Nat /\ now + emergencyClaimPeriod > 0
  BY EscrowAssumption DEF IInv, TypeOK
<1>3. request \in Request /\ WellFormed(request)
  BY <1>1, <1>2 DEF Request, WellFormed
<1>4. requestMapping' = [requestMapping EXCEPT ![ref] = request]
  BY DEF InitiateEmergencyClaim, IInv, TypeOK
<1>5. UNCHANGED << balance, approved, periods, now >>
  BY DEF InitiateEmergencyClaim
<1> HIDE DEF request
<1> QED
  BY <1>3, <1>4, <1>5, RewriteIInv

LEMMA RevertIInv ==
    ASSUME IInv, NEW ref \in Refs, NEW sender \in Users,
           RevertEmergencyClaim(sender, ref)
    PROVE  IInv'
<1> DEFINE old == requestMapping[ref]
           request == [old EXCEPT !.emergencyState = FALSE, !.emergencyClaimDate = 0]
<1>1. old \in Request /\ WellFormed(old) /\ old.amount > 0
  BY DEF IInv, TypeOK, RequestsWellFormed, RevertEmergencyClaim, IsInEscrow
<1>2. request \in Request /\ WellFormed(request)
  <2>1. request \in Request
    BY <1>1 DEF Request
  <2>2. /\ request.amount > 0 /\ request.tokenAddress \in Tokens
        /\ request.payee \in Accounts /\ request.payer \in Users
        /\ request.unlockDate = old.unlockDate
        /\ request.emergencyClaimDate = 0
    BY <1>1 DEF Request, WellFormed
  <2>3. ~request.emergencyState /\ (request.isFrozen <=> old.isFrozen)
    BY <1>1 DEF Request
  <2>4. old.isFrozen <=> old.unlockDate > 0
    BY <1>1 DEF WellFormed
  <2> HIDE DEF request
  <2> QED
    BY <2>1, <2>2, <2>3, <2>4, OpenWellFormed
<1>3. requestMapping' = [requestMapping EXCEPT ![ref] = request]
  BY DEF RevertEmergencyClaim, IInv, TypeOK
<1>4. UNCHANGED << balance, approved, periods, now >>
  BY DEF RevertEmergencyClaim
<1> HIDE DEF request
<1> QED
  BY <1>2, <1>3, <1>4, RewriteIInv

(* The parties of an open request can receive a withdrawal.                *)
LEMMA PartiesReceive ==
    ASSUME IInv, NEW ref \in Refs, IsInEscrow(ref)
    PROVE  requestMapping[ref].payee \in Accounts /\ requestMapping[ref].payer \in Accounts
  BY DEF IInv, RequestsWellFormed, WellFormed, IsInEscrow, Accounts

(* The inductive invariant is preserved by every step.                     *)
LEMMA NextIInv == IInv /\ [Next]_vars => IInv'
<1> SUFFICES ASSUME IInv, [Next]_vars PROVE IInv'
  OBVIOUS
<1>1. CASE UNCHANGED vars
  BY <1>1 DEF IInv, TypeOK, RequestsWellFormed, vars, periods
<1>2. ASSUME NEW ref \in Refs, NEW sender \in Users, NEW token \in Tokens,
             NEW to \in Accounts \cup {None}, NEW amount \in Amounts,
             NEW fee \in Amounts, NEW feeAddress \in Users \cup {None},
             PayEscrow(sender, ref, token, to, amount, fee, feeAddress)
      PROVE  IInv'
  BY <1>2, PayEscrowIInv
<1>3. ASSUME NEW ref \in Refs, NEW sender \in Users, FreezeRequest(sender, ref)
      PROVE  IInv'
  BY <1>3, FreezeIInv
<1>4. ASSUME NEW ref \in Refs, NEW sender \in Users, PayRequestFromEscrow(sender, ref)
      PROVE  IInv'
  <2>1. IsInEscrow(ref) /\ Withdraw(ref, requestMapping[ref].payee)
        /\ UNCHANGED << periods, now >>
    BY <1>4 DEF PayRequestFromEscrow
  <2> QED
    BY <2>1, PartiesReceive, WithdrawIInv
<1>5. ASSUME NEW ref \in Refs, NEW sender \in Users, InitiateEmergencyClaim(sender, ref)
      PROVE  IInv'
  BY <1>5, InitiateIInv
<1>6. ASSUME NEW ref \in Refs, NEW sender \in Users, CompleteEmergencyClaim(sender, ref)
      PROVE  IInv'
  <2>1. IsInEscrow(ref) /\ Withdraw(ref, requestMapping[ref].payee)
        /\ UNCHANGED << periods, now >>
    BY <1>6 DEF CompleteEmergencyClaim
  <2> QED
    BY <2>1, PartiesReceive, WithdrawIInv
<1>7. ASSUME NEW ref \in Refs, NEW sender \in Users, RevertEmergencyClaim(sender, ref)
      PROVE  IInv'
  BY <1>7, RevertIInv
<1>8. ASSUME NEW ref \in Refs, RefundFrozenFunds(ref) PROVE IInv'
  <2>1. IsInEscrow(ref) /\ Withdraw(ref, requestMapping[ref].payer)
        /\ UNCHANGED << periods, now >>
    BY <1>8 DEF RefundFrozenFunds
  <2> QED
    BY <2>1, PartiesReceive, WithdrawIInv
<1>9. ASSUME NEW token \in Tokens, ApprovePaymentProxyToSpend(token) PROVE IInv'
  BY <1>9 DEF ApprovePaymentProxyToSpend, IInv, TypeOK, RequestsWellFormed, periods
<1>10. ASSUME NEW sender \in Users, NEW period \in Periods,
              SetEmergencyClaimPeriod(sender, period)
       PROVE  IInv'
  BY <1>10, EscrowAssumption
     DEF SetEmergencyClaimPeriod, PeriodLongEnough, IInv, TypeOK, RequestsWellFormed
<1>11. ASSUME NEW sender \in Users, NEW period \in Periods,
              SetFrozenPeriod(sender, period)
       PROVE  IInv'
  BY <1>11, EscrowAssumption
     DEF SetFrozenPeriod, PeriodLongEnough, IInv, TypeOK, RequestsWellFormed
<1>12. CASE Tick
  BY <1>12 DEF Tick, IInv, TypeOK, RequestsWellFormed, periods
<1> QED
  BY <1>1, <1>2, <1>3, <1>4, <1>5, <1>6, <1>7, <1>8, <1>9, <1>10, <1>11, <1>12 DEF Next

(* The type invariant with RequestsWellFormed holds in every behaviour.    *)
THEOREM Invariance == Spec => []IInv
<1>1. Init => IInv
  BY InitIInv
<1>2. IInv /\ [Next]_vars => IInv'
  BY NextIInv
<1> QED
  BY <1>1, <1>2, PTL DEF Spec

(* Every variable keeps its type; the periods never fall below 30 days.    *)
THEOREM TypeCorrect == Spec => []TypeOK
  BY Invariance, PTL DEF IInv

(* No request is ever frozen and claimed at once, and each is complete.    *)
THEOREM AlwaysWellFormed == Spec => []RequestsWellFormed
  BY Invariance, PTL DEF IInv

-----------------------------------------------------------------------------
(***************************************************************************)
(* What one step does to one request: nothing, or one of the five changes  *)
(* below.  Every action property of the module follows from this.          *)
(***************************************************************************)
Opened(ref) ==
    /\ requestMapping[ref].amount = 0
    /\ ~requestMapping'[ref].isFrozen
    /\ ~requestMapping'[ref].emergencyState
    /\ requestMapping'[ref].amount # 0

BecameFrozen(ref) ==
    /\ IsInEscrow(ref)
    /\ IsNotFrozen(ref)
    /\ requestMapping'[ref] = Frozen(requestMapping[ref])

ClaimStarted(ref) ==
    /\ IsInEscrow(ref)
    /\ IsNotInEmergencyState(ref)
    /\ IsNotFrozen(ref)
    /\ requestMapping'[ref] =
           [requestMapping[ref] EXCEPT
               !.emergencyClaimDate = now + emergencyClaimPeriod,
               !.emergencyState = TRUE]

ClaimReverted(ref) ==
    /\ IsInEscrow(ref)
    /\ IsNotFrozen(ref)
    /\ requestMapping'[ref] =
           [requestMapping[ref] EXCEPT
               !.emergencyState = FALSE, !.emergencyClaimDate = 0]

ClosedFor(ref, receiver) ==
    /\ IsInEscrow(ref)
    /\ requestMapping'[ref] = NoRequest
    /\ balance' = Moved(balance, requestMapping[ref].tokenAddress, Escrow,
                        receiver, requestMapping[ref].amount)

Closed(ref) ==
    \/ /\ IsNotFrozen(ref)
       /\ IsNotInEmergencyState(ref) \/ Claimable(ref)
       /\ ClosedFor(ref, requestMapping[ref].payee)
    \/ /\ requestMapping[ref].isFrozen
       /\ IsNotInEmergencyState(ref)
       /\ requestMapping[ref].unlockDate <= now
       /\ ClosedFor(ref, requestMapping[ref].payer)

Effect(ref) ==
    \/ requestMapping'[ref] = requestMapping[ref]
    \/ Opened(ref) \/ BecameFrozen(ref) \/ ClaimStarted(ref)
    \/ ClaimReverted(ref) \/ Closed(ref)

(* A withdrawal closes its request and leaves every other one alone.       *)
LEMMA WithdrawEffect ==
    ASSUME IInv, NEW ref \in Refs, NEW other \in Refs, NEW receiver,
           IsInEscrow(other), Withdraw(other, receiver)
    PROVE  IF ref = other THEN ClosedFor(ref, receiver)
           ELSE requestMapping'[ref] = requestMapping[ref]
  BY DEF IInv, TypeOK, Withdraw, ClosedFor

LEMMA StepEffect ==
    ASSUME IInv, [Next]_vars, NEW ref \in Refs
    PROVE  Effect(ref)
<1>1. CASE UNCHANGED vars
  BY <1>1 DEF vars, Effect
<1>2. ASSUME NEW other \in Refs, NEW sender \in Users, NEW token \in Tokens,
             NEW to \in Accounts \cup {None}, NEW amount \in Amounts,
             NEW fee \in Amounts, NEW feeAddress \in Users \cup {None},
             PayEscrow(sender, other, token, to, amount, fee, feeAddress)
      PROVE  Effect(ref)
  <2> DEFINE request == [NoRequest EXCEPT !.tokenAddress = token, !.payee = to,
                                          !.payer = sender, !.amount = amount]
  <2>1. requestMapping' = [requestMapping EXCEPT ![other] = request]
        /\ requestMapping[other].amount = 0 /\ amount # 0
    BY <1>2 DEF PayEscrow, IsNotInEscrow
  <2>2. ~request.isFrozen /\ ~request.emergencyState /\ request.amount = amount
    BY DEF NoRequest
  <2> HIDE DEF request
  <2>3. CASE ref = other
    <3>1. requestMapping'[ref] = request
      BY <2>1, <2>3 DEF IInv, TypeOK
    <3> QED
      BY <2>1, <2>2, <2>3, <3>1 DEF Effect, Opened
  <2>4. CASE ref # other
    BY <2>1, <2>4 DEF IInv, TypeOK, Effect
  <2> QED
    BY <2>3, <2>4
<1>3. ASSUME NEW other \in Refs, NEW sender \in Users, FreezeRequest(sender, other)
      PROVE  Effect(ref)
  BY <1>3 DEF FreezeRequest, IInv, TypeOK, Effect, BecameFrozen
<1>4. ASSUME NEW other \in Refs, NEW sender \in Users,
             PayRequestFromEscrow(sender, other)
      PROVE  Effect(ref)
  <2>1. IsInEscrow(other) /\ IsNotInEmergencyState(other) /\ IsNotFrozen(other)
        /\ Withdraw(other, requestMapping[other].payee)
    BY <1>4 DEF PayRequestFromEscrow
  <2> QED
    BY <2>1, WithdrawEffect DEF Effect, Closed
<1>5. ASSUME NEW other \in Refs, NEW sender \in Users,
             InitiateEmergencyClaim(sender, other)
      PROVE  Effect(ref)
  BY <1>5 DEF InitiateEmergencyClaim, IInv, TypeOK, Effect, ClaimStarted
<1>6. ASSUME NEW other \in Refs, NEW sender \in Users,
             CompleteEmergencyClaim(sender, other)
      PROVE  Effect(ref)
  <2>1. IsInEscrow(other) /\ Claimable(other) /\ IsNotFrozen(other)
        /\ Withdraw(other, requestMapping[other].payee)
    BY <1>6 DEF CompleteEmergencyClaim
  <2> QED
    BY <2>1, WithdrawEffect DEF Effect, Closed
<1>7. ASSUME NEW other \in Refs, NEW sender \in Users,
             RevertEmergencyClaim(sender, other)
      PROVE  Effect(ref)
  BY <1>7 DEF RevertEmergencyClaim, IInv, TypeOK, Effect, ClaimReverted
<1>8. ASSUME NEW other \in Refs, RefundFrozenFunds(other) PROVE Effect(ref)
  <2>1. IsInEscrow(other) /\ IsNotInEmergencyState(other)
        /\ requestMapping[other].isFrozen
        /\ requestMapping[other].unlockDate <= now
        /\ Withdraw(other, requestMapping[other].payer)
    BY <1>8 DEF RefundFrozenFunds
  <2> QED
    BY <2>1, WithdrawEffect DEF Effect, Closed
<1>9. ASSUME NEW token \in Tokens, ApprovePaymentProxyToSpend(token)
      PROVE  Effect(ref)
  BY <1>9 DEF ApprovePaymentProxyToSpend, Effect
<1>10. ASSUME NEW sender \in Users, NEW period \in Periods,
              \/ SetEmergencyClaimPeriod(sender, period)
              \/ SetFrozenPeriod(sender, period)
       PROVE  Effect(ref)
  BY <1>10 DEF SetEmergencyClaimPeriod, SetFrozenPeriod, Effect
<1>11. CASE Tick
  BY <1>11 DEF Tick, Effect
<1> QED
  BY <1>1, <1>2, <1>3, <1>4, <1>5, <1>6, <1>7, <1>8, <1>9, <1>10, <1>11 DEF Next

(* A freeze, a claim and its revert leave the terms of a request alone.    *)
SameTerms(old, new) ==
    /\ new.tokenAddress = old.tokenAddress /\ new.payee = old.payee
    /\ new.payer = old.payer /\ new.amount = old.amount

LEMMA ChangesKeepTerms ==
    ASSUME NEW ref \in Refs, requestMapping[ref] \in Request,
           BecameFrozen(ref) \/ ClaimStarted(ref) \/ ClaimReverted(ref)
    PROVE  SameTerms(requestMapping[ref], requestMapping'[ref])
<1>1. CASE BecameFrozen(ref)
  BY <1>1 DEF BecameFrozen, Frozen, Request, SameTerms
<1>2. CASE ClaimStarted(ref)
  BY <1>2 DEF ClaimStarted, Request, SameTerms
<1>3. CASE ClaimReverted(ref)
  BY <1>3 DEF ClaimReverted, Request, SameTerms
<1> QED
  BY <1>1, <1>2, <1>3

(***************************************************************************)
(* The terms of an open request never change until it closes.              *)
(***************************************************************************)
THEOREM TermsAreKept == Spec => TermsKept
<1> DEFINE Kept(ref) ==
        requestMapping[ref].amount > 0 =>
            \/ requestMapping'[ref] = NoRequest
            \/ \A field \in {"tokenAddress", "payee", "payer", "amount"} :
                   requestMapping'[ref][field] = requestMapping[ref][field]
<1>1. ASSUME IInv, [Next]_vars, NEW ref \in Refs PROVE Kept(ref)
  <2>1. requestMapping[ref] \in Request
    BY <1>1 DEF IInv, TypeOK
  <2>2. Effect(ref)
    BY <1>1, StepEffect
  <2>3. CASE requestMapping'[ref] = requestMapping[ref] \/ Opened(ref)
    BY <2>1, <2>3 DEF Opened
  <2>4. CASE BecameFrozen(ref) \/ ClaimStarted(ref) \/ ClaimReverted(ref)
    BY <2>1, <2>4, ChangesKeepTerms DEF SameTerms
  <2>5. CASE Closed(ref)
    BY <2>5 DEF Closed, ClosedFor
  <2> QED
    BY <2>2, <2>3, <2>4, <2>5 DEF Effect
<1>2. IInv /\ [Next]_vars => \A ref \in Refs : Kept(ref)
  BY <1>1
<1> QED
  BY <1>2, Invariance, PTL DEF Spec, TermsKept

(***************************************************************************)
(* A request closes only for the party and at the time agreed, and exactly *)
(* its amount leaves the contract.                                         *)
(***************************************************************************)
THEOREM ClosingIsAsAgreed == Spec => ClosesAsAgreed
<1> DEFINE Agreed(ref) ==
        LET request == requestMapping[ref]
        IN  request.amount > 0 /\ requestMapping'[ref] # request
                /\ requestMapping'[ref].amount = 0 =>
            /\ request.isFrozen => request.unlockDate <= now
            /\ request.emergencyState => request.emergencyClaimDate <= now
            /\ balance' = Moved(balance, request.tokenAddress, Escrow,
                                IF request.isFrozen THEN request.payer
                                                    ELSE request.payee,
                                request.amount)
<1>1. ASSUME IInv, [Next]_vars, NEW ref \in Refs PROVE Agreed(ref)
  <2>1. requestMapping[ref] \in Request
    BY <1>1 DEF IInv, TypeOK
  <2> SUFFICES ASSUME requestMapping[ref].amount > 0,
                      requestMapping'[ref] # requestMapping[ref],
                      requestMapping'[ref].amount = 0
               PROVE  /\ requestMapping[ref].isFrozen =>
                             requestMapping[ref].unlockDate <= now
                      /\ requestMapping[ref].emergencyState =>
                             requestMapping[ref].emergencyClaimDate <= now
                      /\ balance' = Moved(balance, requestMapping[ref].tokenAddress,
                             Escrow, IF requestMapping[ref].isFrozen
                                     THEN requestMapping[ref].payer
                                     ELSE requestMapping[ref].payee,
                             requestMapping[ref].amount)
    OBVIOUS
  <2>2. Closed(ref)
    <3>1. Effect(ref)
      BY <1>1, StepEffect
    <3>2. ~(BecameFrozen(ref) \/ ClaimStarted(ref) \/ ClaimReverted(ref))
      BY <2>1, ChangesKeepTerms DEF SameTerms
    <3>3. ~Opened(ref)
      BY DEF Opened
    <3> QED
      BY <3>1, <3>2, <3>3 DEF Effect
  <2> QED
    BY <2>2 DEF Closed, ClosedFor, IsNotFrozen, IsNotInEmergencyState, Claimable
<1>2. IInv /\ [Next]_vars => \A ref \in Refs : Agreed(ref)
  BY <1>1
<1> QED
  BY <1>2, Invariance, PTL DEF Spec, ClosesAsAgreed

(***************************************************************************)
(* The dates of a freeze and of a claim lie at least 30 days ahead and     *)
(* stay; a freeze only ends with the refund.                               *)
(***************************************************************************)
THEOREM WaitingIsKept == Spec => WaitingPeriodsKept
<1> DEFINE Waits(ref) ==
        LET old == requestMapping[ref]  new == requestMapping'[ref]
        IN  /\ old.isFrozen /\ new.amount > 0 =>
                   new.isFrozen /\ new.unlockDate = old.unlockDate
            /\ ~old.isFrozen /\ new.isFrozen =>
                   new.unlockDate >= now + MinPeriod
            /\ ~old.emergencyState /\ new.emergencyState =>
                   new.emergencyClaimDate >= now + MinPeriod
            /\ old.emergencyState /\ new.emergencyState =>
                   new.emergencyClaimDate = old.emergencyClaimDate
<1>1. ASSUME IInv, [Next]_vars, NEW ref \in Refs PROVE Waits(ref)
  <2> DEFINE old == requestMapping[ref]
             new == requestMapping'[ref]
  <2>1. old \in Request /\ WellFormed(old)
    BY <1>1 DEF IInv, TypeOK, RequestsWellFormed
  <2>2. /\ now \in Nat /\ MinPeriod \in Nat
        /\ frozenPeriod \in Nat /\ frozenPeriod >= MinPeriod
        /\ emergencyClaimPeriod \in Nat /\ emergencyClaimPeriod >= MinPeriod
    BY <1>1, EscrowAssumption DEF IInv, TypeOK
  <2>3. Effect(ref)
    BY <1>1, StepEffect
  <2>4. CASE new = old
    BY <2>1, <2>4
  <2>5. CASE Opened(ref)
    <3>1. ~old.isFrozen /\ ~old.emergencyState
      BY <2>1, <2>5 DEF Opened, WellFormed, NoRequest
    <3> QED
      BY <2>5, <3>1 DEF Opened
  <2>6. CASE BecameFrozen(ref)
    <3>1. /\ new.isFrozen /\ ~new.emergencyState /\ ~old.isFrozen
          /\ new.unlockDate = now + frozenPeriod
      BY <2>1, <2>6 DEF BecameFrozen, Frozen, Request, IsNotFrozen
    <3>2. new.unlockDate >= now + MinPeriod
      BY <2>2, <3>1
    <3> QED
      BY <3>1, <3>2
  <2>7. CASE ClaimStarted(ref)
    <3>1. /\ (new.isFrozen <=> old.isFrozen) /\ ~old.isFrozen
          /\ ~old.emergencyState
          /\ new.emergencyClaimDate = now + emergencyClaimPeriod
      BY <2>1, <2>7 DEF ClaimStarted, Request, IsNotFrozen, IsNotInEmergencyState
    <3>2. new.emergencyClaimDate >= now + MinPeriod
      BY <2>2, <3>1
    <3> QED
      BY <3>1, <3>2
  <2>8. CASE ClaimReverted(ref)
    <3>1. (new.isFrozen <=> old.isFrozen) /\ ~old.isFrozen /\ ~new.emergencyState
      BY <2>1, <2>8 DEF ClaimReverted, Request, IsNotFrozen
    <3> QED
      BY <3>1
  <2>9. CASE Closed(ref)
    <3>1. ~new.isFrozen /\ ~new.emergencyState /\ new.amount = 0
      BY <2>9 DEF Closed, ClosedFor, NoRequest
    <3> QED
      BY <3>1
  <2> QED
    BY <2>3, <2>4, <2>5, <2>6, <2>7, <2>8, <2>9 DEF Effect
<1>2. IInv /\ [Next]_vars => \A ref \in Refs : Waits(ref)
  BY <1>1
<1> QED
  BY <1>2, Invariance, PTL DEF Spec, WaitingPeriodsKept
-----------------------------------------------------------------------------
(***************************************************************************)
(* Sums over finite sets, as the model's Owed computes them.  Induction is *)
(* over the size of a set, with a set in the place of the predicate.       *)
(***************************************************************************)
Ignored(p, q, result, element) == result
Induction == INSTANCE SequenceFolds WITH Op <- Ignored

Pick(s) == CHOOSE x \in s : TRUE

(* What holds of {} and of a set when it holds without one element holds   *)
(* of every subset of a finite set.                                        *)
LEMMA SubsetInduction ==
    ASSUME NEW S, IsFiniteSet(S), NEW T, {} \in T,
           \A s \in SUBSET S : s # {} /\ s \ {Pick(s)} \in T => s \in T
    PROVE  \A s \in SUBSET S : s \in T
<1> DEFINE Upto == {n \in Nat : \A s \in SUBSET S : Cardinality(s) <= n => s \in T}
<1>1. ASSUME NEW s \in SUBSET S PROVE IsFiniteSet(s) /\ Cardinality(s) \in Nat
  BY FS_Subset, FS_CardinalityType
<1>2. ASSUME NEW s \in SUBSET S PROVE Cardinality(s) = 0 <=> s = {}
  BY <1>1, FS_EmptySet
<1>3. 0 \in Upto
  <2>1. ASSUME NEW s \in SUBSET S, Cardinality(s) <= 0 PROVE s \in T
    <3>1. Cardinality(s) = 0
      BY <1>1, <2>1
    <3> QED
      BY <1>2, <3>1
  <2> QED
    BY <2>1
<1>4. ASSUME NEW n \in Nat, n \in Upto PROVE n + 1 \in Upto
  <2>1. ASSUME NEW s \in SUBSET S, Cardinality(s) <= n + 1 PROVE s \in T
    <3>1. CASE s = {}
      BY <3>1
    <3>2. CASE s # {}
      <4>1. Pick(s) \in s
        BY <3>2 DEF Pick
      <4>2. Cardinality(s \ {Pick(s)}) = Cardinality(s) - 1
        BY <1>1, <4>1, FS_RemoveElement
      <4>3. s \ {Pick(s)} \in SUBSET S /\ Cardinality(s \ {Pick(s)}) <= n
        BY <1>1, <2>1, <4>2
      <4> QED
        BY <1>4, <3>2, <4>3
    <3> QED
      BY <3>1, <3>2
  <2> QED
    BY <2>1
<1> HIDE DEF Upto
<1>5. \A n \in Nat : n \in Upto
  BY <1>3, <1>4, Induction!NatInductive
<1> QED
  BY <1>1, <1>5 DEF Upto

(* The recursion that SumFunctionOnSet solves.                             *)
Sums(f, D, g) ==
    [s \in D |-> IF s = {} THEN 0 ELSE f[Pick(s)] + g[s \ {Pick(s)}]]

LEMMA SumUnfolded ==
    ASSUME NEW f, NEW S
    PROVE  SumFunctionOnSet(f, S) = (CHOOSE g : g = Sums(f, SUBSET S, g))[S]
  BY DEF SumFunctionOnSet, FoldFunctionOnSet, MapThenFoldSet, Sums, Pick

(* It has a solution.                                                      *)
LEMMA SumsExist ==
    ASSUME NEW f, NEW S, IsFiniteSet(S)
    PROVE  \E g : g = Sums(f, SUBSET S, g)
<1> DEFINE Small(n) == {s \in SUBSET S : Cardinality(s) <= n}
           Has(n)   == \E g : g = Sums(f, Small(n), g)
           Solved   == {n \in Nat : Has(n)}
<1>1. ASSUME NEW s \in SUBSET S PROVE IsFiniteSet(s) /\ Cardinality(s) \in Nat
  BY FS_Subset, FS_CardinalityType
<1>2. 0 \in Solved
  <2> DEFINE g == [s \in Small(0) |-> 0]
  <2>1. \A s \in Small(0) : s = {}
    BY <1>1, FS_EmptySet
  <2>2. g = Sums(f, Small(0), g)
    BY <2>1 DEF Sums
  <2> QED
    BY <2>2
<1>3. ASSUME NEW n \in Nat, n \in Solved PROVE n + 1 \in Solved
  <2>1. PICK g : g = Sums(f, Small(n), g)
    BY <1>3
  <2> DEFINE h == Sums(f, Small(n + 1), g)
  <2>2. ASSUME NEW s \in Small(n + 1), s # {} PROVE s \ {Pick(s)} \in Small(n)
    <3>1. Pick(s) \in s
      BY <2>2 DEF Pick
    <3>2. Cardinality(s \ {Pick(s)}) = Cardinality(s) - 1
      BY <1>1, <3>1, FS_RemoveElement
    <3> QED
      BY <1>1, <3>2
  <2>3. ASSUME NEW s \in Small(n) PROVE h[s] = g[s]
    <3>1. s \in Small(n + 1)
      BY <1>1
    <3>2. g[s] = IF s = {} THEN 0 ELSE f[Pick(s)] + g[s \ {Pick(s)}]
      BY <2>1 DEF Sums
    <3> QED
      BY <3>1, <3>2 DEF Sums
  <2>4. ASSUME NEW s \in Small(n + 1), s # {}
        PROVE  h[s \ {Pick(s)}] = g[s \ {Pick(s)}]
    BY <2>2, <2>3, <2>4
  <2> HIDE DEF h
  <2>5. h = Sums(f, Small(n + 1), h)
    <3>1. \A s \in Small(n + 1) :
              (IF s = {} THEN 0 ELSE f[Pick(s)] + g[s \ {Pick(s)}])
            = (IF s = {} THEN 0 ELSE f[Pick(s)] + h[s \ {Pick(s)}])
      BY <2>4
    <3> QED
      BY <3>1 DEF Sums, h
  <2> QED
    BY <2>5
<1> HIDE DEF Has
<1>4. \A n \in Nat : n \in Solved
  BY <1>2, <1>3, Induction!NatInductive
<1>5. Cardinality(S) \in Nat /\ Small(Cardinality(S)) = SUBSET S
  BY <1>1, FS_Subset, FS_CardinalityType
<1> HIDE DEF Small
<1> QED
  BY <1>4, <1>5 DEF Has

(* The partial sums of f over the subsets of S.                            *)
IsSum(f, S, g) ==
    /\ g \in [SUBSET S -> Int]
    /\ g[{}] = 0
    /\ \A s \in SUBSET S : s # {} => g[s] = f[Pick(s)] + g[s \ {Pick(s)}]

LEMMA SumTrace ==
    ASSUME NEW S, IsFiniteSet(S), NEW f \in [S -> Int]
    PROVE  \E g : IsSum(f, S, g) /\ SumFunctionOnSet(f, S) = g[S]
<1> DEFINE g == CHOOSE g : g = Sums(f, SUBSET S, g)
<1>1. g = Sums(f, SUBSET S, g)
  BY SumsExist
<1>2. SumFunctionOnSet(f, S) = g[S]
  BY SumUnfolded
<1> HIDE DEF g
<1>3. /\ g[{}] = 0
      /\ \A s \in SUBSET S : s # {} => g[s] = f[Pick(s)] + g[s \ {Pick(s)}]
  BY <1>1 DEF Sums
<1> DEFINE Typed == {s \in SUBSET S : g[s] \in Int}
<1>4. {} \in Typed
  BY <1>3
<1>5. ASSUME NEW s \in SUBSET S, s # {}, s \ {Pick(s)} \in Typed PROVE s \in Typed
  <2>1. f[Pick(s)] \in Int
    BY <1>5 DEF Pick
  <2>2. g[s \ {Pick(s)}] \in Int
    BY <1>5
  <2>3. g[s] = f[Pick(s)] + g[s \ {Pick(s)}]
    BY <1>3, <1>5
  <2>4. g[s] \in Int
    BY <2>1, <2>2, <2>3
  <2> QED
    BY <2>4
<1> HIDE DEF Typed
<1>6. \A s \in SUBSET S : s \in Typed
  BY <1>4, <1>5, SubsetInduction
<1>7. g \in [SUBSET S -> Int]
  BY <1>1, <1>6 DEF Sums, Typed
<1> QED
  BY <1>2, <1>3, <1>7 DEF IsSum

(* A sum of zeros is zero.                                                 *)
LEMMA SumOfZeros ==
    ASSUME NEW S, IsFiniteSet(S), NEW f \in [S -> Int], \A x \in S : f[x] = 0
    PROVE  SumFunctionOnSet(f, S) = 0
<1>1. PICK g : IsSum(f, S, g) /\ SumFunctionOnSet(f, S) = g[S]
  BY SumTrace
<1> DEFINE Zero == {s \in SUBSET S : g[s] = 0}
<1>2. {} \in Zero
  BY <1>1 DEF IsSum
<1>3. ASSUME NEW s \in SUBSET S, s # {}, s \ {Pick(s)} \in Zero PROVE s \in Zero
  <2>1. f[Pick(s)] = 0
    BY <1>3 DEF Pick
  <2> QED
    BY <1>1, <1>3, <2>1 DEF IsSum
<1> HIDE DEF Zero
<1>4. \A s \in SUBSET S : s \in Zero
  BY <1>2, <1>3, SubsetInduction
<1> QED
  BY <1>1, <1>4 DEF Zero

(* A sum of natural numbers is at least each of them.                      *)
LEMMA SumBoundsEach ==
    ASSUME NEW S, IsFiniteSet(S), NEW f \in [S -> Nat], NEW x \in S
    PROVE  SumFunctionOnSet(f, S) \in Int /\ f[x] <= SumFunctionOnSet(f, S)
<1>1. PICK g : IsSum(f, S, g) /\ SumFunctionOnSet(f, S) = g[S]
  BY SumTrace
<1> DEFINE Bound == {s \in SUBSET S : g[s] >= 0 /\ (x \in s => f[x] <= g[s])}
<1>2. {} \in Bound
  BY <1>1 DEF IsSum
<1>3. ASSUME NEW s \in SUBSET S, s # {}, s \ {Pick(s)} \in Bound PROVE s \in Bound
  <2> DEFINE y == Pick(s)
             t == s \ {y}
  <2>1. y \in s /\ y \in S
    BY <1>3 DEF Pick
  <2> HIDE DEF y
  <2>2. g[s] = f[y] + g[t] /\ g[t] \in Int /\ g[s] \in Int
    BY <1>1, <1>3 DEF IsSum, y
  <2>3. f[x] \in Nat /\ f[y] \in Nat
    BY <2>1
  <2>4. g[t] >= 0 /\ (x \in t => f[x] <= g[t])
    BY <1>3 DEF y
  <2>5. g[s] >= 0
    BY <2>2, <2>3, <2>4
  <2>6. ASSUME x \in s PROVE f[x] <= g[s]
    <3>1. CASE x = y
      BY <2>2, <2>3, <2>4, <3>1
    <3>2. CASE x # y
      BY <2>2, <2>3, <2>4, <2>6, <3>2
    <3> QED
      BY <3>1, <3>2
  <2> QED
    BY <2>5, <2>6
<1> HIDE DEF Bound
<1>4. \A s \in SUBSET S : s \in Bound
  BY <1>2, <1>3, SubsetInduction
<1>5. S \in Bound /\ g[S] \in Int
  BY <1>1, <1>4 DEF IsSum
<1> QED
  BY <1>1, <1>5 DEF Bound

(* A change of one number changes the sum by as much.                      *)
LEMMA SumChanged ==
    ASSUME NEW S, IsFiniteSet(S), NEW f \in [S -> Int], NEW h \in [S -> Int],
           NEW x \in S, \A y \in S : y # x => h[y] = f[y]
    PROVE  /\ SumFunctionOnSet(f, S) \in Int
           /\ SumFunctionOnSet(h, S) = SumFunctionOnSet(f, S) + (h[x] - f[x])
<1>1. PICK g : IsSum(f, S, g) /\ SumFunctionOnSet(f, S) = g[S]
  BY SumTrace
<1>2. PICK k : IsSum(h, S, k) /\ SumFunctionOnSet(h, S) = k[S]
  BY SumTrace
<1> DEFINE Delta(s) == IF x \in s THEN h[x] - f[x] ELSE 0
           Moves == {s \in SUBSET S : k[s] = g[s] + Delta(s)}
<1>3. {} \in Moves
  BY <1>1, <1>2 DEF IsSum
<1>4. ASSUME NEW s \in SUBSET S, s # {}, s \ {Pick(s)} \in Moves PROVE s \in Moves
  <2> DEFINE y == Pick(s)
             t == s \ {y}
  <2>1. y \in s /\ y \in S
    BY <1>4 DEF Pick
  <2> HIDE DEF y
  <2>2. /\ g[s] = f[y] + g[t] /\ g[t] \in Int /\ g[s] \in Int
        /\ k[s] = h[y] + k[t] /\ k[t] \in Int /\ k[s] \in Int
    BY <1>1, <1>2, <1>4 DEF IsSum, y
  <2>3. /\ f[x] \in Int /\ f[y] \in Int /\ h[x] \in Int /\ h[y] \in Int
        /\ y # x => h[y] = f[y]
    BY <2>1
  <2>4. k[t] = g[t] + Delta(t)
    BY <1>4 DEF y
  <2>5. CASE x = y
    <3>1. Delta(t) = 0 /\ Delta(s) = h[x] - f[x]
      BY <2>1, <2>5
    <3> QED
      BY <2>2, <2>3, <2>4, <2>5, <3>1
  <2>6. CASE x # y
    <3>1. Delta(t) = Delta(s) /\ Delta(t) \in Int
      BY <2>3, <2>6
    <3> HIDE DEF Delta
    <3> QED
      BY <2>2, <2>3, <2>4, <2>6, <3>1
  <2> QED
    BY <2>5, <2>6
<1> HIDE DEF Moves
<1>5. \A s \in SUBSET S : s \in Moves
  BY <1>3, <1>4, SubsetInduction
<1>6. k[S] = g[S] + (h[x] - f[x]) /\ g[S] \in Int
  BY <1>1, <1>5 DEF Moves, IsSum
<1> QED
  BY <1>1, <1>2, <1>6

-----------------------------------------------------------------------------
(***************************************************************************)
(* Solvency.  A step rewrites at most one request; what it does to the     *)
(* contract's balance covers what it does to that request's debt.          *)
(***************************************************************************)
LEMMA SolventIfCovered ==
    ASSUME IInv, IInv', Solvent, NEW ref \in Refs, NEW request \in Request,
           requestMapping' = [requestMapping EXCEPT ![ref] = request],
           \A token \in Tokens :
               balance'[token][Escrow] + Debt(requestMapping[ref], token)
                   >= balance[token][Escrow] + Debt(request, token)
    PROVE  Solvent'
<1> SUFFICES ASSUME NEW token \in Tokens
             PROVE  balance'[token][Escrow] >= Owed(token)'
  BY DEF Solvent
<1> DEFINE f == [r \in Refs |-> Debt(requestMapping[r], token)]
           h == [r \in Refs |-> Debt(requestMapping'[r], token)]
<1>1. f \in [Refs -> Int] /\ h \in [Refs -> Int]
  BY DEF IInv, TypeOK, Request, Debt
<1>2. \A r \in Refs : r # ref => h[r] = f[r]
  BY DEF IInv, TypeOK
<1>3. f[ref] = Debt(requestMapping[ref], token) /\ h[ref] = Debt(request, token)
  BY DEF IInv, TypeOK
<1>4. Owed(token) = SumFunctionOnSet(f, Refs) /\ Owed(token)' = SumFunctionOnSet(h, Refs)
  BY DEF Owed
<1>5. f[ref] \in Int /\ h[ref] \in Int
  BY <1>1
<1> HIDE DEF f, h
<1>6. IsFiniteSet(Refs)
  BY EscrowAssumption
<1>7. /\ SumFunctionOnSet(f, Refs) \in Int
      /\ SumFunctionOnSet(h, Refs) = SumFunctionOnSet(f, Refs) + (h[ref] - f[ref])
  BY <1>1, <1>2, <1>6, SumChanged
<1>8. balance[token][Escrow] \in Nat /\ balance'[token][Escrow] \in Nat
  BY DEF IInv, TypeOK, Accounts
<1>9. balance[token][Escrow] >= SumFunctionOnSet(f, Refs)
  BY <1>4 DEF Solvent
<1>10. balance'[token][Escrow] + f[ref] >= balance[token][Escrow] + h[ref]
  BY <1>3
<1> QED
  BY <1>4, <1>5, <1>7, <1>8, <1>9, <1>10

(* A step that moves no token and changes no token address or amount.      *)
LEMMA SolventIfSame ==
    ASSUME IInv, IInv', Solvent, balance' = balance,
           \A r \in Refs :
               /\ requestMapping'[r].tokenAddress = requestMapping[r].tokenAddress
               /\ requestMapping'[r].amount = requestMapping[r].amount
    PROVE  Solvent'
<1> SUFFICES ASSUME NEW token \in Tokens
             PROVE  balance[token][Escrow] >= Owed(token)'
  BY DEF Solvent
<1>1. \A r \in Refs : Debt(requestMapping'[r], token) = Debt(requestMapping[r], token)
  BY DEF Debt
<1>2. Owed(token)' = Owed(token)
  BY <1>1 DEF Owed
<1> QED
  BY <1>2 DEF Solvent

(* A withdrawal takes from the contract no more than it takes off its debt.*)
LEMMA WithdrawSolvent ==
    ASSUME IInv, IInv', Solvent, NEW ref \in Refs, NEW receiver, IsInEscrow(ref),
           Withdraw(ref, receiver)
    PROVE  Solvent'
<1> DEFINE old == requestMapping[ref]
<1>1. old \in Request /\ old.tokenAddress \in Tokens /\ old.amount \in Nat
  BY DEF IInv, TypeOK, RequestsWellFormed, WellFormed, Request, IsInEscrow
<1>2. /\ requestMapping' = [requestMapping EXCEPT ![ref] = NoRequest]
      /\ balance' = Moved(balance, old.tokenAddress, Escrow, receiver, old.amount)
  BY DEF Withdraw
<1>3. balance \in [Tokens -> [Accounts -> Nat]] /\ Escrow \in Accounts
  BY DEF IInv, TypeOK, Accounts
<1> HIDE DEF old
<1>4. ASSUME NEW token \in Tokens
      PROVE  balance'[token][Escrow] + Debt(old, token)
                 >= balance[token][Escrow] + Debt(NoRequest, token)
  <2>1. balance[token][Escrow] \in Nat /\ Debt(NoRequest, token) = 0
    BY <1>3 DEF Debt, NoRequest
  <2>2. CASE token = old.tokenAddress
    <3>1. Debt(old, token) = old.amount
      BY <2>2 DEF Debt
    <3>2. balance'[token][Escrow] = balance[token][Escrow] - old.amount
                                      + (IF Escrow = receiver THEN old.amount ELSE 0)
      BY <1>2, <1>3, <2>2 DEF Moved
    <3> QED
      BY <1>1, <2>1, <3>1, <3>2
  <2>3. CASE token # old.tokenAddress
    <3>1. Debt(old, token) = 0 /\ balance'[token][Escrow] = balance[token][Escrow]
      BY <1>2, <1>3, <2>3 DEF Debt, Moved
    <3> QED
      BY <2>1, <3>1
  <2> QED
    BY <2>2, <2>3
<1> QED
  BY <1>2, <1>4, BlankRequest, SolventIfCovered DEF old

(* A payment into the contract brings what it records.                     *)
LEMMA PayEscrowSolvent ==
    ASSUME IInv, IInv', Solvent, NEW ref \in Refs, NEW sender \in Users,
           NEW token \in Tokens, NEW to \in Accounts \cup {None},
           NEW amount \in Amounts, NEW fee \in Amounts,
           NEW feeAddress \in Users \cup {None},
           PayEscrow(sender, ref, token, to, amount, fee, feeAddress)
    PROVE  Solvent'
<1> DEFINE afterAmount == Moved(balance, token, sender, Escrow, amount)
           request == [NoRequest EXCEPT !.tokenAddress = token, !.payee = to,
                                        !.payer = sender, !.amount = amount]
<1>1. amount \in Nat /\ fee \in Nat
  BY EscrowAssumption
<1>2. balance \in [Tokens -> [Accounts -> Nat]] /\ Escrow \in Accounts
      /\ sender # Escrow /\ feeAddress # Escrow
  BY EscrowAssumption DEF IInv, TypeOK, Accounts
<1>3. requestMapping' = [requestMapping EXCEPT ![ref] = request]
      /\ requestMapping[ref].amount = 0
  BY DEF PayEscrow, IsNotInEscrow
<1>4. request \in Request
  <2>1. request = requestMapping'[ref]
    BY <1>3 DEF IInv, TypeOK
  <2> QED
    BY <2>1 DEF IInv, TypeOK
<1>5. request.tokenAddress = token /\ request.amount = amount
  BY DEF NoRequest
<1> HIDE DEF request
<1>6. ASSUME NEW t \in Tokens
      PROVE  /\ afterAmount[t][Escrow] = balance[t][Escrow] + (IF t = token THEN amount ELSE 0)
             /\ afterAmount[t][Escrow] \in Nat
             /\ balance'[t][Escrow] = afterAmount[t][Escrow]
  <2>1. afterAmount[t][Escrow] = balance[t][Escrow] + (IF t = token THEN amount ELSE 0)
    BY <1>1, <1>2 DEF Moved
  <2>2. afterAmount[t][Escrow] \in Nat
    BY <1>1, <1>2, <2>1
  <2>3. balance'[t][Escrow] = afterAmount[t][Escrow]
    <3>1. CASE feeAddress = None
      BY <3>1 DEF PayEscrow
    <3>2. CASE feeAddress # None
      <4>1. balance' = Moved(afterAmount, token, sender, feeAddress, fee)
        BY <3>2 DEF PayEscrow
      <4>2. afterAmount \in [Tokens -> [Accounts -> Int]]
        BY <1>1, <1>2 DEF Moved
      <4> HIDE DEF afterAmount
      <4> QED
        BY <1>1, <1>2, <2>2, <4>1, <4>2 DEF Moved
    <3> QED
      BY <3>1, <3>2
  <2> QED
    BY <2>1, <2>2, <2>3
<1>7. ASSUME NEW t \in Tokens
      PROVE  balance'[t][Escrow] + Debt(requestMapping[ref], t)
                 >= balance[t][Escrow] + Debt(request, t)
  <2>1. balance[t][Escrow] \in Nat
    BY <1>2
  <2>2. Debt(requestMapping[ref], t) = 0
        /\ Debt(request, t) = IF t = token THEN amount ELSE 0
    BY <1>3, <1>5 DEF Debt
  <2> HIDE DEF afterAmount
  <2> QED
    BY <1>1, <1>6, <2>1, <2>2
<1> QED
  BY <1>3, <1>4, <1>7, SolventIfCovered

LEMMA NextSolvent ==
    ASSUME IInv, IInv', Solvent, [Next]_vars
    PROVE  Solvent'
<1>1. CASE \E ref \in Refs, sender \in Users, token \in Tokens,
             to \in Accounts \cup {None}, amount \in Amounts, fee \in Amounts,
             feeAddress \in Users \cup {None} :
                 PayEscrow(sender, ref, token, to, amount, fee, feeAddress)
  BY <1>1, PayEscrowSolvent
<1>2. CASE \E ref \in Refs, sender \in Users : PayRequestFromEscrow(sender, ref)
  BY <1>2, WithdrawSolvent DEF PayRequestFromEscrow
<1>3. CASE \E ref \in Refs, sender \in Users : CompleteEmergencyClaim(sender, ref)
  BY <1>3, WithdrawSolvent DEF CompleteEmergencyClaim
<1>4. CASE \E ref \in Refs : RefundFrozenFunds(ref)
  BY <1>4, WithdrawSolvent DEF RefundFrozenFunds
<1>5. ASSUME NEW ref \in Refs, NEW sender \in Users,
             \/ FreezeRequest(sender, ref)
             \/ InitiateEmergencyClaim(sender, ref)
             \/ RevertEmergencyClaim(sender, ref)
      PROVE  Solvent'
  <2>1. balance' = balance
    BY <1>5 DEF FreezeRequest, InitiateEmergencyClaim, RevertEmergencyClaim
  <2>2. ASSUME NEW r \in Refs
        PROVE  /\ requestMapping'[r].tokenAddress = requestMapping[r].tokenAddress
               /\ requestMapping'[r].amount = requestMapping[r].amount
    <3>1. /\ requestMapping \in [Refs -> Request]
          /\ requestMapping[r] \in Request
      BY DEF IInv, TypeOK
    <3>2. CASE FreezeRequest(sender, ref)
      BY <3>1, <3>2 DEF FreezeRequest, Frozen, Request
    <3>3. CASE InitiateEmergencyClaim(sender, ref)
      BY <3>1, <3>3 DEF InitiateEmergencyClaim, Request
    <3>4. CASE RevertEmergencyClaim(sender, ref)
      BY <3>1, <3>4 DEF RevertEmergencyClaim, Request
    <3> QED
      BY <1>5, <3>2, <3>3, <3>4
  <2> QED
    BY <2>1, <2>2, SolventIfSame
<1>6. CASE \/ UNCHANGED vars
           \/ \E token \in Tokens : ApprovePaymentProxyToSpend(token)
           \/ \E sender \in Users, period \in Periods :
                  \/ SetEmergencyClaimPeriod(sender, period)
                  \/ SetFrozenPeriod(sender, period)
           \/ Tick
  <2>1. balance' = balance /\ requestMapping' = requestMapping
    BY <1>6 DEF vars, ApprovePaymentProxyToSpend, SetEmergencyClaimPeriod,
                SetFrozenPeriod, Tick
  <2> QED
    BY <2>1, SolventIfSame
<1> QED
  BY <1>1, <1>2, <1>3, <1>4, <1>5, <1>6 DEF Next

LEMMA InitSolvent == Init => Solvent
<1> SUFFICES ASSUME Init, NEW token \in Tokens
             PROVE  balance[token][Escrow] >= Owed(token)
  BY DEF Solvent
<1> DEFINE f == [ref \in Refs |-> Debt(requestMapping[ref], token)]
<1>1. f \in [Refs -> Int] /\ \A ref \in Refs : f[ref] = 0
  BY DEF Init, Debt, NoRequest
<1>2. Owed(token) = SumFunctionOnSet(f, Refs)
  BY DEF Owed
<1>3. balance[token][Escrow] = 0
  BY DEF Init, Accounts
<1> HIDE DEF f
<1> QED
  BY <1>1, <1>2, <1>3, EscrowAssumption, SumOfZeros

(***************************************************************************)
(* The contract always holds what it owes: for every token its balance is  *)
(* at least the sum of the open requests of that token.                    *)
(***************************************************************************)
THEOREM AlwaysSolvent == Spec => []Solvent
<1>1. Init => Solvent
  BY InitSolvent
<1>2. IInv /\ IInv' /\ Solvent /\ [Next]_vars => Solvent'
  BY NextSolvent
<1> QED
  BY <1>1, <1>2, Invariance, PTL DEF Spec

(***************************************************************************)
(* Nobody's money is stuck, in terms of what the transactions check: the   *)
(* amount of an open request is there to be withdrawn, and its payer can   *)
(* pay it, revert the claim that keeps him from paying, or have it         *)
(* refunded once its date has come.  (That these are all the conditions of *)
(* the three transactions is what NeverStuck, with ENABLED, adds.)         *)
(***************************************************************************)
WaysOut ==
    \A ref \in Refs : IsInEscrow(ref) =>
        LET request == requestMapping[ref]
        IN  /\ balance[request.tokenAddress][Escrow] >= request.amount
            /\ request.payer # None /\ request.payee # None
            /\ \/ IsNotFrozen(ref) /\ IsNotInEmergencyState(ref)
               \/ IsNotFrozen(ref) /\ request.emergencyState
               \/ request.isFrozen /\ IsNotInEmergencyState(ref)

THEOREM AlwaysAWayOut == Spec => []WaysOut
<1>1. ASSUME IInv, Solvent, NEW ref \in Refs, IsInEscrow(ref)
      PROVE  balance[requestMapping[ref].tokenAddress][Escrow]
                 >= requestMapping[ref].amount
  <2> DEFINE token == requestMapping[ref].tokenAddress
             f == [r \in Refs |-> Debt(requestMapping[r], token)]
  <2>1. token \in Tokens /\ requestMapping[ref].amount \in Nat
    BY <1>1 DEF IInv, TypeOK, RequestsWellFormed, WellFormed, Request, IsInEscrow
  <2>2. f \in [Refs -> Nat] /\ f[ref] = requestMapping[ref].amount
    BY <1>1 DEF IInv, TypeOK, Request, Debt
  <2>3. balance[token][Escrow] \in Nat /\ balance[token][Escrow] >= Owed(token)
    BY <1>1, <2>1 DEF IInv, TypeOK, Accounts, Solvent
  <2>4. Owed(token) = SumFunctionOnSet(f, Refs)
    BY DEF Owed
  <2> HIDE DEF f, token
  <2>5. SumFunctionOnSet(f, Refs) \in Int /\ f[ref] <= SumFunctionOnSet(f, Refs)
    BY <2>2, EscrowAssumption, SumBoundsEach
  <2> QED
    BY <2>1, <2>2, <2>3, <2>4, <2>5 DEF token
<1>2. ASSUME IInv, NEW ref \in Refs, IsInEscrow(ref)
      PROVE  /\ requestMapping[ref].payer # None /\ requestMapping[ref].payee # None
             /\ \/ IsNotFrozen(ref) /\ IsNotInEmergencyState(ref)
                \/ IsNotFrozen(ref) /\ requestMapping[ref].emergencyState
                \/ requestMapping[ref].isFrozen /\ IsNotInEmergencyState(ref)
  <2>1. WellFormed(requestMapping[ref]) /\ requestMapping[ref] \in Request
    BY <1>2 DEF IInv, TypeOK, RequestsWellFormed
  <2> QED
    BY <1>2, <2>1, EscrowAssumption
       DEF WellFormed, Request, IsInEscrow, IsNotFrozen, IsNotInEmergencyState, Accounts
<1>3. IInv /\ Solvent => WaysOut
  BY <1>1, <1>2 DEF WaysOut
<1> QED
  BY <1>3, Invariance, AlwaysSolvent, PTL
=============================================================================
