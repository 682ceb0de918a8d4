------------------------ MODULE PaymentContractsProofs ------------------------
(***************************************************************************)
(* Proofs about one call of each payment contract, for every ledger, every *)
(* sender, payment, rate and limit; about ERC20TransferableReceivable over *)
(* time; and about the payments as a system: for every set of requests,    *)
(* batches, budgets, rates and settings, what every transaction moves, what*)
(* it leaves behind, and what detection reads of the chain.                *)
(***************************************************************************)
EXTENDS Payments, SequenceTheorems, TLAPS

Balances == [Assets -> [Holders -> Nat]]

IsSequence(s) == \E S : s \in Seq(S)

IsWorld(w) ==
    /\ w.ok \in BOOLEAN
    /\ w.balance \in Balances
    /\ IsSequence(w.log) /\ IsSequence(w.fees)
    /\ w = [ok |-> w.ok, balance |-> w.balance, log |-> w.log,
            payerAuthorized |-> w.payerAuthorized, transferBack |-> w.transferBack,
            usd |-> w.usd, fees |-> w.fees]

IsPayment(payment) ==
    /\ payment.to \in Holders /\ payment.feeAddress \in Holders
    /\ payment = [to |-> payment.to, amount |-> payment.amount, ref |-> payment.ref,
                  feeAmount |-> payment.feeAmount, feeAddress |-> payment.feeAddress]

(* What h gains when `from` gives `to` an amount.                          *)
Gain(h, from, to, amount) ==
    (IF h = to THEN amount ELSE 0) - (IF h = from THEN amount ELSE 0)

(* `after` differs from w, as far as balances go, by one transfer.         *)
Moved(w, after, asset, from, to, amount) ==
    /\ after.balance[asset] = [h \in Holders |->
           w.balance[asset][h] + Gain(h, from, to, amount)]
    /\ \A a \in Assets \ {asset} : after.balance[a] = w.balance[a]

(* What a step does not touch: the events, the fees and the count of them. *)
SameRecords(w, after) ==
    /\ after.log = w.log /\ after.fees = w.fees /\ after.usd = w.usd
    /\ after.transferBack = w.transferBack
    /\ after.payerAuthorized = w.payerAuthorized

(* Requiring something keeps everything but `ok`.                          *)
LEMMA RequireWorld ==
    ASSUME NEW w, IsWorld(w), NEW condition \in BOOLEAN
    PROVE  /\ IsWorld(Require(w, condition))
           /\ Require(w, condition).ok = (w.ok /\ condition)
           /\ Require(w, condition).balance = w.balance
           /\ SameRecords(w, Require(w, condition))
BY DEF IsWorld, Require, SameRecords

(* A ledger after a transfer that is covered.                              *)
LEMMA ShiftedBalances ==
    ASSUME NEW b \in Balances, NEW asset \in Assets, NEW from \in Holders,
           NEW to \in Holders, NEW amount \in Nat, b[asset][from] >= amount
    PROVE  /\ Shifted(b, asset, from, to, amount) \in Balances
           /\ Shifted(b, asset, from, to, amount)[asset] =
                  [h \in Holders |-> b[asset][h] + Gain(h, from, to, amount)]
           /\ \A a \in Assets \ {asset} :
                  Shifted(b, asset, from, to, amount)[a] = b[a]
<1> DEFINE line == [h \in Holders |-> b[asset][h] - (IF h = from THEN amount ELSE 0)
                                        + (IF h = to THEN amount ELSE 0)]
<1>1. b[asset] \in [Holders -> Nat] /\ DOMAIN b[asset] = Holders
  BY DEF Balances
<1>2. Shifted(b, asset, from, to, amount) = [b EXCEPT ![asset] = line]
  BY <1>1 DEF Shifted
<1>3. \A h \in Holders : /\ line[h] \in Nat
                         /\ line[h] = b[asset][h] + Gain(h, from, to, amount)
  BY <1>1 DEF Gain
<1>4. line \in [Holders -> Nat]
  BY <1>3
<1>5. line = [h \in Holders |-> b[asset][h] + Gain(h, from, to, amount)]
  BY <1>3
<1> HIDE DEF line
<1> QED
  BY <1>2, <1>4, <1>5 DEF Balances

(* A transfer happens as a whole or reverts.                               *)
LEMMA CreditWorld ==
    ASSUME NEW w, IsWorld(w), NEW asset \in Assets, NEW from \in Holders,
           NEW to \in Holders, NEW amount
    PROVE  LET after == Credit(w, asset, from, to, amount)
           IN  /\ IsWorld(after)
               /\ SameRecords(w, after)
               /\ after.ok => /\ w.ok /\ amount \in Nat
                              /\ w.balance[asset][from] >= amount
                              /\ Moved(w, after, asset, from, to, amount)
<1> DEFINE covered == w.ok /\ amount \in Nat /\ w.balance[asset][from] >= amount
<1>1. CASE covered
  <2> DEFINE b == Shifted(w.balance, asset, from, to, amount)
  <2>1. Credit(w, asset, from, to, amount) = [w EXCEPT !.balance = b]
    BY <1>1 DEF Credit
  <2>2. w.balance \in Balances /\ amount \in Nat
    BY <1>1 DEF IsWorld
  <2>3. /\ b \in Balances
        /\ b[asset] = [h \in Holders |-> w.balance[asset][h] + Gain(h, from, to, amount)]
        /\ \A a \in Assets \ {asset} : b[a] = w.balance[a]
    BY <1>1, <2>2, ShiftedBalances
  <2> HIDE DEF b
  <2> QED
    BY <1>1, <2>1, <2>3 DEF IsWorld, Moved, SameRecords
<1>2. CASE ~covered
  <2>1. Credit(w, asset, from, to, amount) = [w EXCEPT !.ok = FALSE]
    BY <1>2 DEF Credit
  <2> QED
    BY <2>1 DEF IsWorld, SameRecords
<1> QED
  BY <1>1, <1>2

LEMMA TokenTransfer ==
    ASSUME NEW w, IsWorld(w), NEW token \in Tokens, NEW from \in Holders,
           NEW to \in Holders, NEW amount
    PROVE  LET after == SafeTransferFrom(w, token, from, to, amount)
           IN  /\ IsWorld(after)
               /\ SameRecords(w, after)
               /\ after.ok => /\ w.ok /\ amount \in Nat /\ to # None
                              /\ w.balance[token][from] >= amount
                              /\ Moved(w, after, token, from, to, amount)
<1> DEFINE allowed == Require(w, to # None)
<1>1. /\ IsWorld(allowed) /\ SameRecords(w, allowed)
      /\ allowed.ok = (w.ok /\ to # None) /\ allowed.balance = w.balance
  BY RequireWorld
<1>2. SafeTransferFrom(w, token, from, to, amount)
          = Credit(allowed, token, from, to, amount)
  BY DEF SafeTransferFrom
<1>3. token \in Assets
  BY DEF Assets
<1> HIDE DEF allowed
<1> DEFINE after == Credit(allowed, token, from, to, amount)
<1>4. /\ IsWorld(after) /\ SameRecords(allowed, after)
      /\ after.ok => /\ allowed.ok /\ amount \in Nat
                     /\ allowed.balance[token][from] >= amount
                     /\ Moved(allowed, after, token, from, to, amount)
  BY <1>1, <1>3, CreditWorld
<1> HIDE DEF after
<1>5. /\ Moved(allowed, after, token, from, to, amount)
             => Moved(w, after, token, from, to, amount)
      /\ SameRecords(w, after)
  BY <1>1, <1>4 DEF Moved, SameRecords
<1> QED
  BY <1>1, <1>2, <1>4, <1>5 DEF after

LEMMA ValueTransfer ==
    ASSUME NEW w, IsWorld(w), NEW from \in Holders, NEW to \in Holders, NEW amount
    PROVE  LET after == SendValue(w, from, to, amount)
           IN  /\ IsWorld(after)
               /\ SameRecords(w, after)
               /\ after.ok => /\ w.ok /\ amount \in Nat
                              /\ w.balance[Native][from] >= amount
                              /\ Moved(w, after, Native, from, to, amount)
<1> DEFINE taken == \/ to \in Users \cup {None}
                    \/ to = Batch /\ (w.payerAuthorized \/ amount = 0)
           allowed == Require(w, taken)
<1>1. /\ IsWorld(allowed) /\ SameRecords(w, allowed)
      /\ allowed.ok => w.ok
      /\ allowed.balance = w.balance
  BY RequireWorld, taken \in BOOLEAN
<1>2. SendValue(w, from, to, amount) = Credit(allowed, Native, from, to, amount)
  BY DEF SendValue, TakesValue
<1>3. Native \in Assets
  BY DEF Assets
<1> HIDE DEF allowed
<1> DEFINE after == Credit(allowed, Native, from, to, amount)
<1>4. /\ IsWorld(after) /\ SameRecords(allowed, after)
      /\ after.ok => /\ allowed.ok /\ amount \in Nat
                     /\ allowed.balance[Native][from] >= amount
                     /\ Moved(allowed, after, Native, from, to, amount)
  BY <1>1, <1>3, CreditWorld
<1> HIDE DEF after
<1>5. /\ Moved(allowed, after, Native, from, to, amount)
             => Moved(w, after, Native, from, to, amount)
      /\ SameRecords(w, after)
  BY <1>1, <1>4 DEF Moved, SameRecords
<1> QED
  BY <1>1, <1>2, <1>4, <1>5 DEF after

LEMMA LongerSequence ==
    ASSUME NEW s, IsSequence(s), NEW e
    PROVE  IsSequence(Append(s, e))
<1>1. PICK S : s \in Seq(S)
  BY DEF IsSequence
<1>2. s \in Seq(S \cup {e})
  BY <1>1
<1>3. Append(s, e) \in Seq(S \cup {e})
  BY <1>2
<1> QED
  BY <1>3 DEF IsSequence

(* An event changes nothing but the log.                                   *)
LEMMA EmitWorld ==
    ASSUME NEW w, IsWorld(w), NEW event
    PROVE  LET after == Emit(w, event)
           IN  /\ IsWorld(after) /\ after.ok = w.ok /\ after.balance = w.balance
               /\ after.fees = w.fees /\ after.usd = w.usd
               /\ after.transferBack = w.transferBack
               /\ after.payerAuthorized = w.payerAuthorized
               /\ after.ok => after.log = Append(w.log, event)
<1>1. IsSequence(Append(w.log, event))
  BY LongerSequence DEF IsWorld
<1> QED
  BY <1>1 DEF IsWorld, Emit

(* What ERC20FeeProxy takes for the fee: nothing without an address for it.*)
FeeTaken(payment) == IF payment.feeAddress = None THEN 0 ELSE payment.feeAmount

(* The balances `after` are those of w but for one payment and its fee.    *)
PaidWithFee(w, after, asset, sender, payment, fee) ==
    /\ \A h \in Holders :
           after.balance[asset][h] = w.balance[asset][h]
               + Gain(h, sender, payment.to, payment.amount)
               + Gain(h, sender, payment.feeAddress, fee)
    /\ \A a \in Assets \ {asset} : after.balance[a] = w.balance[a]

(* One event more, and nothing else is recorded.                           *)
Logged(w, after, event) ==
    /\ after.log = Append(w.log, event)
    /\ after.fees = w.fees /\ after.usd = w.usd
    /\ after.transferBack = w.transferBack
    /\ after.payerAuthorized = w.payerAuthorized

(***************************************************************************)
(* ERC20FeeProxy.transferFromWithReferenceAndFee, if it does not revert:   *)
(* the payee receives the amount, the fee address the fee, the sender pays *)
(* both and nobody else is concerned; the last event says so.              *)
(***************************************************************************)
THEOREM FeeProxyPays ==
    ASSUME NEW w, IsWorld(w), NEW address, NEW sender \in Holders,
           NEW token \in Tokens, NEW payment, IsPayment(payment), NEW after,
           after = TransferFromWithReferenceAndFee(w, address, sender, token, payment)
    PROVE  /\ IsWorld(after)
           /\ after.ok =>
                  /\ w.ok
                  /\ payment.amount \in Nat /\ FeeTaken(payment) \in Nat
                  /\ Logged(w, after, FeeEvent(address, token, payment))
                  /\ PaidWithFee(w, after, token, sender, payment, FeeTaken(payment))
<1> DEFINE given   == SafeTransferFrom(w, token, sender, payment.to, payment.amount)
           feed    == SafeTransferFrom(given, token, sender,
                                       payment.feeAddress, payment.feeAmount)
           withFee == IF payment.feeAmount # 0 /\ payment.feeAddress # None
                      THEN feed ELSE given
           event   == FeeEvent(address, token, payment)
           emitted == Emit(withFee, event)
<1>1. after = emitted
  BY DEF TransferFromWithReferenceAndFee
<1>2. /\ IsWorld(given) /\ SameRecords(w, given)
      /\ given.ok => /\ w.ok /\ payment.amount \in Nat
                     /\ Moved(w, given, token, sender, payment.to, payment.amount)
  BY TokenTransfer DEF IsPayment
<1>3. /\ IsWorld(feed) /\ SameRecords(given, feed)
      /\ feed.ok => /\ given.ok /\ payment.feeAmount \in Nat
                    /\ Moved(given, feed, token, sender, payment.feeAddress,
                             payment.feeAmount)
  <2> HIDE DEF given
  <2> QED
    BY <1>2, TokenTransfer DEF IsPayment
<1> HIDE DEF given, feed
<1>4. IsWorld(withFee) /\ SameRecords(w, withFee)
  BY <1>2, <1>3 DEF SameRecords
<1> HIDE DEF withFee, event
<1>5. /\ IsWorld(emitted) /\ emitted.ok = withFee.ok /\ emitted.balance = withFee.balance
      /\ emitted.fees = withFee.fees /\ emitted.usd = withFee.usd
      /\ emitted.transferBack = withFee.transferBack
      /\ emitted.payerAuthorized = withFee.payerAuthorized
      /\ emitted.ok => emitted.log = Append(withFee.log, event)
  BY <1>4, EmitWorld
<1> HIDE DEF emitted
<1>6. token \in Assets /\ w.balance \in Balances
  BY DEF Assets, IsWorld
<1>7. ASSUME withFee.ok
      PROVE  /\ w.ok
             /\ payment.amount \in Nat /\ FeeTaken(payment) \in Nat
             /\ \A h \in Holders :
                    withFee.balance[token][h] = w.balance[token][h]
                        + Gain(h, sender, payment.to, payment.amount)
                        + Gain(h, sender, payment.feeAddress, FeeTaken(payment))
             /\ \A a \in Assets \ {token} : withFee.balance[a] = w.balance[a]
  <2>1. CASE payment.feeAmount # 0 /\ payment.feeAddress # None
    <3>1. withFee = feed /\ FeeTaken(payment) = payment.feeAmount
      BY <2>1 DEF withFee, FeeTaken
    <3> QED
      BY <1>2, <1>3, <1>7, <3>1 DEF Moved
  <2>2. CASE ~(payment.feeAmount # 0 /\ payment.feeAddress # None)
    <3>1. withFee = given /\ FeeTaken(payment) = 0
      BY <2>2 DEF withFee, FeeTaken
    <3>2. \A h \in Holders : Gain(h, sender, payment.feeAddress, 0) = 0
      BY DEF Gain
    <3>3. \A h \in Holders : /\ w.balance[token][h] \in Nat
                             /\ Gain(h, sender, payment.to, payment.amount) \in Int
      BY <1>2, <1>6, <1>7, <3>1 DEF Gain, Balances
    <3> QED
      BY <1>2, <1>7, <3>1, <3>2, <3>3 DEF Moved
  <2> QED
    BY <2>1, <2>2
<1>8. ASSUME emitted.ok PROVE Logged(w, emitted, event)
  BY <1>4, <1>5, <1>8 DEF SameRecords, Logged
<1> QED
  BY <1>1, <1>5, <1>7, <1>8 DEF event, PaidWithFee

(***************************************************************************)
(* EthereumFeeProxy, if it does not revert: whatever value was sent with   *)
(* it, the sender pays the amount and the fee, and the rest comes back.    *)
(***************************************************************************)
THEOREM EthFeeProxyPays ==
    ASSUME NEW w, IsWorld(w), NEW address, NEW sender \in Holders,
           NEW value, NEW payment, IsPayment(payment), NEW after,
           after = TransferExactEthWithReferenceAndFee(w, address, sender, value, payment)
    PROVE  /\ IsWorld(after)
           /\ after.ok =>
                  /\ w.ok
                  /\ payment.amount \in Nat /\ payment.feeAmount \in Nat
                  /\ value - payment.amount - payment.feeAmount \in Nat
                  /\ Logged(w, after, FeeEvent(address, Native, payment))
                  /\ PaidWithFee(w, after, Native, sender, payment, payment.feeAmount)
<1> DEFINE left     == value - payment.amount - payment.feeAmount
           given    == SendValue(w, sender, payment.to, payment.amount)
           withFee  == SendValue(given, sender, payment.feeAddress, payment.feeAmount)
           enough   == left >= 0
           required == Require(withFee, enough)
           sentBack == SendValue(required, sender, sender, left)
           event    == FeeEvent(address, Native, payment)
           emitted  == Emit(sentBack, event)
<1>1. after = emitted
  BY DEF TransferExactEthWithReferenceAndFee
<1>2. /\ payment.to \in Holders /\ payment.feeAddress \in Holders
      /\ enough \in BOOLEAN
  BY DEF IsPayment
<1>3. /\ IsWorld(given) /\ SameRecords(w, given)
      /\ given.ok => /\ w.ok /\ payment.amount \in Nat
                     /\ Moved(w, given, Native, sender, payment.to, payment.amount)
  BY <1>2, ValueTransfer
<1> HIDE DEF given
<1>4. /\ IsWorld(withFee) /\ SameRecords(given, withFee)
      /\ withFee.ok => /\ given.ok /\ payment.feeAmount \in Nat
                       /\ Moved(given, withFee, Native, sender, payment.feeAddress,
                                payment.feeAmount)
  BY <1>2, <1>3, ValueTransfer
<1> HIDE DEF withFee
<1> HIDE DEF enough
<1>5. /\ IsWorld(required) /\ required.ok = (withFee.ok /\ enough)
      /\ required.balance = withFee.balance /\ SameRecords(withFee, required)
  BY <1>2, <1>4, RequireWorld
<1> HIDE DEF required, left
<1>6. /\ IsWorld(sentBack) /\ SameRecords(required, sentBack)
      /\ sentBack.ok => /\ required.ok /\ left \in Nat
                        /\ Moved(required, sentBack, Native, sender, sender, left)
  BY <1>2, <1>5, ValueTransfer
<1> HIDE DEF sentBack, event
<1>7. /\ IsWorld(emitted) /\ emitted.ok = sentBack.ok /\ emitted.balance = sentBack.balance
      /\ emitted.fees = sentBack.fees /\ emitted.usd = sentBack.usd
      /\ emitted.transferBack = sentBack.transferBack
      /\ emitted.payerAuthorized = sentBack.payerAuthorized
      /\ emitted.ok => emitted.log = Append(sentBack.log, event)
  BY <1>6, EmitWorld
<1> HIDE DEF emitted
<1>8. ASSUME emitted.ok
      PROVE  /\ w.ok /\ payment.amount \in Nat /\ payment.feeAmount \in Nat
             /\ left \in Nat
             /\ Logged(w, emitted, event)
             /\ PaidWithFee(w, emitted, Native, sender, payment, payment.feeAmount)
  <2>1. /\ sentBack.ok /\ required.ok /\ withFee.ok /\ given.ok /\ w.ok
        /\ payment.amount \in Nat /\ payment.feeAmount \in Nat /\ left \in Nat
    BY <1>3, <1>4, <1>5, <1>6, <1>7, <1>8
  <2>2. \A h \in Holders : /\ Gain(h, sender, sender, left) = 0
                           /\ w.balance[Native][h] \in Nat
                           /\ Gain(h, sender, payment.to, payment.amount) \in Int
                           /\ Gain(h, sender, payment.feeAddress, payment.feeAmount) \in Int
    BY <2>1 DEF Gain, IsWorld, Balances, Assets
  <2>3. \A h \in Holders :
            sentBack.balance[Native][h] = w.balance[Native][h]
                + Gain(h, sender, payment.to, payment.amount)
                + Gain(h, sender, payment.feeAddress, payment.feeAmount)
    BY <1>3, <1>4, <1>5, <1>6, <2>1, <2>2 DEF Moved
  <2>4. \A a \in Assets \ {Native} : sentBack.balance[a] = w.balance[a]
    BY <1>3, <1>4, <1>5, <1>6, <2>1 DEF Moved
  <2>5. SameRecords(w, sentBack)
    BY <1>3, <1>4, <1>5, <1>6 DEF SameRecords
  <2> QED
    BY <1>7, <1>8, <2>1, <2>3, <2>4, <2>5 DEF PaidWithFee, Logged, SameRecords
<1> QED
  BY <1>1, <1>7, <1>8 DEF event, left

(***************************************************************************)
(* Integer division.                                                       *)
(***************************************************************************)
LEMMA Quotient ==
    ASSUME NEW a \in Nat, NEW d \in Nat \ {0}
    PROVE  /\ a \div d \in Nat
           /\ (a \div d) * d <= a
           /\ a < (a \div d) * d + d
OBVIOUS

LEMMA QuotientBelow ==
    ASSUME NEW a \in Nat, NEW d \in Nat \ {0}, NEW n \in Nat, a < n * d + d
    PROVE  a \div d <= n
<1> DEFINE q == a \div d
<1>1. q \in Nat /\ q * d <= a
  BY Quotient
<1> HIDE DEF q
<1>2. SUFFICES ASSUME q >= n + 1 PROVE FALSE
  BY <1>1 DEF q
<1>3. q * d >= (n + 1) * d
  BY <1>1, <1>2
<1> QED
  BY <1>1, <1>3

(* A rate is an unsigned integer.                                          *)
IsRate(rates, path) == GetRate(rates, path).rate \in Nat

LEMMA ConversionType ==
    ASSUME NEW rates, NEW path, IsRate(rates, path), NEW amount \in Nat
    PROVE  GetConversion(rates, path, amount) \in Nat
<1>1. amount * GetRate(rates, path).rate \in Nat
  BY DEF IsRate
<1> QED
  BY <1>1, Quotient, ConversionAssumption DEF GetConversion

LEMMA ConvertedPayment ==
    ASSUME NEW rates, NEW path, NEW payment, IsPayment(payment)
    PROVE  LET converted == Converted(rates, path, payment)
           IN  /\ IsPayment(converted)
               /\ converted.to = payment.to
               /\ converted.feeAddress = payment.feeAddress
               /\ converted.amount = GetConversion(rates, path, payment.amount)
               /\ converted.feeAmount = GetConversion(rates, path, payment.feeAmount)
<1> DEFINE amount == GetConversion(rates, path, payment.amount)
           fee    == GetConversion(rates, path, payment.feeAmount)
<1>1. Converted(rates, path, payment)
          = [payment EXCEPT !.amount = amount, !.feeAmount = fee]
  BY DEF Converted
<1> HIDE DEF amount, fee
<1> QED
  BY <1>1 DEF IsPayment, amount, fee

(* Two events more, and nothing else is recorded.                          *)
LoggedBoth(w, after, event, more) ==
    /\ after.log = Append(Append(w.log, event), more)
    /\ after.fees = w.fees /\ after.usd = w.usd
    /\ after.transferBack = w.transferBack
    /\ after.payerAuthorized = w.payerAuthorized

(* What a conversion proxy does after its checks: the payment it delegates *)
(* to a proxy with a fee, and an event of its own.                         *)
LEMMA EventAfterPayment ==
    ASSUME NEW w, NEW payed, IsWorld(payed), NEW asset, NEW sender, NEW payment, NEW fee,
           NEW event, NEW more,
           payed.ok => /\ Logged(w, payed, event)
                       /\ PaidWithFee(w, payed, asset, sender, payment, fee),
           NEW after, after = Emit(payed, more)
    PROVE  /\ IsWorld(after) /\ after.ok = payed.ok
           /\ after.ok => /\ LoggedBoth(w, after, event, more)
                          /\ PaidWithFee(w, after, asset, sender, payment, fee)
<1>1. /\ IsWorld(after) /\ after.ok = payed.ok /\ after.balance = payed.balance
      /\ after.fees = payed.fees /\ after.usd = payed.usd
      /\ after.transferBack = payed.transferBack
      /\ after.payerAuthorized = payed.payerAuthorized
      /\ after.ok => after.log = Append(payed.log, more)
  BY EmitWorld
<1>2. ASSUME after.ok PROVE LoggedBoth(w, after, event, more)
  BY <1>1, <1>2 DEF Logged, LoggedBoth
<1>3. ASSUME after.ok PROVE PaidWithFee(w, after, asset, sender, payment, fee)
  BY <1>1, <1>3 DEF PaidWithFee
<1> QED
  BY <1>1, <1>2, <1>3

(* Erc20ConversionProxy pays as ERC20FeeProxy does, in converted amounts.  *)
LEMMA Erc20ConversionPays ==
    ASSUME NEW w, IsWorld(w), NEW rates, NEW sender \in Holders, NEW path,
           Last(path) \in Tokens, NEW payment, IsPayment(payment),
           NEW maxToSpend, NEW maxRateTimespan, NEW after,
           after = PayErc20WithConversion(w, rates, sender, path, payment, maxToSpend,
                                          maxRateTimespan),
           NEW converted, converted = Converted(rates, path, payment)
    PROVE  /\ IsWorld(after)
           /\ after.ok =>
                  /\ w.ok
                  /\ GetRate(rates, path).ok
                  /\ RateNotOutdated(rates, GetRate(rates, path), maxRateTimespan)
                  /\ WithinUserLimit(converted, maxToSpend)
                  /\ converted.amount \in Nat /\ FeeTaken(converted) \in Nat
                  /\ LoggedBoth(w, after,
                         FeeEvent(Erc20ConversionProxy, Last(path), converted),
                         ConversionEvent(Erc20ConversionProxy, path[1], payment,
                                         maxRateTimespan))
                  /\ PaidWithFee(w, after, Last(path), sender, converted,
                                 FeeTaken(converted))
<1> DEFINE token   == Last(path)
           checks  == /\ GetRate(rates, path).ok
                      /\ RateNotOutdated(rates, GetRate(rates, path), maxRateTimespan)
                      /\ WithinUserLimit(converted, maxToSpend)
           checked == Require(w, checks)
           address == Erc20ConversionProxy
           payed   == TransferFromWithReferenceAndFee(checked, address, sender, token,
                                                      converted)
           event   == FeeEvent(address, token, converted)
           more    == ConversionEvent(address, path[1], payment, maxRateTimespan)
           emitted == Emit(payed, more)
<1>1. after = IF ~checked.ok THEN checked ELSE emitted
  BY DEF PayErc20WithConversion
<1>2. IsPayment(converted)
  BY ConvertedPayment
<1>3. /\ IsWorld(checked) /\ SameRecords(w, checked)
      /\ checked.ok = (w.ok /\ checks) /\ checked.balance = w.balance
  BY RequireWorld, checks \in BOOLEAN
<1> HIDE DEF checked, checks, token, address
<1>4. /\ IsWorld(payed)
      /\ payed.ok =>
             /\ checked.ok
             /\ converted.amount \in Nat /\ FeeTaken(converted) \in Nat
             /\ Logged(checked, payed, event)
             /\ PaidWithFee(checked, payed, token, sender, converted, FeeTaken(converted))
  BY <1>2, <1>3, FeeProxyPays DEF token
<1>5. payed.ok => /\ Logged(w, payed, event)
                  /\ PaidWithFee(w, payed, token, sender, converted, FeeTaken(converted))
  BY <1>3, <1>4 DEF Logged, PaidWithFee, SameRecords
<1> HIDE DEF payed, event, more
<1> DEFINE fee == FeeTaken(converted)
<1> HIDE DEF fee
<1>6. /\ IsWorld(emitted) /\ emitted.ok = payed.ok
      /\ emitted.ok => /\ LoggedBoth(w, emitted, event, more)
                       /\ PaidWithFee(w, emitted, token, sender, converted, fee)
  <2> HIDE DEF emitted
  <2>1. payed.ok => /\ Logged(w, payed, event)
                    /\ PaidWithFee(w, payed, token, sender, converted, fee)
    BY <1>5 DEF fee
  <2> QED
    BY <1>4, <2>1, EventAfterPayment DEF emitted
<1> HIDE DEF emitted
<1>7. CASE checked.ok
  <2>1. after = emitted
    BY <1>1, <1>7
  <2> QED
    BY <1>3, <1>4, <1>6, <1>7, <2>1 DEF checks, token, address, event, more, fee
<1>8. CASE ~checked.ok
  BY <1>1, <1>3, <1>8
<1> QED
  BY <1>7, <1>8

(* EthConversionProxy pays as EthereumFeeProxy does, in converted amounts. *)
LEMMA EthConversionPays ==
    ASSUME NEW w, IsWorld(w), NEW rates, NEW sender \in Holders, NEW value, NEW path,
           NEW payment, IsPayment(payment), NEW maxRateTimespan, NEW after,
           after = PayEthWithConversion(w, rates, sender, value, path, payment,
                                        maxRateTimespan),
           NEW converted, converted = Converted(rates, path, payment)
    PROVE  /\ IsWorld(after)
           /\ after.ok =>
                  /\ w.ok
                  /\ Last(path) = Native
                  /\ GetRate(rates, path).ok
                  /\ RateNotOutdated(rates, GetRate(rates, path), maxRateTimespan)
                  /\ converted.amount \in Nat /\ converted.feeAmount \in Nat
                  /\ value - converted.amount - converted.feeAmount \in Nat
                  /\ LoggedBoth(w, after,
                         FeeEvent(EthConversionProxy, Native, converted),
                         ConversionEvent(EthConversionProxy, path[1], payment,
                                         maxRateTimespan))
                  /\ PaidWithFee(w, after, Native, sender, converted, converted.feeAmount)
<1> DEFINE checks  == /\ Last(path) = Native
                      /\ GetRate(rates, path).ok
                      /\ RateNotOutdated(rates, GetRate(rates, path), maxRateTimespan)
           checked == Require(w, checks)
           address == EthConversionProxy
           payed   == TransferExactEthWithReferenceAndFee(checked, address, sender,
                                                          value, converted)
           event   == FeeEvent(address, Native, converted)
           more    == ConversionEvent(address, path[1], payment, maxRateTimespan)
           emitted == Emit(payed, more)
<1>1. after = IF ~checked.ok THEN checked ELSE emitted
  BY DEF PayEthWithConversion
<1>2. IsPayment(converted)
  BY ConvertedPayment
<1>3. /\ IsWorld(checked) /\ SameRecords(w, checked)
      /\ checked.ok = (w.ok /\ checks) /\ checked.balance = w.balance
  BY RequireWorld, checks \in BOOLEAN
<1> HIDE DEF checked, checks, address
<1>4. /\ IsWorld(payed)
      /\ payed.ok =>
             /\ checked.ok
             /\ converted.amount \in Nat /\ converted.feeAmount \in Nat
             /\ value - converted.amount - converted.feeAmount \in Nat
             /\ Logged(checked, payed, event)
             /\ PaidWithFee(checked, payed, Native, sender, converted, converted.feeAmount)
  BY <1>2, <1>3, EthFeeProxyPays
<1>5. payed.ok => /\ Logged(w, payed, event)
                  /\ PaidWithFee(w, payed, Native, sender, converted, converted.feeAmount)
  BY <1>3, <1>4 DEF Logged, PaidWithFee, SameRecords
<1> HIDE DEF payed, event, more
<1>6. /\ IsWorld(emitted) /\ emitted.ok = payed.ok
      /\ emitted.ok => /\ LoggedBoth(w, emitted, event, more)
                       /\ PaidWithFee(w, emitted, Native, sender, converted,
                                      converted.feeAmount)
  <2> DEFINE fee == converted.feeAmount
  <2>1. payed.ok => /\ Logged(w, payed, event)
                    /\ PaidWithFee(w, payed, Native, sender, converted, fee)
    BY <1>5
  <2> HIDE DEF emitted, fee
  <2>2. /\ IsWorld(emitted) /\ emitted.ok = payed.ok
        /\ emitted.ok => /\ LoggedBoth(w, emitted, event, more)
                         /\ PaidWithFee(w, emitted, Native, sender, converted, fee)
    BY <1>4, <2>1, EventAfterPayment DEF emitted
  <2> QED
    BY <2>2 DEF fee
<1> HIDE DEF emitted
<1>7. CASE checked.ok
  <2>1. after = emitted
    BY <1>1, <1>7
  <2> QED
    BY <1>3, <1>4, <1>6, <1>7, <2>1 DEF checks, address, event, more
<1>8. CASE ~checked.ok
  BY <1>1, <1>3, <1>8
<1> QED
  BY <1>7, <1>8

(***************************************************************************)
(* Erc20ConversionProxy, if it does not revert: the sender loses at most   *)
(* maxToSpend of the token at the end of the path and nothing else, the    *)
(* rate is no older than asked, and the payee gets the converted amount.   *)
(***************************************************************************)
THEOREM ConversionWithinLimit ==
    ASSUME NEW w, IsWorld(w), NEW rates, NEW sender \in Holders, NEW path,
           IsRate(rates, path), Last(path) \in Tokens, NEW payment, IsPayment(payment),
           payment.amount \in Nat, payment.feeAmount \in Nat,
           NEW maxToSpend \in Nat, NEW maxRateTimespan \in Nat, NEW after,
           after = PayErc20WithConversion(w, rates, sender, path, payment, maxToSpend,
                                          maxRateTimespan),
           after.ok, NEW token, token = Last(path)
    PROVE  /\ w.balance[token][sender] - after.balance[token][sender] <= maxToSpend
           /\ \A a \in Assets \ {token} : after.balance[a] = w.balance[a]
           /\ RateNotOutdated(rates, GetRate(rates, path), maxRateTimespan)
           /\ payment.to \notin {sender, payment.feeAddress} =>
                  after.balance[token][payment.to] = w.balance[token][payment.to]
                      + GetConversion(rates, path, payment.amount)
<1> DEFINE converted == Converted(rates, path, payment)
<1>1. /\ IsPayment(converted) /\ converted.to = payment.to
      /\ converted.feeAddress = payment.feeAddress
      /\ converted.amount = GetConversion(rates, path, payment.amount)
      /\ converted.feeAmount = GetConversion(rates, path, payment.feeAmount)
  BY ConvertedPayment
<1>2. converted.amount \in Nat /\ converted.feeAmount \in Nat
  BY <1>1, ConversionType
<1> HIDE DEF converted
<1>3. /\ RateNotOutdated(rates, GetRate(rates, path), maxRateTimespan)
      /\ WithinUserLimit(converted, maxToSpend)
      /\ PaidWithFee(w, after, token, sender, converted, FeeTaken(converted))
  BY Erc20ConversionPays DEF converted
<1>4. /\ FeeTaken(converted) \in Nat /\ FeeTaken(converted) <= converted.feeAmount
      /\ converted.amount + converted.feeAmount <= maxToSpend
      /\ \A h \in Holders : w.balance[token][h] \in Nat
  BY <1>2, <1>3 DEF FeeTaken, WithinUserLimit, IsWorld, Balances, Assets
<1>5. w.balance[token][sender] - after.balance[token][sender] <= maxToSpend
  BY <1>1, <1>2, <1>3, <1>4 DEF Gain, IsPayment, PaidWithFee
<1>6. payment.to \notin {sender, payment.feeAddress} =>
          after.balance[token][payment.to]
              = w.balance[token][payment.to] + converted.amount
  BY <1>1, <1>2, <1>3, <1>4 DEF Gain, IsPayment, PaidWithFee
<1> QED
  BY <1>1, <1>3, <1>5, <1>6 DEF PaidWithFee

(***************************************************************************)
(* EthConversionProxy, if it does not revert: the sender loses no more     *)
(* than the value sent, and the rate is no older than asked.               *)
(***************************************************************************)
THEOREM EthConversionWithinValue ==
    ASSUME NEW w, IsWorld(w), NEW rates, NEW sender \in Holders, NEW value \in Nat,
           NEW path, NEW payment, IsPayment(payment), NEW maxRateTimespan, NEW after,
           after = PayEthWithConversion(w, rates, sender, value, path, payment,
                                        maxRateTimespan),
           after.ok
    PROVE  /\ w.balance[Native][sender] - after.balance[Native][sender] <= value
           /\ \A a \in Assets \ {Native} : after.balance[a] = w.balance[a]
           /\ RateNotOutdated(rates, GetRate(rates, path), maxRateTimespan)
<1> DEFINE converted == Converted(rates, path, payment)
<1>1. IsPayment(converted)
  BY ConvertedPayment
<1> HIDE DEF converted
<1>2. /\ RateNotOutdated(rates, GetRate(rates, path), maxRateTimespan)
      /\ converted.amount \in Nat /\ converted.feeAmount \in Nat
      /\ value - converted.amount - converted.feeAmount \in Nat
      /\ PaidWithFee(w, after, Native, sender, converted, converted.feeAmount)
  BY EthConversionPays DEF converted
<1>3. w.balance[Native][sender] \in Nat
  BY DEF IsWorld, Balances, Assets
<1>4. w.balance[Native][sender] - after.balance[Native][sender] <= value
  BY <1>1, <1>2, <1>3 DEF PaidWithFee, Gain, IsPayment
<1> QED
  BY <1>2, <1>4 DEF PaidWithFee

LEMMA Distribute ==
    ASSUME NEW x \in Nat, NEW y \in Nat, NEW z \in Nat
    PROVE  /\ (x * y + y) * z = (z * y) * x + z * y
           /\ (x * y + y) * z = (x * y) * z + y * z
<1>1. (x * y + y) * z = (x * y) * z + y * z
  <2> DEFINE n == x * y
  <2>1. n \in Nat
    OBVIOUS
  <2> HIDE DEF n
  <2>2. (n + y) * z = n * z + y * z
    BY <2>1
  <2> QED
    BY <2>2 DEF n
<1>2. (x * y) * z = (z * y) * x
  OBVIOUS
<1> QED
  BY <1>1, <1>2

(***************************************************************************)
(* A fee cut in proportion to the room that is left under the limit is     *)
(* worth no more than that room, in spite of three truncated divisions.    *)
(***************************************************************************)
LEMMA CutFee ==
    ASSUME NEW fee \in Nat, NEW rate \in Nat, NEW precision \in Nat \ {0},
           NEW room \in Nat, NEW worth \in Nat, NEW cut,
           worth = (fee * rate) \div precision, room < worth,
           cut = (fee * room) \div worth
    PROVE  cut \in Nat /\ cut <= fee /\ (cut * rate) \div precision <= room
<1>1. /\ fee * rate \in Nat /\ fee * room \in Nat
      /\ worth \in Nat \ {0}
  OBVIOUS
<1>2. fee * rate < worth * precision + precision
  BY <1>1, Quotient
<1>3. cut \in Nat /\ cut * worth <= fee * room
  BY <1>1, Quotient
<1>4. cut <= fee
  <2>1. SUFFICES ASSUME cut >= fee + 1 PROVE FALSE
    BY <1>3
  <2>2. fee * room <= fee * worth
    OBVIOUS
  <2>3. cut * worth >= (fee + 1) * worth
    BY <1>3, <2>1
  <2>4. (fee + 1) * worth = fee * worth + worth /\ fee * worth \in Nat
    OBVIOUS
  <2> QED
    BY <1>1, <1>3, <2>2, <2>3, <2>4
<1>5. cut * rate < room * precision + precision
  <2> DEFINE top == room * precision + precision
  <2>1. SUFFICES ASSUME cut * rate >= top PROVE FALSE
    BY <1>3
  <2>2. (cut * rate) * worth >= top * worth
    BY <1>1, <1>3, <2>1
  <2>3. (cut * rate) * worth = (cut * worth) * rate
    BY <1>3
  <2>4. (cut * worth) * rate <= (fee * room) * rate
    BY <1>1, <1>3
  <2>5. (fee * room) * rate = (fee * rate) * room
    OBVIOUS
  <2>6. (fee * rate) * room <= (worth * precision + precision) * room
    BY <1>1, <1>2
  <2>7. (worth * precision + precision) * room
            = (room * precision) * worth + room * precision
    BY <1>1, Distribute
  <2>8. top * worth = (room * precision) * worth + precision * worth
    BY <1>1, Distribute
  <2>9. room * precision < precision * worth
    OBVIOUS
  <2> DEFINE a == (cut * rate) * worth
             b == (fee * rate) * room
             c == (room * precision) * worth
             d == room * precision
             e == precision * worth
  <2>10. a \in Nat /\ b \in Nat /\ c \in Nat /\ d \in Nat /\ e \in Nat
    BY <1>1, <1>3
  <2>11. a >= c + e /\ a <= b /\ b <= c + d /\ d < e
    BY <2>2, <2>3, <2>4, <2>5, <2>6, <2>7, <2>8, <2>9
  <2> HIDE DEF a, b, c, d, e
  <2> QED
    BY <2>10, <2>11
<1>6. cut * rate \in Nat
  BY <1>3
<1> QED
  BY <1>3, <1>4, <1>5, <1>6, QuotientBelow

(***************************************************************************)
(* calculateBatchFeeToPay never asks for more than the fee it was given,   *)
(* the count in dollars never passes the limit, and the fee to pay is worth*)
(* no more than what the count has grown by, if the token has a path to    *)
(* the dollar.                                                             *)
(***************************************************************************)
THEOREM CountCoversTheFee ==
    ASSUME NEW rates, NEW settings, settings.limit \in Nat, NEW fee \in Nat, NEW token,
           NEW usd \in Nat, NEW paths, NEW path, path = paths[PathToUSD(token, paths)],
           IsRate(rates, path), NEW toPay,
           toPay = CalculateBatchFeeToPay(rates, settings, fee, token, usd, paths),
           toPay.ok
    PROVE  /\ toPay.fee \in 0 .. fee
           /\ toPay.usd \in Nat /\ toPay.usd >= usd
           /\ usd <= settings.limit => toPay.usd <= settings.limit
           /\ PathToUSD(token, paths) # 0 =>
                  GetConversion(rates, path, toPay.fee) <= toPay.usd - usd
<1> DEFINE at    == PathToUSD(token, paths)
           worth == GetConversion(rates, path, fee)
           rate  == GetRate(rates, path).rate
           room  == settings.limit - usd
           cut   == (fee * room) \div worth
<1>1. rate \in Nat /\ worth \in Nat /\ worth = (fee * rate) \div Precision
  BY ConversionType DEF IsRate, GetConversion
<1>2. CASE usd >= settings.limit
  <2>1. toPay = [ok |-> TRUE, fee |-> 0, usd |-> usd]
    BY <1>2 DEF CalculateBatchFeeToPay
  <2>2. GetConversion(rates, path, 0) = 0
    BY <1>1, ConversionAssumption DEF GetConversion
  <2> QED
    BY <1>2, <2>1, <2>2
<1>3. CASE usd < settings.limit /\ at = 0
  <2>1. toPay = [ok |-> TRUE, fee |-> fee, usd |-> usd]
    BY <1>3 DEF CalculateBatchFeeToPay
  <2> QED
    BY <1>3, <2>1
<1>4. CASE usd < settings.limit /\ at # 0
  <2>1. toPay = IF path = << >> \/ ~GetRate(rates, path).ok
                THEN [ok |-> FALSE, fee |-> 0, usd |-> usd]
                ELSE IF worth > room
                THEN [ok |-> TRUE, fee |-> cut, usd |-> settings.limit]
                ELSE [ok |-> TRUE, fee |-> fee, usd |-> usd + worth]
    BY <1>4 DEF CalculateBatchFeeToPay
  <2> HIDE DEF worth, at, cut, room
  <2>2. CASE worth > room
    <3>1. toPay.fee = cut /\ toPay.usd = settings.limit
      BY <2>1, <2>2
    <3>2. /\ room \in Nat /\ room < worth /\ room = settings.limit - usd
      BY <1>1, <1>4, <2>2 DEF room
    <3>3. cut \in Nat /\ cut <= fee /\ (cut * rate) \div Precision <= room
      BY <1>1, <3>2, CutFee, ConversionAssumption DEF cut
    <3> QED
      BY <1>4, <3>1, <3>2, <3>3 DEF GetConversion
  <2>3. CASE ~(worth > room)
    <3>1. toPay.fee = fee /\ toPay.usd = usd + worth
      BY <2>1, <2>3
    <3>2. usd + worth <= settings.limit
      BY <1>1, <1>4, <2>3 DEF room
    <3> QED
      BY <1>1, <3>1, <3>2 DEF worth
  <2> QED
    BY <2>2, <2>3
<1> QED
  BY <1>2, <1>3, <1>4

-----------------------------------------------------------------------------
(***************************************************************************)
(* ERC20TransferableReceivable.                                            *)
(***************************************************************************)
ReceivableInv == TypeOK /\ OneReferencePerReceivable

(* Adding an element to a sequence given as a function on 1 .. n.          *)
LEMMA Appended ==
    ASSUME NEW S, NEW n \in Nat, NEW f \in [1 .. n -> S], NEW e \in S
    PROVE  /\ Append(f, e) \in [1 .. n + 1 -> S]
           /\ \A i \in 1 .. n : Append(f, e)[i] = f[i]
<1>1. f \in Seq(S) /\ Len(f) = n
  OBVIOUS
<1>2. Append(f, e) \in Seq(S) /\ Len(Append(f, e)) = n + 1
  BY <1>1
<1>3. \A i \in 1 .. n : Append(f, e)[i] = f[i]
  BY <1>1
<1>4. Append(f, e) \in [1 .. n + 1 -> S]
  BY <1>2, LenProperties
<1> QED
  BY <1>3, <1>4

(* A contract just deployed has the right types and no receivable.         *)
LEMMA InitReceivableInv == ReceivableInit => ReceivableInv
<1> SUFFICES ASSUME ReceivableInit PROVE ReceivableInv
  OBVIOUS
<1>1. 1 .. receivableTokenId = {}
  BY DEF ReceivableInit
<1>2. << >> \in [1 .. 0 -> ReceivableInfo] /\ << >> \in [1 .. 0 -> Users]
  OBVIOUS
<1>3. TypeOK
  BY <1>1, <1>2 DEF ReceivableInit, TypeOK
<1>4. OneReferencePerReceivable
  BY <1>1 DEF OneReferencePerReceivable
<1> QED
  BY <1>3, <1>4 DEF ReceivableInv

(* What a mint does to the mapping: it names the new id at an unused key.  *)
LEMMA MintedMapping ==
    ASSUME receivableTokenId \in Nat,
           receivableTokenIdMapping \in [Keys -> 0 .. receivableTokenId],
           NEW key \in Keys, NEW amount, NEW token, Mint(key[1], key[2], amount, token)
    PROVE  /\ receivableTokenId' = receivableTokenId + 1
           /\ receivableTokenIdMapping[key] = 0
           /\ receivableTokenIdMapping'[key] = receivableTokenId + 1
           /\ \A k \in Keys : k # key =>
                  receivableTokenIdMapping'[k] = receivableTokenIdMapping[k]
           /\ receivableTokenIdMapping' \in [Keys -> 0 .. receivableTokenId']
<1>1. << key[1], key[2] >> = key
  BY DEF Keys
<1>2. receivableTokenId \in Nat /\ receivableTokenIdMapping \in [Keys -> 0 .. receivableTokenId]
  OBVIOUS
<1>3. receivableTokenIdMapping[key] = 0 /\ receivableTokenId' = receivableTokenId + 1
  BY <1>1 DEF Mint, NotMinted
<1>4. receivableTokenIdMapping'
          = [receivableTokenIdMapping EXCEPT ![key] = receivableTokenId + 1]
  BY <1>1, <1>3 DEF Mint
<1>5. /\ receivableTokenIdMapping'[key] = receivableTokenId + 1
      /\ \A k \in Keys : k # key =>
             receivableTokenIdMapping'[k] = receivableTokenIdMapping[k]
  BY <1>2, <1>4
<1>6. receivableTokenIdMapping' \in [Keys -> 0 .. receivableTokenId']
  <2>1. \A k \in Keys : receivableTokenIdMapping'[k] \in 0 .. receivableTokenId + 1
    BY <1>2, <1>5
  <2>2. receivableTokenIdMapping' = [k \in Keys |-> receivableTokenIdMapping'[k]]
    BY <1>2, <1>4
  <2> QED
    BY <1>3, <2>1, <2>2
<1> QED
  BY <1>3, <1>5, <1>6

(* ... which keeps one key for every receivable.                           *)
LEMMA MintedOnce ==
    ASSUME receivableTokenId \in Nat,
           receivableTokenIdMapping \in [Keys -> 0 .. receivableTokenId],
           OneReferencePerReceivable,
           NEW key \in Keys, NEW amount, NEW token, Mint(key[1], key[2], amount, token)
    PROVE  OneReferencePerReceivable'
<1> DEFINE new == receivableTokenId + 1
<1>1. /\ receivableTokenId' = new
      /\ receivableTokenIdMapping[key] = 0
      /\ receivableTokenIdMapping'[key] = new
      /\ \A k \in Keys : k # key =>
             receivableTokenIdMapping'[k] = receivableTokenIdMapping[k]
  BY MintedMapping
<1> SUFFICES ASSUME NEW id \in 1 .. new
             PROVE  \E k \in Keys :
                        /\ receivableTokenIdMapping'[k] = id
                        /\ \A l \in Keys : receivableTokenIdMapping'[l] = id => l = k
  BY <1>1 DEF OneReferencePerReceivable, Keys
<1>2. CASE id = new
  <2>1. \A l \in Keys : l # key => receivableTokenIdMapping'[l] # new
    BY <1>1
  <2> QED
    BY <1>1, <1>2, <2>1
<1>3. CASE id # new
  <2>1. id \in 1 .. receivableTokenId
    BY <1>3
  <2>2. PICK k \in Keys :
            /\ receivableTokenIdMapping[k] = id
            /\ \A l \in Keys : receivableTokenIdMapping[l] = id => l = k
    BY <2>1 DEF OneReferencePerReceivable
  <2>3. k # key
    BY <1>1, <2>1, <2>2
  <2> QED
    BY <1>1, <1>3, <2>2, <2>3
<1> QED
  BY <1>2, <1>3

(* What a mint does to the receivables that exist: nothing.                *)
LEMMA MintedInfo ==
    ASSUME TypeOK, NEW to \in Users, NEW ref \in References, NEW amount \in Amounts,
           NEW token \in Tokens, Mint(to, ref, amount, token)
    PROVE  /\ receivableInfoMapping' \in [1 .. receivableTokenId' -> ReceivableInfo]
           /\ owner' \in [1 .. receivableTokenId' -> Users]
           /\ \A id \in 1 .. receivableTokenId :
                  receivableInfoMapping'[id] = receivableInfoMapping[id]
<1>1. NewInfo(token, amount) \in ReceivableInfo
  BY ReceivableAssumption DEF NewInfo, ReceivableInfo
<1>2. /\ receivableTokenId \in Nat
      /\ receivableInfoMapping \in [1 .. receivableTokenId -> ReceivableInfo]
      /\ owner \in [1 .. receivableTokenId -> Users]
  BY DEF TypeOK
<1>3. /\ receivableTokenId' = receivableTokenId + 1
      /\ receivableInfoMapping' = Append(receivableInfoMapping, NewInfo(token, amount))
      /\ owner' = Append(owner, to)
  BY DEF Mint
<1>4. owner' \in [1 .. receivableTokenId' -> Users]
  BY <1>2, <1>3, Appended
<1>5. /\ receivableInfoMapping' \in [1 .. receivableTokenId' -> ReceivableInfo]
      /\ \A id \in 1 .. receivableTokenId :
             receivableInfoMapping'[id] = receivableInfoMapping[id]
  BY <1>1, <1>2, <1>3, Appended
<1> QED
  BY <1>4, <1>5

(* A payment adds to the balance of one receivable.                        *)
LEMMA PaidInfo ==
    ASSUME TypeOK, NEW id \in 1 .. receivableTokenId, NEW amount \in Amounts,
           PayOwner(id, amount)
    PROVE  /\ receivableInfoMapping' \in [1 .. receivableTokenId -> ReceivableInfo]
           /\ \A i \in 1 .. receivableTokenId :
                  /\ receivableInfoMapping'[i].tokenAddress
                         = receivableInfoMapping[i].tokenAddress
                  /\ receivableInfoMapping'[i].amount = receivableInfoMapping[i].amount
                  /\ receivableInfoMapping'[i].balance >= receivableInfoMapping[i].balance
<1>1. receivableInfoMapping \in [1 .. receivableTokenId -> ReceivableInfo]
  BY DEF TypeOK
<1>2. amount \in Nat
  BY ReceivableAssumption
<1> DEFINE info == receivableInfoMapping[id]
           more == [info EXCEPT !.balance = @ + amount]
<1>3. info \in ReceivableInfo
  BY <1>1
<1>4. /\ more \in ReceivableInfo /\ more.balance >= info.balance
      /\ more.tokenAddress = info.tokenAddress /\ more.amount = info.amount
  BY <1>2, <1>3 DEF ReceivableInfo
<1>5. receivableInfoMapping' = [receivableInfoMapping EXCEPT ![id] = more]
  BY DEF PayOwner
<1>6. \A i \in 1 .. receivableTokenId :
          receivableInfoMapping'[i] = IF i = id THEN more ELSE receivableInfoMapping[i]
  BY <1>1, <1>5
<1>7. \A i \in 1 .. receivableTokenId : receivableInfoMapping[i].balance \in Nat
  BY <1>1 DEF ReceivableInfo
<1> HIDE DEF more
<1>8. receivableInfoMapping' \in [1 .. receivableTokenId -> ReceivableInfo]
  BY <1>1, <1>4, <1>5
<1> QED
  BY <1>4, <1>6, <1>7, <1>8

(* Every step keeps types and the one key of every receivable.             *)
LEMMA NextReceivableInv == ReceivableInv /\ [ReceivableNext]_receivableVars => ReceivableInv'
<1> SUFFICES ASSUME ReceivableInv, [ReceivableNext]_receivableVars PROVE ReceivableInv'
  OBVIOUS
<1> USE DEF ReceivableInv
<1>1. ASSUME NEW key \in Keys, NEW amount \in Amounts, NEW token \in Tokens,
             Mint(key[1], key[2], amount, token)
      PROVE  ReceivableInv'
  <2>1. key[1] \in Users /\ key[2] \in References /\ key = << key[1], key[2] >>
    BY DEF Keys
  <2>2. receivableTokenId \in Nat /\ receivableTokenIdMapping \in [Keys -> 0 .. receivableTokenId]
    BY DEF TypeOK
  <2>3. /\ receivableTokenId' = receivableTokenId + 1
        /\ receivableTokenIdMapping' \in [Keys -> 0 .. receivableTokenId']
    BY <1>1, <2>2, MintedMapping
  <2>4. /\ receivableInfoMapping' \in [1 .. receivableTokenId' -> ReceivableInfo]
        /\ owner' \in [1 .. receivableTokenId' -> Users]
    BY <1>1, <2>1, MintedInfo
  <2>5. TypeOK'
    BY <2>2, <2>3, <2>4 DEF TypeOK
  <2>6. OneReferencePerReceivable'
    BY <1>1, <2>2, MintedOnce
  <2> QED
    BY <2>5, <2>6
<1>2. ASSUME NEW id \in 1 .. receivableTokenId, NEW to \in Users, TransferFrom(id, to)
      PROVE  ReceivableInv'
  <2>1. TypeOK'
    BY <1>2 DEF TypeOK, TransferFrom
  <2>2. OneReferencePerReceivable'
    BY <1>2 DEF OneReferencePerReceivable, TransferFrom, Keys
  <2> QED
    BY <2>1, <2>2
<1>3. ASSUME NEW id \in 1 .. receivableTokenId, NEW amount \in Amounts,
             PayOwner(id, amount)
      PROVE  ReceivableInv'
  <2>1. receivableInfoMapping' \in [1 .. receivableTokenId -> ReceivableInfo]
    BY <1>3, PaidInfo
  <2>2. TypeOK'
    BY <1>3, <2>1 DEF TypeOK, PayOwner, Keys
  <2>3. OneReferencePerReceivable'
    BY <1>3 DEF OneReferencePerReceivable, PayOwner, Keys
  <2> QED
    BY <2>2, <2>3
<1>4. CASE UNCHANGED receivableVars
  BY <1>4 DEF receivableVars, TypeOK, OneReferencePerReceivable, Keys
<1> QED
  BY <1>1, <1>2, <1>3, <1>4 DEF ReceivableNext

(* The inductive invariant of the receivables' contract.                   *)
THEOREM ReceivableInvariance == ReceivableSpec => []ReceivableInv
<1> QED
  BY InitReceivableInv, NextReceivableInv, PTL DEF ReceivableSpec

(* The types of the contract's state: ids are 1 .. receivableTokenId, each *)
(* with its terms and its owner.                                           *)
THEOREM ReceivableTypeCorrect == ReceivableSpec => []TypeOK
<1>1. ReceivableInv => TypeOK
  BY DEF ReceivableInv
<1> QED
  BY ReceivableInvariance, <1>1, PTL

(* No receivable is shared by two references or two payees, and none is    *)
(* out of the processor's reach (mint, receivableTokenIdMapping).          *)
THEOREM OneReferenceEach == ReceivableSpec => []OneReferencePerReceivable
<1>1. ReceivableInv => OneReferencePerReceivable
  BY DEF ReceivableInv
<1> QED
  BY ReceivableInvariance, <1>1, PTL

(* A reference keeps its receivable and the receivable its terms; what was *)
(* paid of it only grows (mint, payOwner, transferFrom).                   *)
LEMMA NextTerms ==
    ASSUME ReceivableInv, [ReceivableNext]_receivableVars
    PROVE  KeepsTerms
<1> USE DEF ReceivableInv
<1>1. \A id \in 1 .. receivableTokenId : receivableInfoMapping[id].balance \in Nat
  BY DEF TypeOK, ReceivableInfo
<1>2. ASSUME NEW key \in Keys, NEW amount \in Amounts, NEW token \in Tokens,
             Mint(key[1], key[2], amount, token)
      PROVE  /\ \A k \in Keys : receivableTokenIdMapping[k] # 0 =>
                    receivableTokenIdMapping'[k] = receivableTokenIdMapping[k]
             /\ \A id \in 1 .. receivableTokenId :
                    receivableInfoMapping'[id] = receivableInfoMapping[id]
  <2>1. key[1] \in Users /\ key[2] \in References
    BY DEF Keys
  <2> QED
    BY <1>2, <2>1, MintedMapping, MintedInfo DEF TypeOK
<1>3. ASSUME NEW id \in 1 .. receivableTokenId, NEW amount \in Amounts,
             PayOwner(id, amount)
      PROVE  /\ receivableTokenIdMapping' = receivableTokenIdMapping
             /\ \A i \in 1 .. receivableTokenId :
                    /\ receivableInfoMapping'[i].tokenAddress
                           = receivableInfoMapping[i].tokenAddress
                    /\ receivableInfoMapping'[i].amount = receivableInfoMapping[i].amount
                    /\ receivableInfoMapping'[i].balance >= receivableInfoMapping[i].balance
  BY <1>3, PaidInfo DEF PayOwner
<1>4. ASSUME NEW id \in 1 .. receivableTokenId, NEW to \in Users, TransferFrom(id, to)
      PROVE  UNCHANGED << receivableTokenIdMapping, receivableInfoMapping >>
  BY <1>4 DEF TransferFrom
<1>5. CASE UNCHANGED receivableVars
  BY <1>1, <1>5 DEF receivableVars, KeepsTerms
<1> QED
  BY <1>1, <1>2, <1>3, <1>4, <1>5 DEF ReceivableNext, KeepsTerms

(* No step of the contract forgets or changes the terms of a receivable.   *)
THEOREM TermsAreKept == ReceivableSpec => ReceivableTermsKept
<1>1. ReceivableInv /\ [ReceivableNext]_receivableVars => [KeepsTerms]_receivableVars
  BY NextTerms
<1> QED
  BY <1>1, ReceivableInvariance, PTL DEF ReceivableSpec, ReceivableTermsKept

-----------------------------------------------------------------------------
(***************************************************************************)
(* Who receives what in a transaction.  `before` are the balances it       *)
(* starts from, `payer` sent it, and `hub` is the contract it goes through.*)
(***************************************************************************)
ReceivedStep(asset, user, sum, e) == sum + Received(e, asset, user)
FeeStep(asset, user, sum, f) == sum + ReceivedFee(f, asset, user)

Receipts == INSTANCE SequenceFolds WITH Op <- ReceivedStep
FeeReceipts == INSTANCE SequenceFolds WITH Op <- FeeStep

LEMMA ExplainedIsFold ==
    ASSUME NEW events, NEW fees, NEW asset, NEW user
    PROVE  Explained(events, fees, asset, user)
               = Receipts!Fold(asset, user, 0, events)
                 + FeeReceipts!Fold(asset, user, 0, fees)
  BY DEF Explained, ReceivedStep, FeeStep, Receipts!Fold, FeeReceipts!Fold, FoldLeft,
         Receipts!FoldLeft, FeeReceipts!FoldLeft, MapThenFoldSet, Receipts!MapThenFoldSet,
         FeeReceipts!MapThenFoldSet, Max, Receipts!Max, FeeReceipts!Max

(* Users other than the payer receive what the events and the fees say.    *)
Explains(before, payer, w) ==
    \A a \in Assets, u \in Users \ {payer} :
        /\ Receipts!Fold(a, u, 0, w.log) \in Int
        /\ FeeReceipts!Fold(a, u, 0, w.fees) \in Int
        /\ w.balance[a][u] = before[a][u] + Receipts!Fold(a, u, 0, w.log)
                                          + FeeReceipts!Fold(a, u, 0, w.fees)

(* The contracts the transaction does not go through hold what they held.  *)
Leaves(before, hub, w) ==
    \A a \in Assets, c \in {Batch, SwapToPay, SwapToConversion} \ {hub} :
        w.balance[a][c] = before[a][c]

(* None of the events comes from the receivable contract.                  *)
Elsewhere(events) == \A i \in DOMAIN events : events[i].address # Receivable

(* What a transaction keeps so far.  One that goes through no contract that*)
(* holds assets may be the payment of a receivable.                        *)
Sound(before, payer, hub, w) ==
    /\ before \in Balances /\ IsWorld(w)
    /\ w.ok => /\ Explains(before, payer, w) /\ Leaves(before, hub, w)
               /\ hub = None \/ Elsewhere(w.log)

IsHub(hub) == hub \in {Batch, SwapToPay, SwapToConversion, None}

(* An event, or a fee, more.                                               *)
LEMMA OneReceiptMore ==
    ASSUME NEW s, IsSequence(s), NEW e, NEW asset, NEW user
    PROVE  /\ Receipts!Fold(asset, user, 0, Append(s, e))
                  = Receipts!Fold(asset, user, 0, s) + Received(e, asset, user)
           /\ FeeReceipts!Fold(asset, user, 0, Append(s, e))
                  = FeeReceipts!Fold(asset, user, 0, s) + ReceivedFee(e, asset, user)
<1>1. PICK S : s \in Seq(S)
  BY DEF IsSequence
<1> DEFINE T == S \cup {e}
<1>2. s \in Seq(T) /\ e \in T
  BY <1>1
<1> HIDE DEF T
<1>3. Receipts!Fold(asset, user, 0, Append(s, e))
          = ReceivedStep(asset, user, Receipts!Fold(asset, user, 0, s), e)
  BY <1>2, Receipts!FoldAppend
<1>4. FeeReceipts!Fold(asset, user, 0, Append(s, e))
          = FeeStep(asset, user, FeeReceipts!Fold(asset, user, 0, s), e)
  BY <1>2, FeeReceipts!FoldAppend
<1> QED
  BY <1>3, <1>4 DEF ReceivedStep, FeeStep

LEMMA ElsewhereMore ==
    ASSUME NEW s, IsSequence(s), Elsewhere(s), NEW e, e.address # Receivable
    PROVE  Elsewhere(Append(s, e))
<1> DEFINE more == Append(s, e)
           n    == Len(s)
<1>1. PICK S : s \in Seq(S)
  BY DEF IsSequence
<1> DEFINE T == S \cup {e}
<1>2. s \in Seq(T) /\ e \in T /\ n \in Nat /\ DOMAIN s = 1 .. n
  BY <1>1
<1> HIDE DEF T
<1>3. /\ DOMAIN more = 1 .. n + 1 /\ more[n + 1] = e
      /\ \A i \in 1 .. n : more[i] = s[i]
  BY <1>2, AppendProperties
<1>4. \A i \in 1 .. n + 1 : i \in 1 .. n \/ i = n + 1
  BY <1>2
<1> HIDE DEF more, n
<1>5. Elsewhere(more)
  BY <1>2, <1>3, <1>4 DEF Elsewhere
<1> QED
  BY <1>5 DEF more

LEMMA ProxiesApart ==
    Receivable \notin {ERC20FeeProxy, EthereumFeeProxy, Erc20ConversionProxy,
                       EthConversionProxy}
BY DEF Receivable, ERC20FeeProxy, EthereumFeeProxy, Erc20ConversionProxy, EthConversionProxy

(* A transaction starts with nothing to explain.                           *)
LEMMA SoundStart ==
    ASSUME NEW before \in Balances, NEW payer, NEW hub
    PROVE  Sound(before, payer, hub, World(before))
<1> DEFINE none == << >>
<1>1. IsSequence(none)
  <2>1. none \in Seq({})
    OBVIOUS
  <2> QED
    BY <2>1 DEF IsSequence
<1>2. \A a, u : /\ Receipts!Fold(a, u, 0, none) = 0
                /\ FeeReceipts!Fold(a, u, 0, none) = 0
  BY Receipts!FoldEmpty, FeeReceipts!FoldEmpty
<1>3. /\ World(before).ok = TRUE /\ World(before).balance = before
      /\ World(before).log = none /\ World(before).fees = none
      /\ World(before) = [ok |-> TRUE, balance |-> before, log |-> none,
             payerAuthorized |-> FALSE, transferBack |-> TRUE, usd |-> 0, fees |-> none]
  BY DEF World
<1> DEFINE w == World(before)
<1> HIDE DEF none, w
<1>4. IsWorld(w)
  BY <1>1, <1>3 DEF IsWorld, w
<1>5. \A a \in Assets, u \in Users : before[a][u] \in Nat
  BY DEF Balances, Holders
<1>6. Explains(before, payer, w)
  BY <1>2, <1>3, <1>5 DEF Explains, w
<1>7. Leaves(before, hub, w) /\ Elsewhere(w.log)
  BY <1>3 DEF Leaves, Elsewhere, w, none
<1> QED
  BY <1>4, <1>6, <1>7 DEF Sound, w

(* A step that moves no asset and records nothing.                         *)
LEMMA SoundSame ==
    ASSUME NEW before, NEW payer, NEW hub, NEW w, Sound(before, payer, hub, w),
           NEW after, IsWorld(after), after.ok => w.ok,
           after.balance = w.balance, after.log = w.log, after.fees = w.fees
    PROVE  Sound(before, payer, hub, after)
BY DEF Sound, Explains, Leaves

(* An event that does not tell of a payment.                               *)
LEMMA SoundEvent ==
    ASSUME NEW before, NEW payer, NEW hub, NEW w, Sound(before, payer, hub, w),
           NEW event, event.name # "TransferWithReferenceAndFee",
           hub = None \/ event.address # Receivable
    PROVE  Sound(before, payer, hub, Emit(w, event))
<1> DEFINE after == Emit(w, event)
<1>1. /\ IsWorld(after) /\ after.ok = w.ok /\ after.balance = w.balance
      /\ after.fees = w.fees /\ IsSequence(w.log)
      /\ after.ok => after.log = Append(w.log, event)
  BY EmitWorld DEF Sound, IsWorld
<1>2. \A a, u : Received(event, a, u) = 0
  BY DEF Received
<1> HIDE DEF after
<1>3. ASSUME after.ok PROVE Explains(before, payer, after)
  <2> SUFFICES ASSUME NEW a \in Assets, NEW u \in Users \ {payer}
               PROVE  /\ Receipts!Fold(a, u, 0, after.log) \in Int
                      /\ FeeReceipts!Fold(a, u, 0, after.fees) \in Int
                      /\ after.balance[a][u]
                             = before[a][u] + Receipts!Fold(a, u, 0, after.log)
                                            + FeeReceipts!Fold(a, u, 0, after.fees)
    BY DEF Explains
  <2>1. Receipts!Fold(a, u, 0, after.log) = Receipts!Fold(a, u, 0, w.log) + 0
    <3>1. Receipts!Fold(a, u, 0, Append(w.log, event))
              = Receipts!Fold(a, u, 0, w.log) + Received(event, a, u)
      BY <1>1, OneReceiptMore
    <3> QED
      BY <1>1, <1>2, <1>3, <3>1
  <2>2. /\ Receipts!Fold(a, u, 0, w.log) \in Int
        /\ FeeReceipts!Fold(a, u, 0, w.fees) \in Int
        /\ w.balance[a][u] = before[a][u] + Receipts!Fold(a, u, 0, w.log)
                                          + FeeReceipts!Fold(a, u, 0, w.fees)
    BY <1>1, <1>3 DEF Sound, Explains
  <2> QED
    BY <1>1, <2>1, <2>2
<1>4. after.ok => Leaves(before, hub, after)
  BY <1>1 DEF Sound, Leaves
<1>5. after.ok => hub = None \/ Elsewhere(after.log)
  BY <1>1, ElsewhereMore DEF Sound
<1> QED
  BY <1>1, <1>3, <1>4, <1>5 DEF Sound, after

(* Contracts are not users.                                                *)
LEMMA ContractsApart ==
    /\ {Batch, SwapToPay, SwapToConversion, Router} \cap (Users \cup {None}) = {}
    /\ Router \notin {Batch, SwapToPay, SwapToConversion}
    /\ Users \subseteq Holders /\ Contracts \subseteq Holders /\ None \in Holders
    /\ None \notin Users
BY LedgerAssumption DEF Contracts, Holders, Batch, SwapToPay, SwapToConversion, Router

(* A transfer between the payer, the hub and the router needs no event.    *)
LEMMA SoundTransfer ==
    ASSUME NEW before, NEW payer \in Users, NEW hub, IsHub(hub),
           NEW w, Sound(before, payer, hub, w), NEW after, IsWorld(after),
           NEW asset \in Assets, NEW from \in {payer, hub, Router},
           NEW to \in {payer, hub, Router}, NEW amount,
           SameRecords(w, after),
           after.ok => /\ w.ok /\ amount \in Nat
                       /\ Moved(w, after, asset, from, to, amount)
    PROVE  Sound(before, payer, hub, after)
<1>1. ASSUME after.ok, NEW a \in Assets, NEW h \in Holders \ {payer, hub, Router}
      PROVE  after.balance[a][h] = w.balance[a][h]
  <2>1. CASE a = asset
    <3>1. Gain(h, from, to, amount) = 0
      BY DEF Gain
    <3>2. w.balance[a][h] \in Nat
      BY DEF Sound, IsWorld, Balances
    <3> QED
      BY <1>1, <2>1, <3>1, <3>2 DEF Moved
  <2>2. CASE a # asset
    BY <1>1, <2>2 DEF Moved
  <2> QED
    BY <2>1, <2>2
<1>2. after.ok => Explains(before, payer, after)
  <2>1. \A u \in Users \ {payer} : u \in Holders \ {payer, hub, Router}
    BY ContractsApart DEF IsHub
  <2> QED
    BY <1>1, <2>1 DEF Sound, Explains, SameRecords
<1>3. after.ok => Leaves(before, hub, after)
  <2>1. \A c \in {Batch, SwapToPay, SwapToConversion} \ {hub} :
            c \in Holders \ {payer, hub, Router}
    BY ContractsApart DEF Contracts
  <2> QED
    BY <1>1, <2>1 DEF Sound, Leaves
<1> QED
  BY <1>2, <1>3 DEF Sound, SameRecords

(* A payment of a proxy, with the event it logs.                           *)
LEMMA SoundPayment ==
    ASSUME NEW before, NEW payer \in Users, NEW hub, IsHub(hub),
           NEW w, Sound(before, payer, hub, w), NEW after, IsWorld(after),
           NEW address, hub = None \/ address # Receivable,
           NEW asset \in Assets, NEW sender \in {payer, hub}, NEW payment, payment.to \in Users, payment.feeAddress \in Users \cup {None},
           NEW fee, payment.feeAddress # None => fee = payment.feeAmount,
           after.ok => /\ w.ok /\ payment.amount \in Nat /\ fee \in Nat
                       /\ Logged(w, after, FeeEvent(address, asset, payment))
                       /\ PaidWithFee(w, after, asset, sender, payment, fee)
    PROVE  Sound(before, payer, hub, after)
<1> DEFINE event == FeeEvent(address, asset, payment)
<1>1. event = [name |-> "TransferWithReferenceAndFee", address |-> address,
               tokenAddress |-> asset, to |-> payment.to, amount |-> payment.amount,
               paymentReference |-> payment.ref, feeAmount |-> payment.feeAmount,
               feeAddress |-> payment.feeAddress]
  BY DEF FeeEvent
<1> HIDE DEF event
<1>2. ASSUME after.ok PROVE Explains(before, payer, after)
  <2> SUFFICES ASSUME NEW a \in Assets, NEW u \in Users \ {payer}
               PROVE  /\ Receipts!Fold(a, u, 0, after.log) \in Int
                      /\ FeeReceipts!Fold(a, u, 0, after.fees) \in Int
                      /\ after.balance[a][u]
                             = before[a][u] + Receipts!Fold(a, u, 0, after.log)
                                            + FeeReceipts!Fold(a, u, 0, after.fees)
    BY DEF Explains
  <2>1. Receipts!Fold(a, u, 0, after.log)
            = Receipts!Fold(a, u, 0, w.log) + Received(event, a, u)
    <3>1. IsSequence(w.log) /\ after.log = Append(w.log, event)
      BY <1>2 DEF Sound, IsWorld, Logged, event
    <3> QED
      BY <3>1, OneReceiptMore
  <2>2. /\ Receipts!Fold(a, u, 0, w.log) \in Int
        /\ FeeReceipts!Fold(a, u, 0, w.fees) \in Int
        /\ w.balance[a][u] = before[a][u] + Receipts!Fold(a, u, 0, w.log)
                                          + FeeReceipts!Fold(a, u, 0, w.fees)
        /\ w.balance[a][u] \in Nat
        /\ after.fees = w.fees
    BY <1>2, ContractsApart DEF Sound, Explains, Logged, IsWorld, Balances
  <2>3. u # sender /\ u # None /\ u \in Holders
    BY ContractsApart DEF IsHub
  <2>4. Received(event, a, u) = IF a = asset
                                THEN Gain(u, sender, payment.to, payment.amount)
                                     + Gain(u, sender, payment.feeAddress, fee)
                                ELSE 0
    BY <1>1, <1>2, <2>3 DEF Received, Gain
  <2>5. /\ Gain(u, sender, payment.to, payment.amount) \in Int
        /\ Gain(u, sender, payment.feeAddress, fee) \in Int
    BY <1>2 DEF Gain
  <2>6. after.balance[a][u] = w.balance[a][u] + Received(event, a, u)
    BY <1>2, <2>2, <2>3, <2>4, <2>5 DEF PaidWithFee
  <2>7. Received(event, a, u) \in Int
    BY <2>4, <2>5
  <2>8. before[a][u] \in Nat
    BY <2>3 DEF Sound, Balances
  <2> QED
    BY <2>1, <2>2, <2>6, <2>7, <2>8
<1>3. ASSUME after.ok PROVE Leaves(before, hub, after)
  <2> SUFFICES ASSUME NEW a \in Assets,
                      NEW c \in {Batch, SwapToPay, SwapToConversion} \ {hub}
               PROVE  after.balance[a][c] = w.balance[a][c]
    BY <1>3 DEF Sound, Leaves
  <2>1. c \in Holders /\ c \notin {sender, payment.to, payment.feeAddress}
    BY ContractsApart DEF Contracts
  <2>2. Gain(c, sender, payment.to, payment.amount) = 0
        /\ Gain(c, sender, payment.feeAddress, fee) = 0
        /\ w.balance[a][c] \in Nat
    BY <2>1 DEF Gain, Sound, IsWorld, Balances
  <2> QED
    BY <1>3, <2>1, <2>2 DEF PaidWithFee
<1>4. after.ok => hub = None \/ Elsewhere(after.log)
  <2>1. event.address = address
    BY <1>1
  <2>2. after.ok => w.ok /\ after.log = Append(w.log, event) /\ IsSequence(w.log)
    BY DEF Sound, IsWorld, Logged, event
  <2> QED
    BY <2>1, <2>2, ElsewhereMore DEF Sound
<1> QED
  BY <1>2, <1>3, <1>4 DEF Sound

LEMMA SoundRequire ==
    ASSUME NEW before, NEW payer, NEW hub, NEW w, Sound(before, payer, hub, w),
           NEW condition
    PROVE  Sound(before, payer, hub, Require(w, condition))
<1> DEFINE after == Require(w, condition)
<1>1. /\ IsWorld(after)
      /\ after.ok => w.ok
      /\ after.balance = w.balance /\ after.log = w.log /\ after.fees = w.fees
  BY DEF Sound, IsWorld, Require
<1> HIDE DEF after
<1>2. Sound(before, payer, hub, after)
  BY <1>1, SoundSame
<1> QED
  BY <1>2 DEF after

LEMMA SoundCredit ==
    ASSUME NEW before, NEW payer \in Users, NEW hub, IsHub(hub),
           NEW w, Sound(before, payer, hub, w),
           NEW asset \in Assets, NEW from \in {payer, hub, Router},
           NEW to \in {payer, hub, Router}, NEW amount
    PROVE  Sound(before, payer, hub, Credit(w, asset, from, to, amount))
<1> DEFINE after == Credit(w, asset, from, to, amount)
<1>1. from \in Holders /\ to \in Holders
  BY ContractsApart DEF IsHub, Contracts
<1>2. IsWorld(w)
  BY DEF Sound
<1>3. /\ IsWorld(after) /\ SameRecords(w, after)
      /\ after.ok => /\ w.ok /\ amount \in Nat
                     /\ Moved(w, after, asset, from, to, amount)
  BY <1>1, <1>2, CreditWorld
<1> HIDE DEF after
<1>4. Sound(before, payer, hub, after)
  BY <1>3, SoundTransfer
<1> QED
  BY <1>4 DEF after

LEMMA SoundToken ==
    ASSUME NEW before, NEW payer \in Users, NEW hub, IsHub(hub),
           NEW w, Sound(before, payer, hub, w),
           NEW token \in Tokens, NEW from \in {payer, hub, Router},
           NEW to \in {payer, hub, Router}, NEW amount
    PROVE  Sound(before, payer, hub, SafeTransferFrom(w, token, from, to, amount))
<1>1. Sound(before, payer, hub, Require(w, to # None))
  BY SoundRequire
<1>2. token \in Assets
  BY DEF Assets
<1> QED
  BY <1>1, <1>2, SoundCredit DEF SafeTransferFrom

LEMMA SoundValue ==
    ASSUME NEW before, NEW payer \in Users, NEW hub, IsHub(hub),
           NEW w, Sound(before, payer, hub, w),
           NEW from \in {payer, hub, Router}, NEW to \in {payer, hub, Router}, NEW amount
    PROVE  Sound(before, payer, hub, SendValue(w, from, to, amount))
<1>1. Sound(before, payer, hub, Require(w, TakesValue(w, to, amount)))
  BY SoundRequire
<1>2. Native \in Assets
  BY DEF Assets
<1> QED
  BY <1>1, <1>2, SoundCredit DEF SendValue

SameFlags(w, after) ==
    after.transferBack = w.transferBack /\ after.payerAuthorized = w.payerAuthorized

(* A fee more, and nothing else is recorded.                               *)
Recorded(w, after, asset, to, fee) ==
    /\ after.log = w.log /\ after.usd = w.usd
    /\ SameFlags(w, after)
    /\ after.fees = Append(w.fees, [asset |-> asset, to |-> to, fee |-> fee])

(* A fee of the contract moves like a transfer and is recorded.            *)
LEMMA ContractFeeWorld ==
    ASSUME NEW w, IsWorld(w), NEW asset \in Assets, NEW from \in Holders,
           NEW to \in Holders, NEW fee, NEW after,
           after = PayContractFee(w, asset, from, to, fee)
    PROVE  /\ IsWorld(after)
           /\ Recorded(w, after, asset, to, fee)
           /\ after.ok => /\ w.ok /\ fee \in Nat
                          /\ asset # Native => to # None
                          /\ w.balance[asset][from] >= fee
                          /\ Moved(w, after, asset, from, to, fee)
<1> DEFINE given == IF asset = Native THEN SendValue(w, from, to, fee)
                                      ELSE SafeTransferFrom(w, asset, from, to, fee)
           record == [asset |-> asset, to |-> to, fee |-> fee]
<1>1. after = [given EXCEPT !.fees = Append(@, record)]
  BY DEF PayContractFee
<1>2. /\ IsWorld(given) /\ SameRecords(w, given)
      /\ given.ok => /\ w.ok /\ fee \in Nat
                     /\ asset # Native => to # None
                     /\ w.balance[asset][from] >= fee
                     /\ Moved(w, given, asset, from, to, fee)
  <2>1. CASE asset = Native
    BY <2>1, ValueTransfer
  <2>2. CASE asset # Native
    <3>1. asset \in Tokens
      BY <2>2 DEF Assets
    <3> QED
      BY <2>2, <3>1, TokenTransfer
  <2> QED
    BY <2>1, <2>2
<1> HIDE DEF given, record
<1>3. IsSequence(Append(w.fees, record))
  BY LongerSequence DEF IsWorld
<1>4. given.fees = w.fees
  BY <1>2 DEF SameRecords
<1>5. /\ after.ok = given.ok /\ after.balance = given.balance /\ after.log = given.log
      /\ after.usd = given.usd /\ after.transferBack = given.transferBack
      /\ after.payerAuthorized = given.payerAuthorized
      /\ after.fees = Append(w.fees, record)
      /\ IsWorld(after)
  BY <1>1, <1>2, <1>3, <1>4 DEF IsWorld
<1>6. Moved(w, given, asset, from, to, fee) => Moved(w, after, asset, from, to, fee)
  BY <1>5 DEF Moved
<1> QED
  BY <1>2, <1>5, <1>6 DEF SameRecords, SameFlags, record, Recorded

LEMMA SoundContractFee ==
    ASSUME NEW before, NEW payer \in Users, NEW hub, IsHub(hub),
           NEW w, Sound(before, payer, hub, w), NEW asset \in Assets,
           NEW from \in {payer, hub}, NEW to \in Users \cup {None}, NEW fee
    PROVE  Sound(before, payer, hub, PayContractFee(w, asset, from, to, fee))
<1> DEFINE after  == PayContractFee(w, asset, from, to, fee)
           record == [asset |-> asset, to |-> to, fee |-> fee]
<1>1. from \in Holders /\ to \in Holders
  BY ContractsApart DEF IsHub, Contracts
<1>2. IsWorld(w)
  BY DEF Sound
<1>3. /\ IsWorld(after) /\ after.log = w.log /\ after.fees = Append(w.fees, record)
      /\ after.ok => /\ w.ok /\ fee \in Nat /\ Moved(w, after, asset, from, to, fee)
  BY <1>1, <1>2, ContractFeeWorld DEF Recorded
<1>4. record.asset = asset /\ record.to = to /\ record.fee = fee
  OBVIOUS
<1> HIDE DEF after, record
<1>5. ASSUME after.ok, NEW a \in Assets, NEW h \in Holders
      PROVE  /\ w.balance[a][h] \in Nat
             /\ after.balance[a][h]
                    = w.balance[a][h] + IF a = asset THEN Gain(h, from, to, fee) ELSE 0
  <2>1. w.balance[a][h] \in Nat
    BY <1>2 DEF IsWorld, Balances
  <2> QED
    BY <1>3, <1>5, <2>1 DEF Moved
<1>6. ASSUME after.ok PROVE Explains(before, payer, after)
  <2> SUFFICES ASSUME NEW a \in Assets, NEW u \in Users \ {payer}
               PROVE  /\ Receipts!Fold(a, u, 0, after.log) \in Int
                      /\ FeeReceipts!Fold(a, u, 0, after.fees) \in Int
                      /\ after.balance[a][u]
                             = before[a][u] + Receipts!Fold(a, u, 0, after.log)
                                            + FeeReceipts!Fold(a, u, 0, after.fees)
    BY DEF Explains
  <2>1. FeeReceipts!Fold(a, u, 0, after.fees)
            = FeeReceipts!Fold(a, u, 0, w.fees) + ReceivedFee(record, a, u)
    BY <1>2, <1>3, OneReceiptMore DEF IsWorld
  <2>2. u # from /\ u \in Holders
    BY ContractsApart DEF IsHub
  <2>3. /\ ReceivedFee(record, a, u) = IF a = asset THEN Gain(u, from, to, fee) ELSE 0
        /\ ReceivedFee(record, a, u) \in Int
    BY <1>3, <1>4, <1>6, <2>2 DEF ReceivedFee, Gain
  <2>4. /\ Receipts!Fold(a, u, 0, w.log) \in Int
        /\ FeeReceipts!Fold(a, u, 0, w.fees) \in Int
        /\ w.balance[a][u] = before[a][u] + Receipts!Fold(a, u, 0, w.log)
                                          + FeeReceipts!Fold(a, u, 0, w.fees)
        /\ before[a][u] \in Nat
    BY <1>3, <1>6, <2>2 DEF Sound, Explains, Balances
  <2>5. after.balance[a][u] = w.balance[a][u] + ReceivedFee(record, a, u)
    BY <1>5, <1>6, <2>2, <2>3
  <2> QED
    BY <1>3, <2>1, <2>3, <2>4, <2>5
<1>7. ASSUME after.ok PROVE Leaves(before, hub, after)
  <2> SUFFICES ASSUME NEW a \in Assets,
                      NEW c \in {Batch, SwapToPay, SwapToConversion} \ {hub}
               PROVE  after.balance[a][c] = w.balance[a][c]
    BY <1>3, <1>7 DEF Sound, Leaves
  <2>1. c \in Holders /\ c # from /\ c # to
    BY ContractsApart DEF Contracts
  <2>2. Gain(c, from, to, fee) = 0
    BY <2>1 DEF Gain
  <2> QED
    BY <1>5, <1>7, <2>1, <2>2
<1>8. Sound(before, payer, hub, after)
  BY <1>3, <1>6, <1>7 DEF Sound
<1> QED
  BY <1>8 DEF after

(* A payment to a user, whose fee goes to a user or is dropped.            *)
PaysUser(payment) ==
    /\ payment.to \in Users /\ payment.feeAddress \in Users \cup {None}
    /\ payment = [to |-> payment.to, amount |-> payment.amount, ref |-> payment.ref,
                  feeAmount |-> payment.feeAmount, feeAddress |-> payment.feeAddress]

LEMMA SoundFeeProxy ==
    ASSUME NEW before, NEW payer \in Users, NEW hub, IsHub(hub),
           NEW w, Sound(before, payer, hub, w),
           NEW address, hub = None \/ address # Receivable,
           NEW sender \in {payer, hub}, NEW token \in Tokens,
           NEW payment, PaysUser(payment)
    PROVE  Sound(before, payer, hub,
                 TransferFromWithReferenceAndFee(w, address, sender, token, payment))
<1> DEFINE after == TransferFromWithReferenceAndFee(w, address, sender, token, payment)
<1>1. sender \in Holders /\ token \in Assets /\ IsPayment(payment) /\ IsWorld(w)
  BY ContractsApart DEF IsHub, Contracts, Assets, IsPayment, PaysUser, Sound
<1>2. /\ IsWorld(after)
      /\ after.ok => /\ w.ok /\ payment.amount \in Nat /\ FeeTaken(payment) \in Nat
                     /\ Logged(w, after, FeeEvent(address, token, payment))
                     /\ PaidWithFee(w, after, token, sender, payment, FeeTaken(payment))
  BY <1>1, FeeProxyPays
<1>3. payment.feeAddress # None => FeeTaken(payment) = payment.feeAmount
  BY DEF FeeTaken
<1> DEFINE fee == FeeTaken(payment)
<1> HIDE DEF after, fee
<1>4. Sound(before, payer, hub, after)
  BY <1>1, <1>2, <1>3, SoundPayment DEF PaysUser, fee
<1> QED
  BY <1>4 DEF after

LEMMA SoundEthFeeProxy ==
    ASSUME NEW before, NEW payer \in Users, NEW hub, IsHub(hub),
           NEW w, Sound(before, payer, hub, w),
           NEW address, hub = None \/ address # Receivable,
           NEW sender \in {payer, hub}, NEW value, NEW payment, PaysUser(payment)
    PROVE  Sound(before, payer, hub,
                 TransferExactEthWithReferenceAndFee(w, address, sender, value, payment))
<1> DEFINE after == TransferExactEthWithReferenceAndFee(w, address, sender, value, payment)
<1>1. sender \in Holders /\ Native \in Assets /\ IsPayment(payment) /\ IsWorld(w)
  BY ContractsApart DEF IsHub, Contracts, Assets, IsPayment, PaysUser, Sound
<1>2. /\ IsWorld(after)
      /\ after.ok => /\ w.ok /\ payment.amount \in Nat /\ payment.feeAmount \in Nat
                     /\ Logged(w, after, FeeEvent(address, Native, payment))
                     /\ PaidWithFee(w, after, Native, sender, payment, payment.feeAmount)
  BY <1>1, EthFeeProxyPays
<1> DEFINE fee == payment.feeAmount
<1>3. after.ok => /\ w.ok /\ payment.amount \in Nat /\ fee \in Nat
                  /\ Logged(w, after, FeeEvent(address, Native, payment))
                  /\ PaidWithFee(w, after, Native, sender, payment, fee)
  BY <1>2
<1>4. payment.feeAddress # None => fee = payment.feeAmount
  OBVIOUS
<1> HIDE DEF after, fee
<1>5. Sound(before, payer, hub, after)
  BY <1>1, <1>2, <1>3, <1>4, SoundPayment DEF PaysUser
<1> QED
  BY <1>5 DEF after

LEMMA PaysUserConverted ==
    ASSUME NEW rates, NEW path, NEW payment, PaysUser(payment)
    PROVE  PaysUser(Converted(rates, path, payment))
<1> DEFINE amount == GetConversion(rates, path, payment.amount)
           fee    == GetConversion(rates, path, payment.feeAmount)
<1>1. Converted(rates, path, payment)
          = [payment EXCEPT !.amount = amount, !.feeAmount = fee]
  BY DEF Converted
<1> HIDE DEF amount, fee
<1> QED
  BY <1>1 DEF PaysUser

LEMMA SoundErc20Conversion ==
    ASSUME NEW before, NEW payer \in Users, NEW hub, IsHub(hub),
           NEW w, Sound(before, payer, hub, w), NEW rates, NEW sender \in {payer, hub},
           NEW path, Last(path) \in Tokens, NEW payment, PaysUser(payment),
           NEW maxToSpend, NEW maxRateTimespan
    PROVE  Sound(before, payer, hub,
                 PayErc20WithConversion(w, rates, sender, path, payment, maxToSpend,
                                        maxRateTimespan))
<1> DEFINE converted == Converted(rates, path, payment)
           checked   == Require(w, /\ GetRate(rates, path).ok
                                   /\ RateNotOutdated(rates, GetRate(rates, path),
                                                      maxRateTimespan)
                                   /\ WithinUserLimit(converted, maxToSpend))
           payed     == TransferFromWithReferenceAndFee(checked, Erc20ConversionProxy,
                            sender, Last(path), converted)
           event     == ConversionEvent(Erc20ConversionProxy, path[1], payment,
                                        maxRateTimespan)
<1>1. PayErc20WithConversion(w, rates, sender, path, payment, maxToSpend, maxRateTimespan)
          = IF ~checked.ok THEN checked ELSE Emit(payed, event)
  BY DEF PayErc20WithConversion
<1>2. PaysUser(converted)
  BY PaysUserConverted
<1>3. event.name # "TransferWithReferenceAndFee" /\ event.address # Receivable
  BY ProxiesApart DEF ConversionEvent
<1>4. Sound(before, payer, hub, checked)
  BY SoundRequire
<1> HIDE DEF checked, converted, event
<1>5. Sound(before, payer, hub, payed)
  BY <1>2, <1>4, ProxiesApart, SoundFeeProxy
<1> HIDE DEF payed
<1>6. Sound(before, payer, hub, Emit(payed, event))
  BY <1>3, <1>5, SoundEvent
<1> QED
  BY <1>1, <1>4, <1>6

LEMMA SoundEthConversion ==
    ASSUME NEW before, NEW payer \in Users, NEW hub, IsHub(hub),
           NEW w, Sound(before, payer, hub, w), NEW rates, NEW sender \in {payer, hub},
           NEW value, NEW path, NEW payment, PaysUser(payment), NEW maxRateTimespan
    PROVE  Sound(before, payer, hub,
                 PayEthWithConversion(w, rates, sender, value, path, payment,
                                      maxRateTimespan))
<1> DEFINE converted == Converted(rates, path, payment)
           checked   == Require(w, /\ Last(path) = Native
                                   /\ GetRate(rates, path).ok
                                   /\ RateNotOutdated(rates, GetRate(rates, path),
                                                      maxRateTimespan))
           payed     == TransferExactEthWithReferenceAndFee(checked, EthConversionProxy,
                            sender, value, converted)
           event     == ConversionEvent(EthConversionProxy, path[1], payment,
                                        maxRateTimespan)
<1>1. PayEthWithConversion(w, rates, sender, value, path, payment, maxRateTimespan)
          = IF ~checked.ok THEN checked ELSE Emit(payed, event)
  BY DEF PayEthWithConversion
<1>2. PaysUser(converted)
  BY PaysUserConverted
<1>3. event.name # "TransferWithReferenceAndFee" /\ event.address # Receivable
  BY ProxiesApart DEF ConversionEvent
<1>4. Sound(before, payer, hub, checked)
  BY SoundRequire
<1> HIDE DEF checked, converted, event
<1>5. Sound(before, payer, hub, payed)
  BY <1>2, <1>4, ProxiesApart, SoundEthFeeProxy
<1> HIDE DEF payed
<1>6. Sound(before, payer, hub, Emit(payed, event))
  BY <1>3, <1>5, SoundEvent
<1> QED
  BY <1>1, <1>4, <1>6

-----------------------------------------------------------------------------
(***************************************************************************)
(* The steps of the batch contract: what they do to what it holds itself.  *)
(***************************************************************************)
IsCall(call) == call.payer \in Users /\ call.feeAddress \in Users \cup {None}

BatchSound(before, call, w) == Sound(before, call.payer, Batch, w)

(* The rates of a path are there and none is older than asked; those of a  *)
(* payment with conversion, of several, and of a group of a call.          *)
FreshRate(rates, path, maxRateTimespan) ==
    /\ GetRate(rates, path).ok
    /\ RateNotOutdated(rates, GetRate(rates, path), maxRateTimespan)

RateChecked(call, rd) == FreshRate(call.market, rd.path, rd.maxRateTimespan)

AllChecked(call, details) == \A i \in 1 .. Len(details) : RateChecked(call, details[i])

RatesChecked(call, group) ==
    group.paymentNetworkId \in {0, 4} => AllChecked(call, group.requestDetails)

(* The contract holds `delta` more of an asset and as much of the others.  *)
HubGains(w, after, asset, delta) ==
    \A a \in Assets : after.balance[a][Batch]
                          = w.balance[a][Batch] + IF a = asset THEN delta ELSE 0

HubStep(before, call, w, after, asset, delta) ==
    /\ BatchSound(before, call, after)
    /\ after.ok => w.ok /\ delta \in Int /\ HubGains(w, after, asset, delta)

LEMMA BatchHub ==
    ASSUME NEW call, IsCall(call)
    PROVE  /\ call.payer \in Holders /\ Batch \in Holders /\ call.feeAddress \in Holders
           /\ call.payer # Batch /\ call.feeAddress # Batch
           /\ call.payer \in Users /\ IsHub(Batch)
BY ContractsApart DEF IsCall, Contracts, IsHub

LEMMA HubHoldings ==
    ASSUME NEW before, NEW call, NEW w, BatchSound(before, call, w)
    PROVE  IsWorld(w) /\ \A a \in Assets : w.balance[a][Batch] \in Nat
BY ContractsApart DEF BatchSound, Sound, IsWorld, Balances, Contracts

(* A transfer of w changes what the contract holds by Gain.                *)
LEMMA HubMoved ==
    ASSUME NEW w, IsWorld(w), NEW after, NEW asset \in Assets, NEW from, NEW to,
           NEW amount \in Nat, Moved(w, after, asset, from, to, amount)
    PROVE  HubGains(w, after, asset, Gain(Batch, from, to, amount))
<1>1. Batch \in Holders /\ \A a \in Assets : w.balance[a][Batch] \in Nat
  BY ContractsApart DEF IsWorld, Balances, Contracts
<1> QED
  BY <1>1 DEF Moved, HubGains

LEMMA HubPaid ==
    ASSUME NEW w, IsWorld(w), NEW after, NEW asset \in Assets,
           NEW payment, PaysUser(payment), NEW fee \in Nat, payment.amount \in Nat,
           PaidWithFee(w, after, asset, Batch, payment, fee)
    PROVE  HubGains(w, after, asset, -(payment.amount + fee))
<1>1. Batch \in Holders /\ \A a \in Assets : w.balance[a][Batch] \in Nat
  BY ContractsApart DEF IsWorld, Balances, Contracts
<1>2. payment.to # Batch /\ payment.feeAddress # Batch
  BY ContractsApart DEF PaysUser
<1>3. /\ Gain(Batch, Batch, payment.to, payment.amount) = -payment.amount
      /\ Gain(Batch, Batch, payment.feeAddress, fee) = -fee
  BY <1>2 DEF Gain
<1>4. after.balance[asset][Batch] = w.balance[asset][Batch] + -(payment.amount + fee)
  BY <1>1, <1>3 DEF PaidWithFee
<1> QED
  BY <1>1, <1>4 DEF PaidWithFee, HubGains

(* The payer hands over what the contract will pay with.                   *)
LEMMA FundStep ==
    ASSUME NEW before, NEW call, IsCall(call), NEW w, BatchSound(before, call, w),
           NEW token \in Tokens, NEW amountAndFee, NEW batchFeeAmount, NEW after,
           after = TransferToContract(call, w, token, amountAndFee, batchFeeAmount)
    PROVE  /\ HubStep(before, call, w, after, token, amountAndFee)
           /\ after.ok => amountAndFee \in Nat
<1> DEFINE able    == w.balance[token][call.payer] >= amountAndFee + batchFeeAmount
           allowed == Require(w, able)
<1>1. after = SafeTransferFrom(allowed, token, call.payer, Batch, amountAndFee)
  BY DEF TransferToContract
<1>2. Sound(before, call.payer, Batch, allowed)
  BY SoundRequire DEF BatchSound
<1>3. allowed.balance = w.balance /\ (allowed.ok => w.ok) /\ token \in Assets
  BY DEF Require, BatchSound, Sound, IsWorld, Assets
<1> HIDE DEF allowed
<1>4. Sound(before, call.payer, Batch, after)
  BY <1>1, <1>2, BatchHub, SoundToken
<1>5. IsWorld(allowed)
  BY <1>2 DEF Sound
<1>6. after.ok => /\ allowed.ok /\ amountAndFee \in Nat
                  /\ Moved(allowed, after, token, call.payer, Batch, amountAndFee)
  BY <1>1, <1>5, BatchHub, TokenTransfer
<1>7. ASSUME after.ok PROVE HubGains(w, after, token, amountAndFee)
  <2>1. HubGains(allowed, after, token, Gain(Batch, call.payer, Batch, amountAndFee))
    BY <1>3, <1>5, <1>6, <1>7, HubMoved
  <2>2. Gain(Batch, call.payer, Batch, amountAndFee) = amountAndFee
    BY <1>6, <1>7, BatchHub DEF Gain
  <2> QED
    BY <1>3, <2>1, <2>2 DEF HubGains
<1> QED
  BY <1>3, <1>4, <1>6, <1>7 DEF HubStep, BatchSound

FeeGain(from, fee) == IF from = Batch THEN -fee ELSE 0

FeePaid(call, w, after, asset, from, fee) ==
    after.ok => /\ w.ok /\ fee \in Nat
                /\ asset # Native => call.feeAddress # None
                /\ HubGains(w, after, asset, FeeGain(from, fee))

(* The batch fee on a token comes from the payer, ...                      *)
LEMMA BatchFeeStep ==
    ASSUME NEW before, NEW call, IsCall(call), NEW w, BatchSound(before, call, w),
           NEW toPay, NEW asset \in Assets, NEW from \in {call.payer, Batch}, NEW after,
           after = PayBatchFee(call, w, toPay, asset, from)
    PROVE  /\ BatchSound(before, call, after)
           /\ FeePaid(call, w, after, asset, from, toPay.fee)
           /\ SameFlags(w, after)
<1> DEFINE required == Require(w, toPay.ok)
           counted  == [required EXCEPT !.usd = toPay.usd]
           to       == call.feeAddress
           fee      == toPay.fee
<1>1. after = PayContractFee(counted, asset, from, to, fee)
  BY DEF PayBatchFee
<1>2. IsWorld(w) /\ Sound(before, call.payer, Batch, required)
  <2>1. IsWorld(w) /\ Sound(before, call.payer, Batch, w)
    BY DEF BatchSound, Sound
  <2> HIDE DEF required
  <2>2. Sound(before, call.payer, Batch, required)
    BY <2>1, SoundRequire DEF required
  <2> QED
    BY <2>1, <2>2
<1>3. required.balance = w.balance /\ (required.ok => w.ok) /\ IsWorld(required)
      /\ required.transferBack = w.transferBack
      /\ required.payerAuthorized = w.payerAuthorized
  BY <1>2 DEF Require, Sound, IsWorld
<1> HIDE DEF required
<1>4. /\ IsWorld(counted) /\ counted.ok = required.ok /\ counted.balance = required.balance
      /\ counted.log = required.log /\ counted.fees = required.fees
      /\ counted.transferBack = required.transferBack
      /\ counted.payerAuthorized = required.payerAuthorized
  BY <1>3 DEF IsWorld
<1> HIDE DEF counted
<1>5. Sound(before, call.payer, Batch, counted)
  BY <1>2, <1>4, SoundSame
<1>6. to \in Users \cup {None} /\ from \in Holders /\ to \in Holders
  BY BatchHub DEF IsCall
<1> HIDE DEF to, fee
<1>7. Sound(before, call.payer, Batch, after)
  BY <1>1, <1>5, <1>6, BatchHub, SoundContractFee
<1>8. /\ Recorded(counted, after, asset, to, fee)
      /\ after.ok => /\ counted.ok /\ fee \in Nat
                     /\ asset # Native => to # None
                     /\ Moved(counted, after, asset, from, to, fee)
  BY <1>1, <1>4, <1>6, ContractFeeWorld
<1>9. ASSUME after.ok
      PROVE  HubGains(w, after, asset, FeeGain(from, fee))
  <2>1. HubGains(counted, after, asset, Gain(Batch, from, to, fee))
    BY <1>4, <1>8, <1>9, HubMoved
  <2>2. Gain(Batch, from, to, fee) = FeeGain(from, fee)
    BY <1>8, <1>9, BatchHub DEF Gain, FeeGain, to
  <2> QED
    BY <1>3, <1>4, <2>1, <2>2 DEF HubGains
<1> QED
  BY <1>3, <1>4, <1>7, <1>8, <1>9 DEF BatchSound, FeePaid, to, fee, Recorded, SameFlags

LEMMA TokenFeeStep ==
    ASSUME NEW before, NEW call, IsCall(call), NEW w, BatchSound(before, call, w),
           NEW fee, NEW token \in Tokens, NEW after,
           after = PayTokenBatchFee(call, w, fee, token)
    PROVE  /\ HubStep(before, call, w, after, token, 0)
           /\ after.ok => call.feeAddress # None
<1> DEFINE toPay == CalculateBatchFeeToPay(call.market, call.config, fee, token,
                                           w.usd, call.paths)
           from  == call.payer
<1>1. after = PayBatchFee(call, w, toPay, token, from)
  BY DEF PayTokenBatchFee
<1>2. token \in Assets /\ token # Native /\ from # Batch
  BY LedgerAssumption, BatchHub DEF Assets
<1> HIDE DEF toPay, from
<1>3. from \in {call.payer, Batch}
  BY DEF from
<1>4. BatchSound(before, call, after) /\ FeePaid(call, w, after, token, from, toPay.fee)
  BY <1>1, <1>2, <1>3, BatchFeeStep
<1> QED
  BY <1>2, <1>4 DEF HubStep, FeePaid, FeeGain

(* ... a payment from what the contract holds.                             *)
IsDetail(rd) == rd.recipient \in Users

LEMMA DetailPayment ==
    ASSUME NEW call, IsCall(call), NEW rd, IsDetail(rd), NEW payment,
           payment = Payment(rd, call.feeAddress)
    PROVE  /\ PaysUser(payment) /\ IsPayment(payment)
           /\ payment.amount = rd.requestAmount /\ payment.feeAmount = rd.feeAmount
           /\ payment.feeAddress = call.feeAddress /\ payment.to = rd.recipient
           /\ payment.ref = rd.paymentReference
BY ContractsApart DEF IsCall, IsDetail, Payment, PaysUser, IsPayment, Holders

LEMMA DetailStep ==
    ASSUME NEW before, NEW call, IsCall(call), NEW w, BatchSound(before, call, w),
           NEW rd, IsDetail(rd), rd.path[1] \in Tokens, NEW after,
           after = PayDetail(call, w, rd)
    PROVE  /\ HubStep(before, call, w, after, rd.path[1],
                  -(rd.requestAmount + FeeTaken(Payment(rd, call.feeAddress))))
           /\ after.ok => /\ rd.requestAmount \in Nat
                          /\ FeeTaken(Payment(rd, call.feeAddress)) \in Nat
<1> DEFINE payment == Payment(rd, call.feeAddress)
           token   == rd.path[1]
           fee     == FeeTaken(payment)
<1>1. after = TransferFromWithReferenceAndFee(w, ERC20FeeProxy, Batch, token, payment)
  BY DEF PayDetail
<1>2. PaysUser(payment) /\ IsPayment(payment) /\ payment.amount = rd.requestAmount
  BY DetailPayment
<1>3. token \in Assets /\ IsWorld(w)
  BY HubHoldings DEF Assets
<1> HIDE DEF payment
<1>4. BatchSound(before, call, after)
  BY <1>1, <1>2, BatchHub, ProxiesApart, SoundFeeProxy DEF BatchSound
<1>5. after.ok => /\ w.ok /\ payment.amount \in Nat /\ FeeTaken(payment) \in Nat
                  /\ PaidWithFee(w, after, token, Batch, payment, FeeTaken(payment))
  BY <1>1, <1>2, <1>3, BatchHub, FeeProxyPays
<1> HIDE DEF token, fee
<1>6. after.ok => HubGains(w, after, token, -(payment.amount + fee))
  BY <1>2, <1>3, <1>5, HubPaid DEF fee
<1> QED
  BY <1>2, <1>4, <1>5, <1>6 DEF HubStep, payment, token, fee

LEMMA ConversionStep ==
    ASSUME NEW before, NEW call, IsCall(call), NEW w, BatchSound(before, call, w),
           NEW rd, IsDetail(rd), Last(rd.path) \in Tokens, NEW after,
           after = PayConversion(call, w, rd)
    PROVE  /\ BatchSound(before, call, after)
           /\ after.ok => /\ w.ok /\ RateChecked(call, rd)
                          /\ \E spent \in Nat :
                                 HubGains(w, after, Last(rd.path), -spent)
<1> DEFINE payment   == Payment(rd, call.feeAddress)
           converted == Converted(call.market, rd.path, payment)
           fee       == FeeTaken(converted)
           token     == Last(rd.path)
           rates     == call.market
           path      == rd.path
           max       == rd.maxToSpend
           timespan  == rd.maxRateTimespan
<1>1. after = PayErc20WithConversion(w, rates, Batch, path, payment, max, timespan)
  BY DEF PayConversion
<1>2. PaysUser(payment) /\ IsPayment(payment)
  BY DetailPayment
<1>3. token \in Assets /\ IsWorld(w) /\ Last(path) \in Tokens
  BY HubHoldings DEF Assets
<1> HIDE DEF payment, rates, path, max, timespan
<1>4. PaysUser(converted)
  <2>1. PaysUser(Converted(rates, path, payment))
    BY <1>2, PaysUserConverted
  <2> QED
    BY <2>1 DEF rates, path
<1>5. BatchSound(before, call, after)
  BY <1>1, <1>2, <1>3, BatchHub, SoundErc20Conversion DEF BatchSound
<1>6. after.ok => /\ w.ok /\ converted.amount \in Nat /\ FeeTaken(converted) \in Nat
                  /\ PaidWithFee(w, after, token, Batch, converted, FeeTaken(converted))
  BY <1>1, <1>2, <1>3, BatchHub, Erc20ConversionPays DEF rates, path
<1>7. after.ok => RateChecked(call, rd)
  <2>1. after.ok => FreshRate(rates, path, timespan)
    BY <1>1, <1>2, <1>3, BatchHub, Erc20ConversionPays DEF FreshRate
  <2> QED
    BY <2>1 DEF RateChecked, rates, path, timespan
<1> HIDE DEF converted, token, fee
<1>8. ASSUME after.ok
      PROVE  /\ converted.amount + fee \in Nat
             /\ HubGains(w, after, token, -(converted.amount + fee))
  BY <1>3, <1>4, <1>6, <1>8, HubPaid DEF fee
<1> QED
  BY <1>5, <1>6, <1>7, <1>8 DEF token

(* A payment in the native token leaves the tokens alone.                  *)
LEMMA NativeStep ==
    ASSUME NEW before, NEW call, IsCall(call), NEW w, BatchSound(before, call, w),
           NEW rd, IsDetail(rd), NEW after, after = PayNative(call, w, rd)
    PROVE  /\ BatchSound(before, call, after)
           /\ after.ok => /\ w.ok
                          /\ \E spent \in Nat : HubGains(w, after, Native, -spent)
           /\ after.ok => SameFlags(w, after)
<1> DEFINE plain   == Payment(rd, call.feeAddress)
           value   == rd.requestAmount + rd.feeAmount
           amount  == value - plain.feeAmount
           payment == [plain EXCEPT !.amount = amount]
           fee     == payment.feeAmount
<1>1. after = TransferExactEthWithReferenceAndFee(w, EthereumFeeProxy, Batch, value, payment)
  BY DEF PayNative, TransferWithReferenceAndFee
<1>2. PaysUser(plain) /\ IsPayment(plain)
  BY DetailPayment
<1> HIDE DEF plain, amount
<1>3. PaysUser(payment) /\ IsPayment(payment)
  BY <1>2 DEF PaysUser, IsPayment
<1>4. Native \in Assets /\ IsWorld(w)
  BY HubHoldings DEF Assets
<1> HIDE DEF payment, value
<1>5. BatchSound(before, call, after)
  BY <1>1, <1>3, BatchHub, ProxiesApart, SoundEthFeeProxy DEF BatchSound
<1>6. after.ok => /\ w.ok /\ payment.amount \in Nat /\ payment.feeAmount \in Nat
                  /\ Logged(w, after, FeeEvent(EthereumFeeProxy, Native, payment))
                  /\ PaidWithFee(w, after, Native, Batch, payment, payment.feeAmount)
  BY <1>1, <1>3, <1>4, BatchHub, EthFeeProxyPays
<1> HIDE DEF fee
<1>7. ASSUME after.ok
      PROVE  /\ payment.amount + fee \in Nat
             /\ HubGains(w, after, Native, -(payment.amount + fee))
  BY <1>3, <1>4, <1>6, <1>7, HubPaid DEF fee
<1> QED
  BY <1>5, <1>6, <1>7 DEF Logged, SameFlags

LEMMA NativeConversionStep ==
    ASSUME NEW before, NEW call, IsCall(call), NEW w, BatchSound(before, call, w),
           NEW rd, IsDetail(rd), NEW after, after = PayNativeConversion(call, w, rd)
    PROVE  /\ BatchSound(before, call, after)
           /\ after.ok => /\ w.ok /\ RateChecked(call, rd)
                          /\ \E spent \in Nat : HubGains(w, after, Native, -spent)
<1> DEFINE payment   == Payment(rd, call.feeAddress)
           converted == Converted(call.market, rd.path, payment)
           fee       == converted.feeAmount
           rates     == call.market
           path      == rd.path
           value     == w.balance[Native][Batch]
           timespan  == rd.maxRateTimespan
<1>1. after = PayEthWithConversion(w, rates, Batch, value, path, payment, timespan)
  BY DEF PayNativeConversion
<1>2. PaysUser(payment) /\ IsPayment(payment)
  BY DetailPayment
<1>3. Native \in Assets /\ IsWorld(w)
  BY HubHoldings DEF Assets
<1> HIDE DEF payment, rates, path, value, timespan
<1>4. PaysUser(converted)
  <2>1. PaysUser(Converted(rates, path, payment))
    BY <1>2, PaysUserConverted
  <2> QED
    BY <2>1 DEF rates, path
<1>5. BatchSound(before, call, after)
  BY <1>1, <1>2, BatchHub, SoundEthConversion DEF BatchSound
<1>6. after.ok => /\ w.ok /\ converted.amount \in Nat /\ converted.feeAmount \in Nat
                  /\ PaidWithFee(w, after, Native, Batch, converted, converted.feeAmount)
  BY <1>1, <1>2, <1>3, BatchHub, EthConversionPays DEF rates, path
<1>7. after.ok => RateChecked(call, rd)
  <2>1. after.ok => FreshRate(rates, path, timespan)
    BY <1>1, <1>2, <1>3, BatchHub, EthConversionPays DEF FreshRate
  <2> QED
    BY <2>1 DEF RateChecked, rates, path, timespan
<1> HIDE DEF converted, fee
<1>8. ASSUME after.ok
      PROVE  /\ converted.amount + fee \in Nat
             /\ HubGains(w, after, Native, -(converted.amount + fee))
  BY <1>3, <1>4, <1>6, <1>8, HubPaid DEF fee
<1> QED
  BY <1>5, <1>6, <1>7, <1>8

-----------------------------------------------------------------------------
(***************************************************************************)
(* The loops of the batch contract, each as the sequence of worlds it goes *)
(* through.                                                                *)
(***************************************************************************)
DetailLoop(call, unused, w, rd) == PayDetail(call, w, rd)
FundLoop(call, unused, w, u) == FundPayments(call, w, u)
FundConversionLoop(call, unused, w, u) == FundConversions(call, w, u)
ConversionLoop(call, unused, w, rd) == PayConversion(call, w, rd)
SettleLoop(call, unused, w, u) == Settle(call, w, u)
NativeLoop(call, unused, w, rd) == PayNative(call, w, rd)
NativeConversionLoop(call, unused, w, rd) == PayNativeConversion(call, w, rd)
GroupLoop(call, unused, w, group) == PayAndCount(call, w, group)
TotalLoop(unused, unused2, sum, a) == sum + a
AddLoop(unused, unused2, uTokens, rd) == AddToken(uTokens, rd)

Details           == INSTANCE SequenceFolds WITH Op <- DetailLoop
Funds             == INSTANCE SequenceFolds WITH Op <- FundLoop
ConversionFunds   == INSTANCE SequenceFolds WITH Op <- FundConversionLoop
ConversionsPaid   == INSTANCE SequenceFolds WITH Op <- ConversionLoop
Settled           == INSTANCE SequenceFolds WITH Op <- SettleLoop
Natives           == INSTANCE SequenceFolds WITH Op <- NativeLoop
NativeConversions == INSTANCE SequenceFolds WITH Op <- NativeConversionLoop
GroupsPaid        == INSTANCE SequenceFolds WITH Op <- GroupLoop
Totals            == INSTANCE SequenceFolds WITH Op <- TotalLoop
TokensAdded       == INSTANCE SequenceFolds WITH Op <- AddLoop

(* The worlds between the payments of a group.                             *)
PaysInTurn(f, call, w, details, after) ==
    /\ f[0] = w /\ after = f[Len(details)]
    /\ \A n \in 1 .. Len(details) : f[n] = PayDetail(call, f[n - 1], details[n])

LEMMA DetailsTrace ==
    ASSUME NEW call, NEW w, NEW details, IsSequence(details)
    PROVE  \E f : PaysInTurn(f, call, w, details, PayDetails(call, w, details))
<1>1. PayDetails(call, w, details) = Details!Fold(call, 0, w, details)
  BY DEF PayDetails, DetailLoop, Details!Fold, FoldLeft, Details!FoldLeft,
         MapThenFoldSet, Details!MapThenFoldSet, Max, Details!Max
<1>2. PICK S : details \in Seq(S)
  BY DEF IsSequence
<1>3. PICK f : /\ Details!IsTrace(call, 0, f, w, details)
               /\ Details!Fold(call, 0, w, details) = f[Len(details)]
  BY <1>2, Details!FoldTrace
<1> QED
  BY <1>1, <1>3 DEF Details!IsTrace, DetailLoop, PaysInTurn

LEMMA TotalTrace ==
    ASSUME NEW amounts, IsSequence(amounts)
    PROVE  \E f : /\ f[0] = 0 /\ Total(amounts) = f[Len(amounts)]
                  /\ \A n \in 1 .. Len(amounts) : f[n] = f[n - 1] + amounts[n]
<1>1. Total(amounts) = Totals!Fold(0, 0, 0, amounts)
  BY DEF Total, TotalLoop, Totals!Fold, FoldLeft, Totals!FoldLeft,
         MapThenFoldSet, Totals!MapThenFoldSet, Max, Totals!Max
<1>2. PICK S : amounts \in Seq(S)
  BY DEF IsSequence
<1>3. PICK f : /\ Totals!IsTrace(0, 0, f, 0, amounts)
               /\ Totals!Fold(0, 0, 0, amounts) = f[Len(amounts)]
  BY <1>2, Totals!FoldTrace
<1> QED
  BY <1>1, <1>3 DEF Totals!IsTrace, TotalLoop

(* The tokens of the details before the slots without amount are cut.      *)
Collected(details) == TokensAdded!Fold(0, 0, << >>, details)

LEMMA CollectedTrace ==
    ASSUME NEW details, IsSequence(details)
    PROVE  \E g : /\ g[0] = << >> /\ Collected(details) = g[Len(details)]
                  /\ \A n \in 1 .. Len(details) : g[n] = AddToken(g[n - 1], details[n])
<1>1. PICK S : details \in Seq(S)
  BY DEF IsSequence
<1>2. PICK g : /\ TokensAdded!IsTrace(0, 0, g, << >>, details)
               /\ TokensAdded!Fold(0, 0, << >>, details) = g[Len(details)]
  BY <1>1, TokensAdded!FoldTrace
<1> QED
  BY <1>2 DEF TokensAdded!IsTrace, AddLoop, Collected

LEMMA MultiPaymentsAre ==
    ASSUME NEW call, NEW w, NEW details
    PROVE  BatchMultiERC20Payments(call, w, details)
               = PayDetails(call, Funds!Fold(call, 0, w, GetUTokens(details)), details)
  BY DEF BatchMultiERC20Payments, FundLoop, Funds!Fold, FoldLeft, Funds!FoldLeft,
         MapThenFoldSet, Funds!MapThenFoldSet, Max, Funds!Max

LEMMA FundsTrace ==
    ASSUME NEW call, NEW w, NEW uTokens, IsSequence(uTokens)
    PROVE  \E f : /\ f[0] = w /\ Funds!Fold(call, 0, w, uTokens) = f[Len(uTokens)]
                  /\ \A n \in 1 .. Len(uTokens) :
                         f[n] = FundPayments(call, f[n - 1], uTokens[n])
<1>1. PICK S : uTokens \in Seq(S)
  BY DEF IsSequence
<1>2. PICK f : /\ Funds!IsTrace(call, 0, f, w, uTokens)
               /\ Funds!Fold(call, 0, w, uTokens) = f[Len(uTokens)]
  BY <1>1, Funds!FoldTrace
<1> QED
  BY <1>2 DEF Funds!IsTrace, FundLoop

LEMMA ConversionPaymentsAre ==
    ASSUME NEW call, NEW w, NEW details
    PROVE  LET uTokens == GetUTokens(details)
               funded  == ConversionFunds!Fold(call, 0, w, uTokens)
               payed   == ConversionsPaid!Fold(call, 0, funded, details)
           IN  BatchMultiERC20ConversionPayments(call, w, details)
                   = Settled!Fold(call, 0, payed, uTokens)
  BY DEF BatchMultiERC20ConversionPayments, FundConversionLoop, ConversionLoop, SettleLoop,
         ConversionFunds!Fold, ConversionsPaid!Fold, Settled!Fold, FoldLeft,
         ConversionFunds!FoldLeft, ConversionsPaid!FoldLeft, Settled!FoldLeft,
         MapThenFoldSet, ConversionFunds!MapThenFoldSet, ConversionsPaid!MapThenFoldSet,
         Settled!MapThenFoldSet, Max, ConversionFunds!Max, ConversionsPaid!Max, Settled!Max

LEMMA ConversionFundsTrace ==
    ASSUME NEW call, NEW w, NEW uTokens, IsSequence(uTokens)
    PROVE  \E f : /\ f[0] = w
                  /\ ConversionFunds!Fold(call, 0, w, uTokens) = f[Len(uTokens)]
                  /\ \A n \in 1 .. Len(uTokens) :
                         f[n] = FundConversions(call, f[n - 1], uTokens[n])
<1>1. PICK S : uTokens \in Seq(S)
  BY DEF IsSequence
<1>2. PICK f : /\ ConversionFunds!IsTrace(call, 0, f, w, uTokens)
               /\ ConversionFunds!Fold(call, 0, w, uTokens) = f[Len(uTokens)]
  BY <1>1, ConversionFunds!FoldTrace
<1> QED
  BY <1>2 DEF ConversionFunds!IsTrace, FundConversionLoop

LEMMA ConversionsTrace ==
    ASSUME NEW call, NEW w, NEW details, IsSequence(details)
    PROVE  \E f : /\ f[0] = w
                  /\ ConversionsPaid!Fold(call, 0, w, details) = f[Len(details)]
                  /\ \A n \in 1 .. Len(details) :
                         f[n] = PayConversion(call, f[n - 1], details[n])
<1>1. PICK S : details \in Seq(S)
  BY DEF IsSequence
<1>2. PICK f : /\ ConversionsPaid!IsTrace(call, 0, f, w, details)
               /\ ConversionsPaid!Fold(call, 0, w, details) = f[Len(details)]
  BY <1>1, ConversionsPaid!FoldTrace
<1> QED
  BY <1>2 DEF ConversionsPaid!IsTrace, ConversionLoop

LEMMA SettledTrace ==
    ASSUME NEW call, NEW w, NEW uTokens, IsSequence(uTokens)
    PROVE  \E f : /\ f[0] = w /\ Settled!Fold(call, 0, w, uTokens) = f[Len(uTokens)]
                  /\ \A n \in 1 .. Len(uTokens) :
                         f[n] = Settle(call, f[n - 1], uTokens[n])
<1>1. PICK S : uTokens \in Seq(S)
  BY DEF IsSequence
<1>2. PICK f : /\ Settled!IsTrace(call, 0, f, w, uTokens)
               /\ Settled!Fold(call, 0, w, uTokens) = f[Len(uTokens)]
  BY <1>1, Settled!FoldTrace
<1> QED
  BY <1>2 DEF Settled!IsTrace, SettleLoop

LEMMA NativePaymentsAre ==
    ASSUME NEW call, NEW w, NEW details
    PROVE  LET payed == Natives!Fold(call, 0, w, details)
               fee   == BatchFee(call.config, Total(RequestAmounts(details)))
               feed  == PayBatchFee(call, payed, NativeFeeToPay(call, w, fee), Native, Batch)
           IN  BatchNativePayments(call, w, details)
                   = IF feed.transferBack THEN SendBack(call, feed) ELSE feed
  BY DEF BatchNativePayments, NativeLoop, Natives!Fold, FoldLeft, Natives!FoldLeft,
         MapThenFoldSet, Natives!MapThenFoldSet, Max, Natives!Max

LEMMA NativesTrace ==
    ASSUME NEW call, NEW w, NEW details, IsSequence(details)
    PROVE  \E f : /\ f[0] = w /\ Natives!Fold(call, 0, w, details) = f[Len(details)]
                  /\ \A n \in 1 .. Len(details) :
                         f[n] = PayNative(call, f[n - 1], details[n])
<1>1. PICK S : details \in Seq(S)
  BY DEF IsSequence
<1>2. PICK f : /\ Natives!IsTrace(call, 0, f, w, details)
               /\ Natives!Fold(call, 0, w, details) = f[Len(details)]
  BY <1>1, Natives!FoldTrace
<1> QED
  BY <1>2 DEF Natives!IsTrace, NativeLoop

LEMMA NativeConversionPaymentsAre ==
    ASSUME NEW call, NEW w, NEW details
    PROVE  LET payed == NativeConversions!Fold(call, 0, [w EXCEPT !.payerAuthorized = TRUE],
                                               details)
               used  == w.balance[Native][Batch] - payed.balance[Native][Batch]
               fee   == BatchFee(call.config, used)
               feed  == PayBatchFee(call, payed, NativeFeeToPay(call, w, fee), Native, Batch)
           IN  BatchNativeConversionPayments(call, w, details)
                   = [SendBack(call, feed) EXCEPT !.payerAuthorized = FALSE]
  BY DEF BatchNativeConversionPayments, NativeConversionLoop, NativeConversions!Fold, FoldLeft,
         NativeConversions!FoldLeft, MapThenFoldSet, NativeConversions!MapThenFoldSet, Max,
         NativeConversions!Max

LEMMA NativeConversionsTrace ==
    ASSUME NEW call, NEW w, NEW details, IsSequence(details)
    PROVE  \E f : /\ f[0] = w
                  /\ NativeConversions!Fold(call, 0, w, details) = f[Len(details)]
                  /\ \A n \in 1 .. Len(details) :
                         f[n] = PayNativeConversion(call, f[n - 1], details[n])
<1>1. PICK S : details \in Seq(S)
  BY DEF IsSequence
<1>2. PICK f : /\ NativeConversions!IsTrace(call, 0, f, w, details)
               /\ NativeConversions!Fold(call, 0, w, details) = f[Len(details)]
  BY <1>1, NativeConversions!FoldTrace
<1> QED
  BY <1>2 DEF NativeConversions!IsTrace, NativeConversionLoop

LEMMA GroupsTrace ==
    ASSUME NEW call, IsSequence(call.groups), NEW w, NEW value, NEW first,
           first = Credit(Require(w, Len(call.groups) < 6), Native, call.payer, Batch, value)
    PROVE  \E f : /\ f[0] = first
                  /\ CallBatchPayments(call, w, value) = f[Len(call.groups)]
                  /\ \A n \in 1 .. Len(call.groups) :
                         f[n] = PayAndCount(call, f[n - 1], call.groups[n])
<1>1. CallBatchPayments(call, w, value) = GroupsPaid!Fold(call, 0, first, call.groups)
  BY DEF CallBatchPayments, GroupLoop, GroupsPaid!Fold, FoldLeft, GroupsPaid!FoldLeft,
         MapThenFoldSet, GroupsPaid!MapThenFoldSet, Max, GroupsPaid!Max
<1>2. PICK S : call.groups \in Seq(S)
  BY DEF IsSequence
<1>3. PICK f : /\ GroupsPaid!IsTrace(call, 0, f, first, call.groups)
               /\ GroupsPaid!Fold(call, 0, first, call.groups) = f[Len(call.groups)]
  BY <1>2, GroupsPaid!FoldTrace
<1> QED
  BY <1>1, <1>3 DEF GroupsPaid!IsTrace, GroupLoop

-----------------------------------------------------------------------------
(***************************************************************************)
(* Groups of native payments: the contract keeps its tokens and sends back *)
(* what is left of the value.                                              *)
(***************************************************************************)
IsDetails(details) ==
    IsSequence(details) /\ \A i \in 1 .. Len(details) : IsDetail(details[i])

SameHoldings(w, after) == after.ok = w.ok /\ after.balance = w.balance

LEMMA FlagStep ==
    ASSUME NEW before, NEW call, NEW w, BatchSound(before, call, w), NEW x, NEW after,
           \/ after = [w EXCEPT !.payerAuthorized = x]
           \/ after = [w EXCEPT !.transferBack = x]
           \/ after = [w EXCEPT !.usd = x]
    PROVE  BatchSound(before, call, after) /\ SameHoldings(w, after)
<1>1. IsWorld(w)
  BY DEF BatchSound, Sound
<1>2. /\ IsWorld(after) /\ after.ok = w.ok /\ after.balance = w.balance
      /\ after.log = w.log /\ after.fees = w.fees
  BY <1>1 DEF IsWorld
<1>3. Sound(before, call.payer, Batch, after)
  BY <1>2, SoundSame DEF BatchSound
<1> QED
  BY <1>2, <1>3 DEF BatchSound, SameHoldings

TokensHeld(w, after) == \A t \in Tokens : after.balance[t][Batch] = w.balance[t][Batch]
NothingOf(w, asset) == w.balance[asset][Batch] = 0
NoTokens(w) == \A t \in Tokens : NothingOf(w, t)

(* What a loop of native payments leaves alone.                            *)
NativeKeeps(w, after) ==
    after.ok => w.ok /\ TokensHeld(w, after)

SameBack(w, after) == after.ok => after.transferBack = w.transferBack

LEMMA NativeGain ==
    ASSUME NEW w, IsWorld(w), NEW after, NEW gain, HubGains(w, after, Native, gain)
    PROVE  TokensHeld(w, after)
<1>1. \A t \in Tokens : /\ t \in Assets /\ t # Native
                        /\ w.balance[t][Batch] \in Nat
  BY LedgerAssumption, ContractsApart DEF Assets, IsWorld, Balances, Contracts
<1> QED
  BY <1>1 DEF HubGains, TokensHeld

LEMMA NativesPaid ==
    ASSUME NEW before, NEW call, IsCall(call), NEW w, BatchSound(before, call, w),
           NEW details, IsDetails(details), NEW after,
           after = Natives!Fold(call, 0, w, details)
    PROVE  BatchSound(before, call, after) /\ NativeKeeps(w, after) /\ SameBack(w, after)
<1> DEFINE N == Len(details)
<1>1. PICK f : /\ f[0] = w /\ after = f[N]
               /\ \A n \in 1 .. N : f[n] = PayNative(call, f[n - 1], details[n])
  BY NativesTrace DEF IsDetails
<1>2. N \in Nat
  BY DEF IsDetails, IsSequence
<1> DEFINE Good == {n \in 0 .. N : /\ BatchSound(before, call, f[n])
                                   /\ NativeKeeps(w, f[n]) /\ SameBack(w, f[n])}
<1>3. 0 \in Good
  BY <1>1, <1>2 DEF NativeKeeps, SameBack, TokensHeld
<1>4. ASSUME NEW n \in 1 .. N, n - 1 \in Good PROVE n \in Good
  <2>1. BatchSound(before, call, f[n - 1]) /\ IsDetail(details[n])
    BY <1>4 DEF IsDetails
  <2>2. /\ BatchSound(before, call, f[n])
        /\ f[n].ok => /\ f[n - 1].ok
                      /\ \E spent \in Nat : HubGains(f[n - 1], f[n], Native, -spent)
        /\ f[n].ok => SameFlags(f[n - 1], f[n])
    BY <1>1, <2>1, NativeStep
  <2>3. f[n].ok => f[n - 1].ok /\ TokensHeld(f[n - 1], f[n])
    BY <2>1, <2>2, HubHoldings, NativeGain
  <2>4. NativeKeeps(w, f[n - 1]) /\ SameBack(w, f[n - 1])
    BY <1>4
  <2>5. NativeKeeps(w, f[n]) /\ SameBack(w, f[n])
    BY <2>2, <2>3, <2>4 DEF NativeKeeps, SameBack, TokensHeld, SameFlags
  <2> QED
    BY <2>2, <2>5
<1> HIDE DEF Good, N
<1>5. \A n \in 0 .. N : n \in Good
  BY <1>2, <1>3, <1>4, Receipts!StepByStep
<1> QED
  BY <1>1, <1>2, <1>5 DEF Good

LEMMA NativeConversionsDone ==
    ASSUME NEW before, NEW call, IsCall(call), NEW w, BatchSound(before, call, w),
           NEW details, IsDetails(details), NEW after,
           after = NativeConversions!Fold(call, 0, w, details)
    PROVE  /\ BatchSound(before, call, after) /\ NativeKeeps(w, after)
           /\ after.ok => AllChecked(call, details)
<1> DEFINE N == Len(details)
<1>1. PICK f : /\ f[0] = w /\ after = f[N]
               /\ \A n \in 1 .. N : f[n] = PayNativeConversion(call, f[n - 1], details[n])
  BY NativeConversionsTrace DEF IsDetails
<1>2. N \in Nat
  BY DEF IsDetails, IsSequence
<1> DEFINE Good == {n \in 0 .. N :
                        /\ BatchSound(before, call, f[n]) /\ NativeKeeps(w, f[n])
                        /\ f[n].ok => \A k \in 1 .. n : RateChecked(call, details[k])}
<1>3. 0 \in Good
  BY <1>1, <1>2 DEF NativeKeeps, TokensHeld
<1>4. ASSUME NEW n \in 1 .. N, n - 1 \in Good PROVE n \in Good
  <2>1. BatchSound(before, call, f[n - 1]) /\ IsDetail(details[n])
    BY <1>4 DEF IsDetails
  <2>2. /\ BatchSound(before, call, f[n])
        /\ f[n].ok => /\ f[n - 1].ok /\ RateChecked(call, details[n])
                      /\ \E spent \in Nat : HubGains(f[n - 1], f[n], Native, -spent)
    BY <1>1, <2>1, NativeConversionStep
  <2>3. f[n].ok => f[n - 1].ok /\ TokensHeld(f[n - 1], f[n])
    BY <2>1, <2>2, HubHoldings, NativeGain
  <2>4. NativeKeeps(w, f[n - 1])
    BY <1>4
  <2>5. NativeKeeps(w, f[n])
    BY <2>3, <2>4 DEF NativeKeeps, TokensHeld
  <2>6. \A k \in 1 .. n : k = n \/ k \in 1 .. n - 1
    BY <1>2
  <2>7. f[n].ok => \A k \in 1 .. n : RateChecked(call, details[k])
    BY <1>4, <2>2, <2>6
  <2> QED
    BY <2>2, <2>5, <2>7
<1> HIDE DEF Good, N
<1>5. \A n \in 0 .. N : n \in Good
  BY <1>2, <1>3, <1>4, Receipts!StepByStep
<1> QED
  BY <1>1, <1>2, <1>5 DEF Good, N, AllChecked

LEMMA SendBackStep ==
    ASSUME NEW before, NEW call, IsCall(call), NEW w, BatchSound(before, call, w),
           NEW after, after = SendBack(call, w)
    PROVE  /\ BatchSound(before, call, after) /\ NativeKeeps(w, after)
           /\ after.ok => NothingOf(after, Native)
<1> DEFINE left == w.balance[Native][Batch]
           from == Batch
           to   == call.payer
<1>1. after = SendValue(w, from, to, left)
  BY DEF SendBack
<1>2. IsWorld(w) /\ Native \in Assets /\ left \in Nat
  BY HubHoldings DEF Assets
<1> HIDE DEF left
<1>3. BatchSound(before, call, after)
  BY <1>1, BatchHub, SoundValue DEF BatchSound
<1>4. after.ok => /\ w.ok /\ Moved(w, after, Native, from, to, left)
  BY <1>1, <1>2, BatchHub, ValueTransfer
<1>5. ASSUME after.ok PROVE HubGains(w, after, Native, -left)
  <2>1. HubGains(w, after, Native, Gain(Batch, from, to, left))
    BY <1>2, <1>4, <1>5, HubMoved
  <2>2. Gain(Batch, from, to, left) = -left
    BY <1>2, BatchHub DEF Gain
  <2> QED
    BY <2>1, <2>2
<1>6. after.ok => TokensHeld(w, after)
  <2> DEFINE gain == -left
  <2>1. after.ok => HubGains(w, after, Native, gain)
    BY <1>5
  <2> HIDE DEF gain
  <2> QED
    BY <1>2, <2>1, NativeGain
<1>7. after.ok => NothingOf(after, Native)
  <2>1. ASSUME after.ok PROVE after.balance[Native][Batch] = left + -left
    BY <1>2, <1>5, <2>1 DEF HubGains, left
  <2> QED
    BY <1>2, <2>1 DEF NothingOf
<1> QED
  BY <1>3, <1>4, <1>6, <1>7 DEF NativeKeeps

(* What a group of native payments does.                                   *)
NativeFeeKeeps(before, call, w, after) ==
    /\ BatchSound(before, call, after) /\ NativeKeeps(w, after) /\ SameBack(w, after)

LEMMA NativeFeeStep ==
    ASSUME NEW before, NEW call, IsCall(call), NEW w, BatchSound(before, call, w),
           NEW toPay, NEW after, after = PayBatchFee(call, w, toPay, Native, Batch)
    PROVE  NativeFeeKeeps(before, call, w, after)
<1>1. Native \in Assets /\ IsWorld(w)
  BY HubHoldings DEF Assets
<1>2. /\ BatchSound(before, call, after)
      /\ FeePaid(call, w, after, Native, Batch, toPay.fee)
      /\ SameFlags(w, after)
  BY <1>1, BatchFeeStep
<1>3. after.ok => /\ w.ok
                  /\ HubGains(w, after, Native, FeeGain(Batch, toPay.fee))
  BY <1>2 DEF FeePaid
<1>4. after.ok => TokensHeld(w, after)
  BY <1>1, <1>3, NativeGain
<1> QED
  BY <1>2, <1>3, <1>4 DEF NativeFeeKeeps, NativeKeeps, SameBack, SameFlags

LEMMA NativeGroup ==
    ASSUME NEW before, NEW call, IsCall(call), NEW w, BatchSound(before, call, w),
           NEW details, IsDetails(details), NEW after,
           after = BatchNativePayments(call, w, details)
    PROVE  /\ BatchSound(before, call, after) /\ NativeKeeps(w, after)
           /\ after.ok /\ w.transferBack => NothingOf(after, Native)
<1> DEFINE payed == Natives!Fold(call, 0, w, details)
           toPay == NativeFeeToPay(call, w, BatchFee(call.config, Total(RequestAmounts(details))))
           feed  == PayBatchFee(call, payed, toPay, Native, Batch)
           sent  == SendBack(call, feed)
<1>1. after = IF feed.transferBack THEN sent ELSE feed
  BY NativePaymentsAre
<1>2. BatchSound(before, call, payed) /\ NativeKeeps(w, payed) /\ SameBack(w, payed)
  BY NativesPaid
<1> HIDE DEF payed, toPay
<1>3. NativeFeeKeeps(before, call, payed, feed)
  BY <1>2, NativeFeeStep
<1> HIDE DEF feed
<1>4. BatchSound(before, call, feed) /\ NativeKeeps(w, feed) /\ SameBack(w, feed)
  BY <1>2, <1>3 DEF NativeFeeKeeps, NativeKeeps, SameBack, TokensHeld
<1>5. /\ BatchSound(before, call, sent) /\ NativeKeeps(feed, sent)
      /\ sent.ok => NothingOf(sent, Native)
  BY <1>4, SendBackStep
<1> HIDE DEF sent
<1>6. NativeKeeps(w, sent)
  BY <1>4, <1>5 DEF NativeKeeps, TokensHeld
<1>7. CASE feed.transferBack
  <2>1. after = sent
    BY <1>1, <1>7
  <2> QED
    BY <1>5, <1>6, <2>1
<1>8. CASE ~feed.transferBack
  <2>1. after = feed
    BY <1>1, <1>8
  <2>2. feed.ok => ~w.transferBack
    BY <1>4, <1>8 DEF SameBack
  <2> QED
    BY <1>4, <2>1, <2>2
<1> QED
  BY <1>7, <1>8

LEMMA NativeConversionGroup ==
    ASSUME NEW before, NEW call, IsCall(call), NEW w, BatchSound(before, call, w),
           NEW details, IsDetails(details), NEW after,
           after = BatchNativeConversionPayments(call, w, details)
    PROVE  /\ BatchSound(before, call, after) /\ NativeKeeps(w, after)
           /\ after.ok => NothingOf(after, Native) /\ AllChecked(call, details)
<1> DEFINE open  == [w EXCEPT !.payerAuthorized = TRUE]
           payed == NativeConversions!Fold(call, 0, open, details)
           used  == w.balance[Native][Batch] - payed.balance[Native][Batch]
           toPay == NativeFeeToPay(call, w, BatchFee(call.config, used))
           feed  == PayBatchFee(call, payed, toPay, Native, Batch)
           sent  == SendBack(call, feed)
<1>1. after = [sent EXCEPT !.payerAuthorized = FALSE]
  BY NativeConversionPaymentsAre
<1>2. BatchSound(before, call, open) /\ SameHoldings(w, open)
  BY FlagStep
<1> HIDE DEF open
<1>3. /\ BatchSound(before, call, payed) /\ NativeKeeps(open, payed)
      /\ payed.ok => AllChecked(call, details)
  BY <1>2, NativeConversionsDone
<1> HIDE DEF payed, toPay
<1>4. NativeFeeKeeps(before, call, payed, feed)
  BY <1>3, NativeFeeStep
<1> HIDE DEF feed
<1>5. /\ BatchSound(before, call, sent) /\ NativeKeeps(feed, sent)
      /\ sent.ok => NothingOf(sent, Native)
  BY <1>4, SendBackStep DEF NativeFeeKeeps
<1> HIDE DEF sent
<1>6. BatchSound(before, call, after) /\ SameHoldings(sent, after)
  BY <1>1, <1>5, FlagStep
<1>7. NativeKeeps(w, after)
  BY <1>2, <1>3, <1>4, <1>5, <1>6
     DEF NativeFeeKeeps, NativeKeeps, TokensHeld, SameHoldings
<1>8. after.ok => NothingOf(after, Native)
  BY <1>5, <1>6 DEF SameHoldings, NothingOf
<1>9. after.ok => payed.ok
  BY <1>4, <1>5, <1>6 DEF NativeFeeKeeps, NativeKeeps, SameHoldings
<1> QED
  BY <1>3, <1>6, <1>7, <1>8, <1>9

-----------------------------------------------------------------------------
(***************************************************************************)
(* getUTokens: the tokens of a group of details, each once.                *)
(***************************************************************************)
IsSlot(u) ==
    /\ u.tokenAddress \in Tokens
    /\ u = [tokenAddress |-> u.tokenAddress, amountAndFee |-> u.amountAndFee,
            batchFeeAmount |-> u.batchFeeAmount]

IsSlots(uTokens) ==
    IsSequence(uTokens) /\ \A i \in 1 .. Len(uTokens) : IsSlot(uTokens[i])

(* The first index of a sequence that is in a set, zero if none is.        *)
LEMMA FirstIndex ==
    ASSUME NEW n \in Nat, NEW I \in SUBSET (1 .. n), NEW at,
           at = IF I # {} THEN Min(I) ELSE 0
    PROVE  /\ at \in 0 .. n /\ (at = 0 <=> I = {})
           /\ at # 0 => at \in I /\ \A i \in I : at <= i
<1>1. ASSUME I # {} PROVE at \in I /\ \A i \in I : at <= i
  <2>1. \E x \in I : \A y \in I : x <= y
    <3>1. I \in SUBSET Nat
      OBVIOUS
    <3> QED
      BY <1>1, <3>1, Receipts!NatMinimum
  <2>2. Min(I) \in I /\ \A i \in I : Min(I) <= i
    BY <2>1 DEF Min
  <2> QED
    BY <1>1, <2>2
<1>2. CASE I = {}
  BY <1>2
<1>3. CASE I # {}
  <2>1. at \in I /\ \A i \in I : at <= i
    BY <1>1, <1>3
  <2>2. at \in 1 .. n
    BY <2>1
  <2> QED
    BY <1>3, <2>1, <2>2
<1> QED
  BY <1>2, <1>3

(* What AddToken does with the token of one more detail.                   *)
HasSlot(uTokens, token) == \E i \in 1 .. Len(uTokens) : uTokens[i].tokenAddress = token
HasFree(uTokens) == \E i \in 1 .. Len(uTokens) : uTokens[i].amountAndFee = 0

More(u, slot) == [u EXCEPT !.amountAndFee = @ + slot.amountAndFee,
                           !.batchFeeAmount = @ + slot.batchFeeAmount]

Worth(rd) == rd.maxToSpend > 0 \/ rd.requestAmount + rd.feeAmount > 0

Put(uTokens, k, slot) == [uTokens EXCEPT ![k] = slot]

LEMMA AddTokenIs ==
    ASSUME NEW uTokens, IsSlots(uTokens), NEW rd, NEW after, after = AddToken(uTokens, rd)
    PROVE  /\ HasSlot(uTokens, Token(rd)) =>
                  \E k \in 1 .. Len(uTokens) :
                      /\ uTokens[k].tokenAddress = Token(rd)
                      /\ after = Put(uTokens, k, More(uTokens[k], Slot(rd)))
           /\ ~HasSlot(uTokens, Token(rd)) =>
                  \/ /\ Worth(rd) /\ HasFree(uTokens)
                     /\ \E k \in 1 .. Len(uTokens) :
                            /\ uTokens[k].amountAndFee = 0
                            /\ after = Put(uTokens, k, Slot(rd))
                  \/ Worth(rd) /\ ~HasFree(uTokens) /\ after = Append(uTokens, Slot(rd))
                  \/ ~Worth(rd) /\ after = uTokens
<1> DEFINE N     == Len(uTokens)
           slot  == Slot(rd)
           token == Token(rd)
           Same  == {i \in 1 .. N : uTokens[i].tokenAddress = slot.tokenAddress}
           Free  == {i \in 1 .. N : uTokens[i].amountAndFee = 0}
           same  == IF Same # {} THEN Min(Same) ELSE 0
           free  == IF Free # {} THEN Min(Free) ELSE 0
           put   == [uTokens EXCEPT ![same].amountAndFee = @ + slot.amountAndFee,
                                    ![same].batchFeeAmount = @ + slot.batchFeeAmount]
<1>1. PICK S : uTokens \in Seq(S)
  BY DEF IsSlots, IsSequence
<1>2. N \in Nat /\ DOMAIN uTokens = 1 .. N
  BY <1>1
<1>3. after = CASE same # 0 -> put
                [] same = 0 /\ Worth(rd) /\ free # 0 -> Put(uTokens, free, slot)
                [] same = 0 /\ Worth(rd) /\ free = 0 -> Append(uTokens, slot)
                [] same = 0 /\ ~Worth(rd) -> uTokens
  BY DEF AddToken, SelectInSeq, Put, Worth
<1>4. slot.tokenAddress = token
  BY DEF Slot
<1>5. same # 0 => put = Put(uTokens, same, More(uTokens[same], slot))
  BY <1>2 DEF Put, More
<1> HIDE DEF put, slot, token
<1>6. /\ (same = 0 <=> Same = {}) /\ (same # 0 => same \in Same)
      /\ (free = 0 <=> Free = {}) /\ (free # 0 => free \in Free)
  <2>1. Same \in SUBSET (1 .. N) /\ Free \in SUBSET (1 .. N)
    OBVIOUS
  <2> HIDE DEF N, Same, Free
  <2>2. (same = 0 <=> Same = {}) /\ (same # 0 => same \in Same)
    BY <1>2, <2>1, FirstIndex
  <2>3. (free = 0 <=> Free = {}) /\ (free # 0 => free \in Free)
    BY <1>2, <2>1, FirstIndex
  <2> QED
    BY <2>2, <2>3
<1> HIDE DEF same, free
<1>7. /\ Same = {} <=> ~HasSlot(uTokens, token)
      /\ Free = {} <=> ~HasFree(uTokens)
  BY <1>4 DEF HasSlot, HasFree
<1>8. ASSUME HasSlot(uTokens, token)
      PROVE  \E k \in 1 .. N : /\ uTokens[k].tokenAddress = token
                               /\ after = Put(uTokens, k, More(uTokens[k], slot))
  <2>1. same # 0 /\ same \in 1 .. N /\ uTokens[same].tokenAddress = token
    BY <1>4, <1>6, <1>7, <1>8
  <2> QED
    BY <1>3, <1>5, <2>1
<1>9. ASSUME ~HasSlot(uTokens, token)
      PROVE  \/ /\ Worth(rd) /\ HasFree(uTokens)
                /\ \E k \in 1 .. N : uTokens[k].amountAndFee = 0 /\ after = Put(uTokens, k, slot)
             \/ Worth(rd) /\ ~HasFree(uTokens) /\ after = Append(uTokens, slot)
             \/ ~Worth(rd) /\ after = uTokens
  <2>1. same = 0
    BY <1>6, <1>7, <1>9
  <2>2. CASE Worth(rd) /\ HasFree(uTokens)
    <3>1. free # 0 /\ free \in 1 .. N /\ uTokens[free].amountAndFee = 0
      BY <1>6, <1>7, <2>2
    <3>2. after = Put(uTokens, free, slot)
      BY <1>3, <2>1, <2>2, <3>1
    <3> QED
      BY <2>2, <3>1, <3>2
  <2>3. CASE Worth(rd) /\ ~HasFree(uTokens)
    <3>1. free = 0
      BY <1>6, <1>7, <2>3
    <3> QED
      BY <1>3, <2>1, <2>3, <3>1
  <2>4. CASE ~Worth(rd)
    BY <1>3, <2>1, <2>4
  <2> QED
    BY <2>2, <2>3, <2>4
<1> QED
  BY <1>8, <1>9 DEF slot, token

LEMMA MoreIs ==
    ASSUME NEW u, IsSlot(u), NEW slot
    PROVE  /\ IsSlot(More(u, slot)) /\ More(u, slot).tokenAddress = u.tokenAddress
           /\ More(u, slot).amountAndFee = u.amountAndFee + slot.amountAndFee
<1> DEFINE t == u.tokenAddress
           a == u.amountAndFee
           b == u.batchFeeAmount
           c == slot.amountAndFee
           d == slot.batchFeeAmount
           whole == [tokenAddress |-> t, amountAndFee |-> a, batchFeeAmount |-> b]
<1>1. u = whole /\ t \in Tokens
  BY DEF IsSlot
<1>2. More(u, slot) = [u EXCEPT !.amountAndFee = @ + c, !.batchFeeAmount = @ + d]
  BY DEF More
<1> HIDE DEF t, a, b, c, d
<1>3. More(u, slot) = [tokenAddress |-> t, amountAndFee |-> a + c, batchFeeAmount |-> b + d]
  BY <1>1, <1>2
<1>4. IsSlot(More(u, slot))
  BY <1>1, <1>3 DEF IsSlot
<1>5. More(u, slot).tokenAddress = t /\ More(u, slot).amountAndFee = a + c
  BY <1>3
<1> QED
  BY <1>4, <1>5 DEF t, a, c

(* Putting a slot in a place of the sequence.                              *)
LEMMA PutSlot ==
    ASSUME NEW uTokens, IsSlots(uTokens), NEW k \in 1 .. Len(uTokens), NEW slot, IsSlot(slot)
    PROVE  /\ IsSlots(Put(uTokens, k, slot))
           /\ Len(Put(uTokens, k, slot)) = Len(uTokens)
           /\ \A i \in 1 .. Len(uTokens) :
                  Put(uTokens, k, slot)[i] = IF i = k THEN slot ELSE uTokens[i]
<1>1. PICK S : uTokens \in Seq(S)
  BY DEF IsSlots, IsSequence
<1> DEFINE T   == S \cup {slot}
           new == [uTokens EXCEPT ![k] = slot]
<1>2. uTokens \in Seq(T) /\ slot \in T
  BY <1>1
<1> HIDE DEF T
<1>3. /\ new \in Seq(T) /\ Len(new) = Len(uTokens)
      /\ \A i \in 1 .. Len(uTokens) : new[i] = IF i = k THEN slot ELSE uTokens[i]
  BY <1>2, ExceptSeq
<1> HIDE DEF new
<1>4. IsSlots(new)
  BY <1>3 DEF IsSlots, IsSequence
<1> QED
  BY <1>3, <1>4 DEF Put, new

LEMMA AddSlot ==
    ASSUME NEW uTokens, IsSlots(uTokens), NEW slot, IsSlot(slot)
    PROVE  /\ IsSlots(Append(uTokens, slot))
           /\ Len(Append(uTokens, slot)) = Len(uTokens) + 1 /\ Len(uTokens) \in Nat
           /\ \A i \in 1 .. Len(uTokens) : Append(uTokens, slot)[i] = uTokens[i]
           /\ Append(uTokens, slot)[Len(uTokens) + 1] = slot
<1>1. PICK S : uTokens \in Seq(S)
  BY DEF IsSlots, IsSequence
<1> DEFINE T   == S \cup {slot}
           new == Append(uTokens, slot)
<1>2. uTokens \in Seq(T) /\ slot \in T /\ Len(uTokens) \in Nat
  BY <1>1
<1> HIDE DEF T
<1>3. /\ new \in Seq(T) /\ Len(new) = Len(uTokens) + 1
      /\ \A i \in 1 .. Len(uTokens) : new[i] = uTokens[i]
      /\ new[Len(uTokens) + 1] = slot
  BY <1>2, AppendProperties
<1> HIDE DEF new
<1>4. IsSlots(new)
  <2>1. \A i \in 1 .. Len(uTokens) + 1 : i \in 1 .. Len(uTokens) \/ i = Len(uTokens) + 1
    BY <1>2
  <2> QED
    BY <1>3, <2>1 DEF IsSlots, IsSequence
<1> QED
  BY <1>2, <1>3, <1>4 DEF new

LEMMA AddTokenShape ==
    ASSUME NEW uTokens, IsSlots(uTokens), NEW rd, Token(rd) \in Tokens
    PROVE  IsSlots(AddToken(uTokens, rd))
<1> DEFINE after == AddToken(uTokens, rd)
           slot  == Slot(rd)
<1>1. IsSlot(slot) /\ slot.tokenAddress = Token(rd)
  BY DEF Slot, IsSlot
<1>2. \A k \in 1 .. Len(uTokens) : IsSlot(More(uTokens[k], slot))
  <2> SUFFICES ASSUME NEW u, IsSlot(u) PROVE IsSlot(More(u, slot))
    BY DEF IsSlots
  <2> QED
    BY MoreIs
<1>3. /\ HasSlot(uTokens, Token(rd)) =>
             \E k \in 1 .. Len(uTokens) : after = Put(uTokens, k, More(uTokens[k], slot))
      /\ ~HasSlot(uTokens, Token(rd)) =>
             \/ \E k \in 1 .. Len(uTokens) : after = Put(uTokens, k, slot)
             \/ after = Append(uTokens, slot)
             \/ after = uTokens
  BY AddTokenIs
<1> HIDE DEF after, slot
<1>4. IsSlots(Append(uTokens, slot))
  BY <1>1, AddSlot
<1>5. \A k \in 1 .. Len(uTokens) :
          IsSlots(Put(uTokens, k, slot)) /\ IsSlots(Put(uTokens, k, More(uTokens[k], slot)))
  BY <1>1, <1>2, PutSlot
<1>6. CASE HasSlot(uTokens, Token(rd))
  BY <1>3, <1>5, <1>6 DEF after
<1>7. CASE ~HasSlot(uTokens, Token(rd))
  BY <1>3, <1>4, <1>5, <1>7 DEF after
<1> QED
  BY <1>6, <1>7

AllTokens(details) ==
    IsSequence(details) /\ \A i \in 1 .. Len(details) : Token(details[i]) \in Tokens

LEMMA CollectedShape ==
    ASSUME NEW details, AllTokens(details)
    PROVE  IsSlots(Collected(details))
<1> DEFINE N == Len(details)
<1>1. PICK g : /\ g[0] = << >> /\ Collected(details) = g[N]
               /\ \A n \in 1 .. N : g[n] = AddToken(g[n - 1], details[n])
  BY CollectedTrace DEF AllTokens
<1>2. N \in Nat
  BY DEF AllTokens, IsSequence
<1> DEFINE Good == {n \in 0 .. N : IsSlots(g[n])}
<1>3. 0 \in Good
  <2> DEFINE none == << >>
  <2>1. none \in Seq({}) /\ Len(none) = 0
    OBVIOUS
  <2> HIDE DEF none
  <2>2. IsSlots(none)
    BY <2>1 DEF IsSlots, IsSequence
  <2> QED
    BY <1>1, <1>2, <2>2 DEF none
<1>4. ASSUME NEW n \in 1 .. N, n - 1 \in Good PROVE n \in Good
  BY <1>1, <1>4, AddTokenShape DEF AllTokens
<1> HIDE DEF Good, N
<1>5. \A n \in 0 .. N : n \in Good
  BY <1>2, <1>3, <1>4, Receipts!StepByStep
<1> QED
  BY <1>1, <1>2, <1>5 DEF Good

(* Nothing is cut off if every slot has an amount.                         *)
LEMMA UTokensAre ==
    ASSUME NEW details, AllTokens(details)
    PROVE  /\ IsSlots(GetUTokens(details))
           /\ ~HasFree(Collected(details)) => GetUTokens(details) = Collected(details)
<1> DEFINE uTokens == Collected(details)
           N       == Len(uTokens)
           Free    == {i \in 1 .. N : uTokens[i].amountAndFee = 0}
           empty   == IF Free # {} THEN Min(Free) ELSE 0
<1>1. GetUTokens(details) = IF empty = 0 THEN uTokens ELSE SubSeq(uTokens, 1, empty - 1)
  BY DEF GetUTokens, Collected, AddLoop, SelectInSeq, TokensAdded!Fold, FoldLeft,
         TokensAdded!FoldLeft, MapThenFoldSet, TokensAdded!MapThenFoldSet, Max, TokensAdded!Max
<1>2. IsSlots(uTokens)
  BY CollectedShape
<1> HIDE DEF uTokens
<1>3. PICK S : uTokens \in Seq(S)
  BY <1>2 DEF IsSlots, IsSequence
<1>4. N \in Nat
  BY <1>3
<1>5. empty \in 0 .. N /\ (empty = 0 <=> Free = {})
  BY <1>4, FirstIndex
<1> HIDE DEF empty
<1>6. ASSUME empty # 0 PROVE IsSlots(SubSeq(uTokens, 1, empty - 1))
  <2> DEFINE M    == empty - 1
             kept == SubSeq(uTokens, 1, M)
  <2>1. M \in Int /\ 0 <= M /\ M <= N
    BY <1>4, <1>5, <1>6
  <2>2. \A i \in 1 .. M : uTokens[i] \in S
    BY <1>3, <1>4, <2>1
  <2> HIDE DEF M
  <2>3. /\ kept \in Seq(S)
        /\ Len(kept) = IF 1 <= M THEN M - 1 + 1 ELSE 0
        /\ \A i \in 1 .. M - 1 + 1 : kept[i] = uTokens[1 + i - 1]
    BY <2>2, <2>1, SubSeqProperties
  <2> HIDE DEF kept
  <2>4. Len(kept) = M
    BY <2>1, <2>3
  <2>5. \A i \in 1 .. M : kept[i] = uTokens[i] /\ i \in 1 .. N
    BY <1>4, <2>1, <2>3
  <2>6. IsSlots(kept)
    BY <1>2, <2>3, <2>4, <2>5 DEF IsSlots, IsSequence
  <2> QED
    BY <2>6 DEF kept, M
<1>7. Free = {} <=> ~HasFree(uTokens)
  BY DEF HasFree
<1> QED
  BY <1>1, <1>2, <1>5, <1>6, <1>7 DEF uTokens

-----------------------------------------------------------------------------
(***************************************************************************)
(* A group of payments in tokens with conversion: the contract is funded   *)
(* with maxToSpend and gives back what is left of every token.             *)
(***************************************************************************)
NativeHeld(w, after) == after.balance[Native][Batch] = w.balance[Native][Batch]

(* What a group of payments in tokens does.                                *)
TokenGroup(before, call, w, after) ==
    /\ BatchSound(before, call, after)
    /\ after.ok => /\ w.ok /\ NativeHeld(w, after)
                   /\ NoTokens(w) => NoTokens(after)

TokenGains(w, after, token, gain) ==
    /\ NativeHeld(w, after)
    /\ after.balance[token][Batch] = w.balance[token][Batch] + gain
    /\ \A t \in Tokens : t # token => after.balance[t][Batch] = w.balance[t][Batch]

LEMMA TokenGain ==
    ASSUME NEW w, IsWorld(w), NEW after, NEW token \in Tokens, NEW gain \in Int,
           HubGains(w, after, token, gain)
    PROVE  TokenGains(w, after, token, gain)
<1>1. /\ Native \in Assets /\ Native \notin Tokens /\ Tokens \subseteq Assets
      /\ \A a \in Assets : w.balance[a][Batch] \in Nat
  BY LedgerAssumption, ContractsApart DEF Assets, IsWorld, Balances, Contracts
<1> QED
  BY <1>1 DEF HubGains, NativeHeld, TokenGains

(* Only tokens of the group are in the contract.                           *)
OnlyFirst(uTokens, n, w) ==
    \A t \in Tokens : (\A i \in 1 .. n : uTokens[i].tokenAddress # t) => NothingOf(w, t)

OthersFunded(w, after, token) ==
    after.ok => /\ w.ok /\ NativeHeld(w, after)
                /\ \A t \in Tokens : t # token => after.balance[t][Batch] = w.balance[t][Batch]

LEMMA FundConversionStep ==
    ASSUME NEW before, NEW call, IsCall(call), NEW w, BatchSound(before, call, w),
           NEW u, IsSlot(u), NEW after, after = FundConversions(call, w, u)
    PROVE  BatchSound(before, call, after) /\ OthersFunded(w, after, u.tokenAddress)
<1> DEFINE token  == u.tokenAddress
           amount == u.amountAndFee
           fee    == BatchFee(call.config, u.amountAndFee)
<1>1. after = TransferToContract(call, w, token, amount, fee) /\ token \in Tokens
  BY DEF FundConversions, IsSlot
<1> HIDE DEF token, amount, fee
<1>2. HubStep(before, call, w, after, token, amount)
  BY <1>1, FundStep
<1>3. ASSUME after.ok
      PROVE  /\ NativeHeld(w, after)
             /\ \A t \in Tokens : t # token => after.balance[t][Batch] = w.balance[t][Batch]
  <2>1. amount \in Int /\ HubGains(w, after, token, amount) /\ IsWorld(w)
    BY <1>2, <1>3, HubHoldings DEF HubStep
  <2>2. TokenGains(w, after, token, amount)
    BY <1>1, <2>1, TokenGain
  <2> QED
    BY <2>2 DEF TokenGains
<1> QED
  BY <1>2, <1>3 DEF HubStep, OthersFunded, token

LEMMA ConversionsFunded ==
    ASSUME NEW before, NEW call, IsCall(call), NEW w, BatchSound(before, call, w),
           NEW uTokens, IsSlots(uTokens), w.ok => NoTokens(w), NEW after,
           after = ConversionFunds!Fold(call, 0, w, uTokens)
    PROVE  /\ BatchSound(before, call, after)
           /\ after.ok => /\ w.ok /\ NativeHeld(w, after)
                          /\ OnlyFirst(uTokens, Len(uTokens), after)
<1> DEFINE N == Len(uTokens)
<1>1. PICK f : /\ f[0] = w /\ after = f[N]
               /\ \A n \in 1 .. N : f[n] = FundConversions(call, f[n - 1], uTokens[n])
  BY ConversionFundsTrace DEF IsSlots
<1>2. N \in Nat
  BY DEF IsSlots, IsSequence
<1> DEFINE Good == {n \in 0 .. N :
                        /\ BatchSound(before, call, f[n])
                        /\ f[n].ok => /\ w.ok /\ NativeHeld(w, f[n])
                                      /\ OnlyFirst(uTokens, n, f[n])}
<1>3. 0 \in Good
  BY <1>1, <1>2 DEF NativeHeld, OnlyFirst, NoTokens
<1>4. ASSUME NEW n \in 1 .. N, n - 1 \in Good PROVE n \in Good
  <2>1. BatchSound(before, call, f[n - 1]) /\ IsSlot(uTokens[n])
    BY <1>4 DEF IsSlots
  <2>2. /\ BatchSound(before, call, f[n])
        /\ f[n].ok => /\ f[n - 1].ok /\ NativeHeld(f[n - 1], f[n])
                      /\ \A t \in Tokens : t # uTokens[n].tokenAddress =>
                             f[n].balance[t][Batch] = f[n - 1].balance[t][Batch]
    <3>1. BatchSound(before, call, f[n]) /\ OthersFunded(f[n - 1], f[n], uTokens[n].tokenAddress)
      BY <1>1, <2>1, FundConversionStep
    <3> QED
      BY <3>1 DEF OthersFunded
  <2>3. ASSUME f[n].ok PROVE OnlyFirst(uTokens, n, f[n])
    <3> SUFFICES ASSUME NEW t \in Tokens, \A i \in 1 .. n : uTokens[i].tokenAddress # t
                 PROVE  NothingOf(f[n], t)
      BY DEF OnlyFirst
    <3>1. uTokens[n].tokenAddress # t /\ \A i \in 1 .. n - 1 : uTokens[i].tokenAddress # t
      BY <1>2
    <3>2. OnlyFirst(uTokens, n - 1, f[n - 1])
      BY <1>4, <2>2, <2>3
    <3>3. NothingOf(f[n - 1], t)
      BY <3>1, <3>2 DEF OnlyFirst
    <3> QED
      BY <2>2, <2>3, <3>1, <3>3 DEF NothingOf
  <2> QED
    BY <1>4, <2>2, <2>3 DEF NativeHeld
<1> HIDE DEF Good, N
<1>5. \A n \in 0 .. N : n \in Good
  BY <1>2, <1>3, <1>4, Receipts!StepByStep
<1> QED
  BY <1>1, <1>2, <1>5 DEF Good, N

(* A token that is not there is not spent.                                 *)
StaysEmpty(w, after) == \A t \in Tokens : NothingOf(w, t) => NothingOf(after, t)

LEMMA ConversionKeeps ==
    ASSUME NEW before, NEW call, IsCall(call), NEW w, BatchSound(before, call, w),
           NEW rd, IsDetail(rd), Token(rd) \in Tokens, NEW after,
           after = PayConversion(call, w, rd)
    PROVE  /\ BatchSound(before, call, after)
           /\ after.ok => /\ w.ok /\ NativeHeld(w, after) /\ StaysEmpty(w, after)
                          /\ RateChecked(call, rd)
<1> DEFINE token == Last(rd.path)
<1>1. token \in Tokens
  BY DEF Token
<1>2. /\ BatchSound(before, call, after)
      /\ after.ok => /\ w.ok /\ RateChecked(call, rd)
                     /\ \E spent \in Nat : HubGains(w, after, token, -spent)
  BY <1>1, ConversionStep
<1> HIDE DEF token
<1>3. ASSUME after.ok PROVE NativeHeld(w, after) /\ StaysEmpty(w, after)
  <2>1. PICK spent \in Nat : HubGains(w, after, token, -spent)
    BY <1>2, <1>3
  <2> DEFINE gain == -spent
  <2>2. gain \in Int /\ gain <= 0 /\ HubGains(w, after, token, gain)
    BY <2>1
  <2> HIDE DEF gain
  <2>3. IsWorld(w) /\ \A t \in Tokens : after.balance[t][Batch] \in Nat
    BY <1>2, HubHoldings DEF Assets
  <2>4. /\ NativeHeld(w, after)
        /\ after.balance[token][Batch] = w.balance[token][Batch] + gain
        /\ \A t \in Tokens : t # token => after.balance[t][Batch] = w.balance[t][Batch]
    <3>1. TokenGains(w, after, token, gain)
      BY <1>1, <2>2, <2>3, TokenGain
    <3> QED
      BY <3>1 DEF TokenGains
  <2>5. StaysEmpty(w, after)
    <3> SUFFICES ASSUME NEW t \in Tokens, NothingOf(w, t) PROVE NothingOf(after, t)
      BY DEF StaysEmpty
    <3>1. CASE t = token
      <4>1. after.balance[t][Batch] = 0 + gain /\ after.balance[t][Batch] \in Nat
        BY <2>3, <2>4, <3>1 DEF NothingOf
      <4> QED
        BY <2>2, <4>1 DEF NothingOf
    <3>2. CASE t # token
      BY <2>4, <3>2 DEF NothingOf
    <3> QED
      BY <3>1, <3>2
  <2> QED
    BY <2>4, <2>5
<1> QED
  BY <1>2, <1>3

LEMMA ConversionsKeep ==
    ASSUME NEW before, NEW call, IsCall(call), NEW w, BatchSound(before, call, w),
           NEW details, IsDetails(details), AllTokens(details), NEW after,
           after = ConversionsPaid!Fold(call, 0, w, details)
    PROVE  /\ BatchSound(before, call, after)
           /\ after.ok => /\ w.ok /\ NativeHeld(w, after) /\ StaysEmpty(w, after)
                          /\ AllChecked(call, details)
<1> DEFINE N == Len(details)
<1>1. PICK f : /\ f[0] = w /\ after = f[N]
               /\ \A n \in 1 .. N : f[n] = PayConversion(call, f[n - 1], details[n])
  BY ConversionsTrace DEF IsDetails
<1>2. N \in Nat
  BY DEF IsDetails, IsSequence
<1> DEFINE Good == {n \in 0 .. N :
                        /\ BatchSound(before, call, f[n])
                        /\ f[n].ok => w.ok /\ NativeHeld(w, f[n]) /\ StaysEmpty(w, f[n])
                        /\ f[n].ok => \A k \in 1 .. n : RateChecked(call, details[k])}
<1>3. 0 \in Good
  BY <1>1, <1>2 DEF NativeHeld, StaysEmpty
<1>4. ASSUME NEW n \in 1 .. N, n - 1 \in Good PROVE n \in Good
  <2>1. BatchSound(before, call, f[n - 1]) /\ IsDetail(details[n]) /\ Token(details[n]) \in Tokens
    BY <1>4 DEF IsDetails, AllTokens
  <2>2. /\ BatchSound(before, call, f[n])
        /\ f[n].ok => /\ f[n - 1].ok /\ NativeHeld(f[n - 1], f[n])
                      /\ StaysEmpty(f[n - 1], f[n]) /\ RateChecked(call, details[n])
    BY <1>1, <2>1, ConversionKeeps
  <2>3. \A k \in 1 .. n : k = n \/ k \in 1 .. n - 1
    BY <1>2
  <2>4. f[n].ok => \A k \in 1 .. n : RateChecked(call, details[k])
    BY <1>4, <2>2, <2>3
  <2> QED
    BY <1>4, <2>2, <2>4 DEF NativeHeld, StaysEmpty
<1> HIDE DEF Good, N
<1>5. \A n \in 0 .. N : n \in Good
  BY <1>2, <1>3, <1>4, Receipts!StepByStep
<1> QED
  BY <1>1, <1>2, <1>5 DEF Good, N, AllChecked

LEMMA SettleStep ==
    ASSUME NEW before, NEW call, IsCall(call), NEW w, BatchSound(before, call, w),
           NEW u, IsSlot(u), NEW after, after = Settle(call, w, u)
    PROVE  /\ BatchSound(before, call, after)
           /\ after.ok => /\ w.ok /\ NativeHeld(w, after) /\ StaysEmpty(w, after)
                          /\ NothingOf(after, u.tokenAddress)
<1> DEFINE token  == u.tokenAddress
           excess == w.balance[token][Batch]
           from   == Batch
           to     == call.payer
           given  == SafeTransferFrom(w, token, from, to, excess)
           fee    == BatchFee(call.config, u.amountAndFee - excess)
<1>1. after = PayTokenBatchFee(call, given, fee, token) /\ token \in Tokens
  BY DEF Settle, IsSlot
<1>2. IsWorld(w) /\ token \in Assets /\ excess \in Nat
  BY <1>1, HubHoldings DEF Assets
<1> HIDE DEF token, fee
<1>3. BatchSound(before, call, given)
  BY <1>1, BatchHub, SoundToken DEF BatchSound
<1>4. given.ok => /\ w.ok /\ Moved(w, given, token, from, to, excess)
  BY <1>1, <1>2, BatchHub, TokenTransfer
<1> HIDE DEF given
<1> DEFINE gain == -excess
<1>5. ASSUME given.ok PROVE HubGains(w, given, token, gain)
  <2>1. HubGains(w, given, token, Gain(Batch, from, to, excess))
    BY <1>2, <1>4, <1>5, HubMoved
  <2>2. Gain(Batch, from, to, excess) = gain
    BY <1>2, BatchHub DEF Gain
  <2> QED
    BY <2>1, <2>2
<1>6. gain \in Int /\ excess + gain = 0
  BY <1>2
<1> HIDE DEF gain
<1>7. HubStep(before, call, given, after, token, 0)
  BY <1>1, <1>3, TokenFeeStep
<1>8. ASSUME after.ok
      PROVE  /\ w.ok /\ NativeHeld(w, after)
             /\ after.balance[token][Batch] = 0
             /\ \A t \in Tokens : t # token => after.balance[t][Batch] = w.balance[t][Batch]
  <2> DEFINE none == 0
  <2>1. given.ok /\ IsWorld(given) /\ none \in Int /\ HubGains(given, after, token, none)
        /\ \A t \in Tokens : given.balance[t][Batch] \in Nat
    BY <1>3, <1>7, <1>8, HubHoldings DEF HubStep, Assets
  <2>2. /\ NativeHeld(w, given)
        /\ given.balance[token][Batch] = w.balance[token][Batch] + gain
        /\ \A t \in Tokens : t # token => given.balance[t][Batch] = w.balance[t][Batch]
    <3>1. TokenGains(w, given, token, gain)
      BY <1>1, <1>2, <1>5, <1>6, <2>1, TokenGain
    <3> QED
      BY <3>1 DEF TokenGains
  <2>3. /\ NativeHeld(given, after)
        /\ after.balance[token][Batch] = given.balance[token][Batch] + none
        /\ \A t \in Tokens : t # token => after.balance[t][Batch] = given.balance[t][Batch]
    <3> HIDE DEF none
    <3>1. TokenGains(given, after, token, none)
      BY <1>1, <2>1, TokenGain
    <3> QED
      BY <3>1 DEF TokenGains
  <2> QED
    BY <1>1, <1>4, <1>6, <2>1, <2>2, <2>3 DEF NativeHeld
<1> HIDE DEF excess
<1>9. after.ok => /\ StaysEmpty(w, after)
                  /\ NothingOf(after, token)
  BY <1>8 DEF StaysEmpty, NothingOf
<1> QED
  BY <1>7, <1>8, <1>9 DEF HubStep, token

LEMMA AllSettled ==
    ASSUME NEW before, NEW call, IsCall(call), NEW w, BatchSound(before, call, w),
           NEW uTokens, IsSlots(uTokens), NEW after,
           after = Settled!Fold(call, 0, w, uTokens)
    PROVE  /\ BatchSound(before, call, after)
           /\ after.ok => /\ w.ok /\ NativeHeld(w, after) /\ StaysEmpty(w, after)
                          /\ \A i \in 1 .. Len(uTokens) :
                                 NothingOf(after, uTokens[i].tokenAddress)
<1> DEFINE N == Len(uTokens)
<1>1. PICK f : /\ f[0] = w /\ after = f[N]
               /\ \A n \in 1 .. N : f[n] = Settle(call, f[n - 1], uTokens[n])
  BY SettledTrace DEF IsSlots
<1>2. N \in Nat
  BY DEF IsSlots, IsSequence
<1> DEFINE Good == {n \in 0 .. N :
                        /\ BatchSound(before, call, f[n])
                        /\ f[n].ok => /\ w.ok /\ NativeHeld(w, f[n]) /\ StaysEmpty(w, f[n])
                                      /\ \A i \in 1 .. n :
                                             NothingOf(f[n], uTokens[i].tokenAddress)}
<1>3. 0 \in Good
  BY <1>1, <1>2 DEF NativeHeld, StaysEmpty
<1>4. ASSUME NEW n \in 1 .. N, n - 1 \in Good PROVE n \in Good
  <2>1. BatchSound(before, call, f[n - 1]) /\ IsSlot(uTokens[n])
        /\ \A i \in 1 .. n : uTokens[i].tokenAddress \in Tokens
    <3>1. BatchSound(before, call, f[n - 1]) /\ \A i \in 1 .. N : IsSlot(uTokens[i])
      BY <1>4 DEF IsSlots
    <3>2. \A i \in 1 .. n : i \in 1 .. N
      BY <1>2
    <3> HIDE DEF N
    <3> QED
      BY <3>1, <3>2 DEF IsSlot
  <2>2. /\ BatchSound(before, call, f[n])
        /\ f[n].ok => /\ f[n - 1].ok /\ NativeHeld(f[n - 1], f[n])
                      /\ StaysEmpty(f[n - 1], f[n])
                      /\ NothingOf(f[n], uTokens[n].tokenAddress)
    BY <1>1, <2>1, SettleStep
  <2>3. ASSUME f[n].ok, NEW i \in 1 .. n PROVE NothingOf(f[n], uTokens[i].tokenAddress)
    <3>1. i = n \/ i \in 1 .. n - 1
      BY <1>2
    <3> QED
      BY <1>4, <2>1, <2>2, <2>3, <3>1 DEF StaysEmpty
  <2> QED
    BY <1>4, <2>2, <2>3 DEF NativeHeld, StaysEmpty
<1> HIDE DEF Good, N
<1>5. \A n \in 0 .. N : n \in Good
  BY <1>2, <1>3, <1>4, Receipts!StepByStep
<1> QED
  BY <1>1, <1>2, <1>5 DEF Good, N

LEMMA ConversionGroup ==
    ASSUME NEW before, NEW call, IsCall(call), NEW w, BatchSound(before, call, w),
           w.ok => NoTokens(w), NEW details, IsDetails(details), AllTokens(details), NEW after,
           after = BatchMultiERC20ConversionPayments(call, w, details)
    PROVE  /\ TokenGroup(before, call, w, after)
           /\ after.ok => AllChecked(call, details)
<1> DEFINE uTokens == GetUTokens(details)
           funded  == ConversionFunds!Fold(call, 0, w, uTokens)
           payed   == ConversionsPaid!Fold(call, 0, funded, details)
<1>1. after = Settled!Fold(call, 0, payed, uTokens)
  BY ConversionPaymentsAre
<1>2. IsSlots(uTokens)
  BY UTokensAre
<1> HIDE DEF uTokens
<1>3. /\ BatchSound(before, call, funded)
      /\ funded.ok => /\ w.ok /\ NativeHeld(w, funded)
                      /\ OnlyFirst(uTokens, Len(uTokens), funded)
  BY <1>2, ConversionsFunded
<1> HIDE DEF funded
<1>4. /\ BatchSound(before, call, payed)
      /\ payed.ok => /\ funded.ok /\ NativeHeld(funded, payed)
                     /\ StaysEmpty(funded, payed) /\ AllChecked(call, details)
  BY <1>3, ConversionsKeep
<1> HIDE DEF payed
<1>5. /\ BatchSound(before, call, after)
      /\ after.ok => /\ payed.ok /\ NativeHeld(payed, after) /\ StaysEmpty(payed, after)
                     /\ \A i \in 1 .. Len(uTokens) :
                            NothingOf(after, uTokens[i].tokenAddress)
  BY <1>1, <1>2, <1>4, AllSettled
<1>6. after.ok => NoTokens(after)
  BY <1>3, <1>4, <1>5 DEF OnlyFirst, StaysEmpty, NoTokens
<1> QED
  BY <1>3, <1>4, <1>5, <1>6 DEF TokenGroup, NativeHeld

-----------------------------------------------------------------------------
(***************************************************************************)
(* Groups of payments in tokens without conversion: the contract is funded *)
(* with exactly what it pays, token by token.                              *)
(***************************************************************************)
IsTokenDetail(rd) ==
    /\ rd.path = << rd.path[1] >> /\ rd.path[1] \in Tokens
    /\ rd.requestAmount > 0 /\ rd.feeAmount \in Nat

Cost(rd) == rd.requestAmount + rd.feeAmount

LEMMA TokenDetailIs ==
    ASSUME NEW rd, IsTokenDetail(rd)
    PROVE  /\ Token(rd) = rd.path[1] /\ Token(rd) \in Tokens
           /\ IsSlot(Slot(rd)) /\ Slot(rd).tokenAddress = rd.path[1]
           /\ Slot(rd).amountAndFee = Cost(rd)
<1> DEFINE token == rd.path[1]
<1>1. rd.path = << token >> /\ token \in Tokens
  BY DEF IsTokenDetail
<1> HIDE DEF token
<1>2. Len(rd.path) = 1 /\ rd.path[1] = token
  BY <1>1
<1>3. Last(rd.path) = token
  BY <1>2 DEF Last
<1>4. Slot(rd) = [tokenAddress |-> token, amountAndFee |-> Cost(rd),
                  batchFeeAmount |-> rd.requestAmount]
  BY <1>2, <1>3 DEF Slot, Token, ToSpend, Cost
<1> HIDE DEF Cost
<1> QED
  BY <1>1, <1>2, <1>3, <1>4 DEF Token, IsSlot

(* Every token has one slot, with an amount: what is needed of it.         *)
Tidy(uTokens) ==
    /\ IsSlots(uTokens)
    /\ \A i \in 1 .. Len(uTokens) : uTokens[i].amountAndFee \in Nat \ {0}
    /\ \A i, j \in 1 .. Len(uTokens) :
           uTokens[i].tokenAddress = uTokens[j].tokenAddress => i = j

OwesFirst(uTokens, n, token, x) ==
    /\ \A k \in 1 .. n : uTokens[k].tokenAddress = token => uTokens[k].amountAndFee = x
    /\ (\A k \in 1 .. n : uTokens[k].tokenAddress # token) => x = 0

Owes(uTokens, token, x) == OwesFirst(uTokens, Len(uTokens), token, x)

LEMMA TidyAdd ==
    ASSUME NEW uTokens, Tidy(uTokens), NEW rd, IsTokenDetail(rd), rd.requestAmount \in Nat,
           NEW after, after = AddToken(uTokens, rd)
    PROVE  /\ Tidy(after) /\ Len(after) >= 1
           /\ \A t \in Tokens, x \in Int : Owes(uTokens, t, x) =>
                  Owes(after, t, x + IF t = rd.path[1] THEN Cost(rd) ELSE 0)
<1> DEFINE slot  == Slot(rd)
           token == rd.path[1]
           N     == Len(uTokens)
           cost  == Cost(rd)
<1>1. /\ Token(rd) = token /\ token \in Tokens /\ IsSlot(slot)
      /\ slot.tokenAddress = token /\ slot.amountAndFee = cost
  BY TokenDetailIs
<1>2. cost \in Nat \ {0} /\ Worth(rd)
  BY DEF Cost, IsTokenDetail, Worth
<1>3. IsSlots(uTokens) /\ N \in Nat /\ ~HasFree(uTokens)
  BY DEF Tidy, IsSlots, IsSequence, HasFree
<1> HIDE DEF slot, token, N, cost
<1>4. /\ HasSlot(uTokens, token) =>
             \E k \in 1 .. N : /\ uTokens[k].tokenAddress = token
                               /\ after = Put(uTokens, k, More(uTokens[k], slot))
      /\ ~HasSlot(uTokens, token) => after = Append(uTokens, slot)
  BY <1>1, <1>2, <1>3, AddTokenIs DEF slot, N
<1>5. CASE HasSlot(uTokens, token)
  <2>1. PICK k \in 1 .. N : /\ uTokens[k].tokenAddress = token
                            /\ after = Put(uTokens, k, More(uTokens[k], slot))
    BY <1>4, <1>5
  <2> DEFINE more == More(uTokens[k], slot)
  <2>2. /\ IsSlot(more) /\ more.tokenAddress = token
        /\ more.amountAndFee = uTokens[k].amountAndFee + cost
    BY <1>1, <1>3, <2>1, MoreIs DEF IsSlots, N
  <2> HIDE DEF more
  <2>3. /\ IsSlots(after) /\ Len(after) = N
        /\ \A i \in 1 .. N : after[i] = IF i = k THEN more ELSE uTokens[i]
    BY <1>3, <2>1, <2>2, PutSlot DEF more, N
  <2>4. \A i \in 1 .. N : uTokens[i].amountAndFee \in Nat \ {0}
    BY DEF Tidy, N
  <2>5. /\ \A i \in 1 .. N : after[i].tokenAddress = uTokens[i].tokenAddress
        /\ \A i \in 1 .. N : after[i].amountAndFee
                                 = uTokens[i].amountAndFee + IF i = k THEN cost ELSE 0
    BY <1>2, <2>1, <2>2, <2>3, <2>4
  <2>6. \A i, j \in 1 .. N : uTokens[i].tokenAddress = uTokens[j].tokenAddress => i = j
    BY DEF Tidy, N
  <2>7. Tidy(after) /\ Len(after) >= 1
    BY <1>2, <1>3, <2>3, <2>4, <2>5, <2>6 DEF Tidy
  <2>8. ASSUME NEW t \in Tokens, NEW x \in Int, Owes(uTokens, t, x)
        PROVE  Owes(after, t, x + IF t = token THEN cost ELSE 0)
    <3>1. CASE t = token
      <4>1. uTokens[k].amountAndFee = x
        BY <2>1, <2>8, <3>1 DEF Owes, OwesFirst, N
      <4>2. \A i \in 1 .. N : after[i].tokenAddress = t => i = k
        BY <2>1, <2>5, <2>6, <3>1
      <4>3. after[k].amountAndFee = x + cost /\ after[k].tokenAddress = t
        BY <2>1, <2>5, <3>1, <4>1
      <4> QED
        BY <2>3, <3>1, <4>2, <4>3 DEF Owes, OwesFirst
    <3>2. CASE t # token
      <4>1. \A i \in 1 .. N : after[i].tokenAddress = t =>
                                  after[i].amountAndFee = uTokens[i].amountAndFee
        BY <2>1, <2>4, <2>5, <3>2
      <4> QED
        BY <2>3, <2>5, <2>8, <3>2, <4>1 DEF Owes, OwesFirst, N
    <3> QED
      BY <3>1, <3>2
  <2> QED
    BY <2>7, <2>8 DEF token, cost
<1>6. CASE ~HasSlot(uTokens, token)
  <2>1. after = Append(uTokens, slot)
    BY <1>4, <1>6
  <2>2. /\ IsSlots(after) /\ Len(after) = N + 1
        /\ \A i \in 1 .. N : after[i] = uTokens[i]
        /\ after[N + 1] = slot
    BY <1>1, <1>3, <2>1, AddSlot DEF N
  <2>3. \A i \in 1 .. N + 1 : i \in 1 .. N \/ i = N + 1
    BY <1>3
  <2>4. \A i \in 1 .. N : uTokens[i].tokenAddress # token
    BY <1>6 DEF HasSlot, N
  <2>5. Tidy(after) /\ Len(after) >= 1
    <3>1. \A i \in 1 .. N + 1 : after[i].amountAndFee \in Nat \ {0}
      BY <1>1, <1>2, <2>2, <2>3 DEF Tidy, N
    <3>2. \A i, j \in 1 .. N + 1 :
              after[i].tokenAddress = after[j].tokenAddress => i = j
      BY <1>1, <2>2, <2>3, <2>4 DEF Tidy, N
    <3> QED
      BY <1>3, <2>2, <3>1, <3>2 DEF Tidy
  <2>6. ASSUME NEW t \in Tokens, NEW x \in Int, Owes(uTokens, t, x)
        PROVE  Owes(after, t, x + IF t = token THEN cost ELSE 0)
    <3>1. CASE t = token
      <4>1. x = 0
        BY <2>4, <2>6, <3>1 DEF Owes, OwesFirst, N
      <4>2. x + cost = cost
        BY <1>2, <4>1
      <4>3. \A i \in 1 .. N + 1 : after[i].tokenAddress = t => after[i].amountAndFee = cost
        BY <1>1, <2>2, <2>3, <2>4, <3>1
      <4>4. after[N + 1].tokenAddress = t /\ N + 1 \in 1 .. N + 1
        BY <1>1, <1>3, <2>2, <3>1
      <4> QED
        BY <2>2, <3>1, <4>2, <4>3, <4>4 DEF Owes, OwesFirst
    <3>2. CASE t # token
      <4>1. \A i \in 1 .. N + 1 : after[i].tokenAddress = t =>
                                      i \in 1 .. N /\ after[i] = uTokens[i]
        BY <1>1, <2>2, <2>3, <3>2
      <4>2. \A i \in 1 .. N : i \in 1 .. N + 1
        BY <1>3
      <4> QED
        BY <2>2, <2>6, <3>2, <4>1, <4>2 DEF Owes, OwesFirst, N
    <3> QED
      BY <3>1, <3>2
  <2> QED
    BY <2>5, <2>6 DEF token, cost
<1> QED
  BY <1>5, <1>6

LEMMA FundPaymentStep ==
    ASSUME NEW before, NEW call, IsCall(call), NEW w, BatchSound(before, call, w),
           NEW u, IsSlot(u), NEW after, after = FundPayments(call, w, u)
    PROVE  /\ BatchSound(before, call, after)
           /\ after.ok => /\ w.ok /\ call.feeAddress # None
                          /\ TokenGains(w, after, u.tokenAddress, u.amountAndFee)
<1> DEFINE token  == u.tokenAddress
           amount == u.amountAndFee
           fee    == BatchFee(call.config, u.batchFeeAmount)
           funded == TransferToContract(call, w, token, amount, fee)
<1>1. after = PayTokenBatchFee(call, funded, fee, token) /\ token \in Tokens
  BY DEF FundPayments, IsSlot
<1> HIDE DEF token, amount, fee
<1>2. HubStep(before, call, w, funded, token, amount) /\ (funded.ok => amount \in Nat)
  BY <1>1, FundStep
<1> HIDE DEF funded
<1> DEFINE none == 0
<1>3. HubStep(before, call, funded, after, token, none) /\ none \in Int
      /\ (after.ok => call.feeAddress # None)
  BY <1>1, <1>2, TokenFeeStep DEF HubStep
<1>4. ASSUME after.ok
      PROVE  /\ NativeHeld(w, after)
             /\ after.balance[token][Batch] = w.balance[token][Batch] + amount
             /\ \A t \in Tokens : t # token => after.balance[t][Batch] = w.balance[t][Batch]
  <2> HIDE DEF none
  <2>1. /\ funded.ok /\ HubGains(funded, after, token, none)
        /\ HubGains(w, funded, token, amount) /\ amount \in Int
    BY <1>2, <1>3, <1>4 DEF HubStep
  <2>2. IsWorld(w) /\ IsWorld(funded) /\ funded.balance[token][Batch] \in Nat
    BY <1>1, <1>2, HubHoldings DEF HubStep, Assets
  <2>3. /\ NativeHeld(w, funded)
        /\ funded.balance[token][Batch] = w.balance[token][Batch] + amount
        /\ \A t \in Tokens : t # token => funded.balance[t][Batch] = w.balance[t][Batch]
    <3>1. TokenGains(w, funded, token, amount)
      BY <1>1, <2>1, <2>2, TokenGain
    <3> QED
      BY <3>1 DEF TokenGains
  <2>4. /\ NativeHeld(funded, after)
        /\ after.balance[token][Batch] = funded.balance[token][Batch] + none
        /\ \A t \in Tokens : t # token => after.balance[t][Batch] = funded.balance[t][Batch]
    <3>1. TokenGains(funded, after, token, none)
      BY <1>1, <1>3, <2>1, <2>2, TokenGain
    <3> QED
      BY <3>1 DEF TokenGains
  <2>5. funded.balance[token][Batch] + none = funded.balance[token][Batch]
    BY <2>2 DEF none
  <2> QED
    BY <2>3, <2>4, <2>5 DEF NativeHeld
<1> QED
  BY <1>2, <1>3, <1>4 DEF HubStep, TokenGains, token, amount

LEMMA PaymentsFunded ==
    ASSUME NEW before, NEW call, IsCall(call), NEW w, BatchSound(before, call, w),
           NEW uTokens, IsSlots(uTokens), NEW after,
           after = Funds!Fold(call, 0, w, uTokens)
    PROVE  /\ BatchSound(before, call, after)
           /\ after.ok => /\ w.ok /\ NativeHeld(w, after)
                          /\ Len(uTokens) >= 1 => call.feeAddress # None
                          /\ Tidy(uTokens) /\ NoTokens(w) =>
                                 \A t \in Tokens : Owes(uTokens, t, after.balance[t][Batch])
<1> DEFINE N == Len(uTokens)
<1>1. PICK f : /\ f[0] = w /\ after = f[N]
               /\ \A n \in 1 .. N : f[n] = FundPayments(call, f[n - 1], uTokens[n])
  BY FundsTrace DEF IsSlots
<1>2. N \in Nat
  BY DEF IsSlots, IsSequence
<1> DEFINE Good == {n \in 0 .. N :
                        /\ BatchSound(before, call, f[n])
                        /\ f[n].ok => /\ w.ok /\ NativeHeld(w, f[n])
                                      /\ n >= 1 => call.feeAddress # None
                                      /\ Tidy(uTokens) /\ NoTokens(w) =>
                                             \A t \in Tokens :
                                                 OwesFirst(uTokens, n, t,
                                                           f[n].balance[t][Batch])}
<1>3. 0 \in Good
  <2>1. NoTokens(w) => \A t \in Tokens : OwesFirst(uTokens, 0, t, w.balance[t][Batch])
    BY DEF OwesFirst, NoTokens, NothingOf
  <2> QED
    BY <1>1, <1>2, <2>1 DEF NativeHeld
<1>4. ASSUME NEW n \in 1 .. N, n - 1 \in Good PROVE n \in Good
  <2> DEFINE u == uTokens[n]
             v == f[n - 1]
             x == f[n]
  <2>1. BatchSound(before, call, v) /\ IsSlot(u)
    BY <1>4 DEF IsSlots
  <2>2. x = FundPayments(call, v, u)
    BY <1>1
  <2>3. v.ok => /\ w.ok /\ NativeHeld(w, v)
                /\ Tidy(uTokens) /\ NoTokens(w) =>
                       \A t \in Tokens : OwesFirst(uTokens, n - 1, t, v.balance[t][Batch])
    BY <1>4
  <2> HIDE DEF v, x
  <2>4. /\ BatchSound(before, call, x)
        /\ x.ok => /\ v.ok /\ NativeHeld(v, x) /\ call.feeAddress # None
                   /\ x.balance[u.tokenAddress][Batch]
                          = v.balance[u.tokenAddress][Batch] + u.amountAndFee
                   /\ \A t \in Tokens : t # u.tokenAddress =>
                          x.balance[t][Batch] = v.balance[t][Batch]
    <3> HIDE DEF u
    <3>1. /\ BatchSound(before, call, x)
          /\ x.ok => /\ v.ok /\ call.feeAddress # None
                     /\ TokenGains(v, x, u.tokenAddress, u.amountAndFee)
      BY <2>1, <2>2, FundPaymentStep
    <3> QED
      BY <3>1 DEF TokenGains
  <2>5. ASSUME x.ok, Tidy(uTokens), NoTokens(w), NEW t \in Tokens
        PROVE  OwesFirst(uTokens, n, t, x.balance[t][Batch])
    <3>1. OwesFirst(uTokens, n - 1, t, v.balance[t][Batch])
      BY <2>3, <2>4, <2>5
    <3>2. \A k \in 1 .. n : k = n \/ k \in 1 .. n - 1
      BY <1>2
    <3>3. CASE u.tokenAddress = t
      <4>1. \A k \in 1 .. n : uTokens[k].tokenAddress = t => k = n
        BY <1>2, <2>5, <3>3 DEF Tidy
      <4>2. v.balance[t][Batch] = 0
        <5>1. \A k \in 1 .. n - 1 : k \in 1 .. n /\ k # n
          BY <1>2
        <5> QED
          BY <3>1, <4>1, <5>1 DEF OwesFirst
      <4>3. u.amountAndFee \in Nat
        BY <2>5 DEF Tidy
      <4>4. x.balance[t][Batch] = u.amountAndFee
        BY <2>4, <2>5, <3>3, <4>2, <4>3
      <4>5. n \in 1 .. n
        BY <1>2
      <4> QED
        BY <3>3, <4>1, <4>4, <4>5 DEF OwesFirst
    <3>4. CASE u.tokenAddress # t
      <4>1. x.balance[t][Batch] = v.balance[t][Batch]
        BY <2>4, <2>5, <3>4
      <4>2. \A k \in 1 .. n : uTokens[k].tokenAddress = t => k \in 1 .. n - 1
        BY <3>2, <3>4
      <4>3. \A k \in 1 .. n - 1 : k \in 1 .. n
        BY <1>2
      <4> QED
        BY <3>1, <4>1, <4>2, <4>3 DEF OwesFirst
    <3> QED
      BY <3>3, <3>4
  <2>6. x.ok => NativeHeld(w, x)
    BY <2>3, <2>4 DEF NativeHeld
  <2> QED
    BY <2>3, <2>4, <2>5, <2>6 DEF x
<1> HIDE DEF Good, N
<1>5. \A n \in 0 .. N : n \in Good
  BY <1>2, <1>3, <1>4, Receipts!StepByStep
<1> QED
  BY <1>1, <1>2, <1>5 DEF Good, Owes, N

(* One payment out of what the contract holds.                             *)
DetailPaid(call, w, after, rd) ==
    after.ok =>
        /\ w.ok /\ NativeHeld(w, after) /\ rd.requestAmount \in Nat
        /\ call.feeAddress # None =>
               after.balance[rd.path[1]][Batch] = w.balance[rd.path[1]][Batch] - Cost(rd)
        /\ \A t \in Tokens : t # rd.path[1] =>
               after.balance[t][Batch] = w.balance[t][Batch]

LEMMA DetailPaidStep ==
    ASSUME NEW before, NEW call, IsCall(call), NEW w, BatchSound(before, call, w),
           NEW rd, IsDetail(rd), IsTokenDetail(rd), NEW after,
           after = PayDetail(call, w, rd)
    PROVE  BatchSound(before, call, after) /\ DetailPaid(call, w, after, rd)
<1> DEFINE payment == Payment(rd, call.feeAddress)
           spent   == rd.requestAmount + FeeTaken(payment)
           gain    == -spent
           token   == rd.path[1]
<1>1. /\ HubStep(before, call, w, after, token, gain)
      /\ after.ok => /\ rd.requestAmount \in Nat /\ FeeTaken(payment) \in Nat
  BY DetailStep DEF IsTokenDetail
<1>2. payment.feeAmount = rd.feeAmount /\ payment.feeAddress = call.feeAddress
  BY DetailPayment
<1>3. call.feeAddress # None => FeeTaken(payment) = rd.feeAmount
  BY <1>2 DEF FeeTaken
<1> HIDE DEF payment
<1>4. after.ok => gain \in Int /\ gain = -spent /\ spent \in Nat
  BY <1>1
<1>5. after.ok /\ call.feeAddress # None => spent = Cost(rd)
  BY <1>3 DEF Cost
<1>6. token \in Tokens
  BY DEF IsTokenDetail
<1> HIDE DEF gain, spent
<1>7. ASSUME after.ok
      PROVE  /\ NativeHeld(w, after)
             /\ after.balance[token][Batch] = w.balance[token][Batch] - spent
             /\ \A t \in Tokens : t # token => after.balance[t][Batch] = w.balance[t][Batch]
  <2>1. HubGains(w, after, token, gain) /\ IsWorld(w) /\ w.balance[token][Batch] \in Nat
    BY <1>1, <1>6, <1>7, HubHoldings DEF HubStep, Assets
  <2>2. /\ NativeHeld(w, after)
        /\ after.balance[token][Batch] = w.balance[token][Batch] + gain
        /\ \A t \in Tokens : t # token => after.balance[t][Batch] = w.balance[t][Batch]
    <3>1. TokenGains(w, after, token, gain)
      BY <1>4, <1>6, <1>7, <2>1, TokenGain
    <3> QED
      BY <3>1 DEF TokenGains
  <2>3. w.balance[token][Batch] + gain = w.balance[token][Batch] - spent
    BY <1>4, <1>7, <2>1
  <2> QED
    BY <2>2, <2>3
<1> QED
  BY <1>1, <1>5, <1>7 DEF HubStep, DetailPaid

TokenDetails(details) ==
    /\ IsDetails(details)
    /\ \A i \in 1 .. Len(details) : IsTokenDetail(details[i])

(* The worlds that the loop over the details goes through.                 *)
PaidOneByOne(before, call, f, details) ==
    /\ \A n \in 0 .. Len(details) : BatchSound(before, call, f[n])
    /\ \A n \in 1 .. Len(details) : DetailPaid(call, f[n - 1], f[n], details[n])

LEMMA DetailsPaid ==
    ASSUME NEW before, NEW call, IsCall(call), NEW w, BatchSound(before, call, w),
           NEW details, TokenDetails(details)
    PROVE  \E f : /\ f[0] = w /\ PayDetails(call, w, details) = f[Len(details)]
                  /\ PaidOneByOne(before, call, f, details)
<1> DEFINE N == Len(details)
<1>1. PICK f : /\ f[0] = w /\ PayDetails(call, w, details) = f[N]
               /\ \A n \in 1 .. N : f[n] = PayDetail(call, f[n - 1], details[n])
  <2>1. IsSequence(details)
    BY DEF TokenDetails, IsDetails
  <2>2. PICK f : PaysInTurn(f, call, w, details, PayDetails(call, w, details))
    BY <2>1, DetailsTrace
  <2> QED
    BY <2>2 DEF PaysInTurn
<1>2. N \in Nat
  BY DEF TokenDetails, IsDetails, IsSequence
<1> DEFINE Good == {n \in 0 .. N : BatchSound(before, call, f[n])}
<1>3. 0 \in Good
  BY <1>1, <1>2
<1>4. ASSUME NEW n \in 1 .. N, n - 1 \in Good
      PROVE  n \in Good /\ DetailPaid(call, f[n - 1], f[n], details[n])
  <2>1. /\ BatchSound(before, call, f[n - 1])
        /\ IsDetail(details[n]) /\ IsTokenDetail(details[n])
    BY <1>4 DEF TokenDetails, IsDetails
  <2> QED
    BY <1>1, <2>1, DetailPaidStep
<1> HIDE DEF Good, N
<1>5. \A n \in 0 .. N : n \in Good
  BY <1>2, <1>3, <1>4, Receipts!StepByStep
<1>6. \A n \in 1 .. N : n - 1 \in Good
  BY <1>2, <1>5
<1>7. \A n \in 0 .. N : BatchSound(before, call, f[n])
  BY <1>5 DEF Good
<1>8. PaidOneByOne(before, call, f, details)
  BY <1>4, <1>6, <1>7 DEF PaidOneByOne, N
<1> QED
  BY <1>1, <1>8 DEF N

(* If nothing reverts every amount is a natural number.                    *)
LEMMA AmountsAreNatural ==
    ASSUME NEW before, NEW call, NEW details, TokenDetails(details), NEW f,
           PaidOneByOne(before, call, f, details)
    PROVE  f[Len(details)].ok =>
               /\ f[0].ok /\ NativeHeld(f[0], f[Len(details)])
               /\ \A m \in 1 .. Len(details) : details[m].requestAmount \in Nat
<1> DEFINE N    == Len(details)
           Good == {n \in 0 .. N :
                        f[n].ok => /\ f[0].ok /\ NativeHeld(f[0], f[n])
                                   /\ \A m \in 1 .. n : details[m].requestAmount \in Nat}
<1>1. N \in Nat
  BY DEF TokenDetails, IsDetails, IsSequence
<1>2. 0 \in Good
  BY <1>1 DEF NativeHeld
<1>3. ASSUME NEW n \in 1 .. N, n - 1 \in Good PROVE n \in Good
  <2>1. f[n].ok => /\ f[n - 1].ok /\ NativeHeld(f[n - 1], f[n])
                   /\ details[n].requestAmount \in Nat
    BY DEF PaidOneByOne, DetailPaid
  <2>2. \A m \in 1 .. n : m = n \/ m \in 1 .. n - 1
    BY <1>1
  <2> QED
    BY <1>3, <2>1, <2>2 DEF NativeHeld
<1> HIDE DEF Good, N
<1>4. \A n \in 0 .. N : n \in Good
  BY <1>1, <1>2, <1>3, Receipts!StepByStep
<1> QED
  BY <1>1, <1>4 DEF Good, N

(* The tokens are collected as the details need them.                      *)
Collects(g, details) ==
    /\ \A t \in Tokens : Owes(g[0], t, 0)
    /\ \A n \in 1 .. Len(details) : \A t \in Tokens, x \in Int :
           Owes(g[n - 1], t, x) =>
               Owes(g[n], t, x + IF t = details[n].path[1] THEN Cost(details[n]) ELSE 0)

LEMMA TokensCollected ==
    ASSUME NEW details, TokenDetails(details), Len(details) >= 1,
           \A m \in 1 .. Len(details) : details[m].requestAmount \in Nat
    PROVE  \E g : /\ Collects(g, details) /\ GetUTokens(details) = g[Len(details)]
                  /\ Tidy(GetUTokens(details)) /\ Len(GetUTokens(details)) >= 1
<1> DEFINE N == Len(details)
<1>1. PICK g : /\ g[0] = << >> /\ Collected(details) = g[N]
               /\ \A n \in 1 .. N : g[n] = AddToken(g[n - 1], details[n])
  BY CollectedTrace DEF TokenDetails, IsDetails
<1>2. N \in Nat /\ N >= 1
  BY DEF TokenDetails, IsDetails, IsSequence
<1> DEFINE Good == {n \in 0 .. N : Tidy(g[n]) /\ (n >= 1 => Len(g[n]) >= 1)}
<1>3. 0 \in Good /\ \A t \in Tokens : Owes(g[0], t, 0)
  <2> DEFINE none == << >>
  <2>1. none \in Seq({}) /\ Len(none) = 0
    OBVIOUS
  <2> HIDE DEF none
  <2>2. Tidy(none) /\ \A t \in Tokens : Owes(none, t, 0)
    BY <2>1 DEF Tidy, IsSlots, IsSequence, Owes, OwesFirst
  <2> QED
    BY <1>1, <1>2, <2>2 DEF none
<1>4. ASSUME NEW n \in 1 .. N, n - 1 \in Good
      PROVE  /\ n \in Good
             /\ \A t \in Tokens, x \in Int : Owes(g[n - 1], t, x) =>
                    Owes(g[n], t, x + IF t = details[n].path[1] THEN Cost(details[n]) ELSE 0)
  <2>1. Tidy(g[n - 1]) /\ IsTokenDetail(details[n]) /\ details[n].requestAmount \in Nat
    BY <1>4 DEF TokenDetails
  <2> QED
    BY <1>1, <2>1, TidyAdd
<1> HIDE DEF Good, N
<1>5. \A n \in 0 .. N : n \in Good
  BY <1>2, <1>3, <1>4, Receipts!StepByStep
<1>6. \A n \in 1 .. N : n - 1 \in Good
  BY <1>2, <1>5
<1>7. Collects(g, details)
  BY <1>3, <1>4, <1>6 DEF Collects, N
<1>8. Tidy(Collected(details)) /\ Len(Collected(details)) >= 1
  BY <1>1, <1>2, <1>5 DEF Good
<1>9. GetUTokens(details) = Collected(details)
  <2>1. AllTokens(details)
    BY TokenDetailIs DEF TokenDetails, IsDetails, AllTokens
  <2>2. ~HasFree(Collected(details))
    BY <1>8 DEF Tidy, HasFree
  <2> QED
    BY <2>1, <2>2, UTokensAre
<1> QED
  BY <1>1, <1>7, <1>8, <1>9 DEF N

(* What is collected of a token is what the details cost of it.            *)
LEMMA SpentAsCollected ==
    ASSUME NEW before, NEW call, call.feeAddress # None, NEW details, TokenDetails(details),
           NEW f, PaidOneByOne(before, call, f, details), f[Len(details)].ok,
           NEW g, Collects(g, details), NEW token \in Tokens,
           \A m \in 1 .. Len(details) : details[m].requestAmount \in Nat
    PROVE  \E y \in Int :
               /\ Owes(g[Len(details)], token, y)
               /\ f[Len(details)].balance[token][Batch] = f[0].balance[token][Batch] - y
<1> DEFINE N == Len(details)
           Good == {n \in 0 .. N : f[n].ok =>
                        \E y \in Int :
                            /\ Owes(g[n], token, y)
                            /\ f[n].balance[token][Batch] = f[0].balance[token][Batch] - y}
<1>1. N \in Nat
  BY DEF TokenDetails, IsDetails, IsSequence
<1>2. \A n \in 0 .. N : f[n].balance[token][Batch] \in Nat
  BY HubHoldings DEF PaidOneByOne, Assets
<1>3. 0 \in Good
  <2> DEFINE none == 0
  <2>1. none \in Int /\ Owes(g[0], token, none)
        /\ f[0].balance[token][Batch] = f[0].balance[token][Batch] - none
    BY <1>1, <1>2 DEF Collects
  <2> HIDE DEF none
  <2> QED
    BY <1>1, <2>1
<1>4. ASSUME NEW n \in 1 .. N, n - 1 \in Good PROVE n \in Good
  <2> DEFINE rd    == details[n]
             spent == IF token = rd.path[1] THEN Cost(rd) ELSE 0
  <2>1. SUFFICES ASSUME f[n].ok
                 PROVE  \E y \in Int :
                            /\ Owes(g[n], token, y)
                            /\ f[n].balance[token][Batch] = f[0].balance[token][Batch] - y
    OBVIOUS
  <2>2. DetailPaid(call, f[n - 1], f[n], rd)
    BY DEF PaidOneByOne
  <2>3. f[n - 1].ok
    BY <2>1, <2>2 DEF DetailPaid
  <2>4. PICK y \in Int : /\ Owes(g[n - 1], token, y)
                         /\ f[n - 1].balance[token][Batch]
                                = f[0].balance[token][Batch] - y
    BY <1>4, <2>3
  <2>5. Cost(rd) \in Nat
    <3>1. IsTokenDetail(rd) /\ rd.requestAmount \in Nat
      BY DEF TokenDetails
    <3> QED
      BY <3>1 DEF IsTokenDetail, Cost
  <2>6. Owes(g[n], token, y + spent)
    BY <2>4 DEF Collects
  <2>7. f[n].balance[token][Batch] = f[n - 1].balance[token][Batch] - spent
    <3>1. CASE token = rd.path[1]
      BY <2>1, <2>2, <3>1 DEF DetailPaid
    <3>2. CASE token # rd.path[1]
      <4>1. f[n].balance[token][Batch] = f[n - 1].balance[token][Batch]
        BY <2>1, <2>2, <3>2 DEF DetailPaid
      <4>2. f[n - 1].balance[token][Batch] \in Nat
        BY <1>1, <1>2
      <4> QED
        BY <3>2, <4>1, <4>2
    <3> QED
      BY <3>1, <3>2
  <2>8. spent \in Nat
    BY <2>5
  <2> HIDE DEF spent
  <2>9. f[0].balance[token][Batch] \in Nat
    BY <1>1, <1>2
  <2>10. y + spent \in Int
         /\ f[n].balance[token][Batch] = f[0].balance[token][Batch] - (y + spent)
    BY <2>4, <2>7, <2>8, <2>9
  <2> QED
    BY <2>6, <2>10
<1> HIDE DEF Good, N
<1>5. \A n \in 0 .. N : n \in Good
  BY <1>1, <1>3, <1>4, Receipts!StepByStep
<1> QED
  BY <1>1, <1>5 DEF Good, N

LEMMA OwesOnce ==
    ASSUME NEW uTokens, NEW token, NEW x, NEW y,
           Owes(uTokens, token, x), Owes(uTokens, token, y)
    PROVE  x = y
BY DEF Owes, OwesFirst

LEMMA MultiTokenGroup ==
    ASSUME NEW before, NEW call, IsCall(call), NEW w, BatchSound(before, call, w),
           w.ok => NoTokens(w), NEW details, TokenDetails(details), Len(details) >= 1, NEW after,
           after = BatchMultiERC20Payments(call, w, details)
    PROVE  TokenGroup(before, call, w, after)
<1> DEFINE uTokens == GetUTokens(details)
           funded  == Funds!Fold(call, 0, w, uTokens)
           N       == Len(details)
<1>1. after = PayDetails(call, funded, details)
  BY MultiPaymentsAre
<1>2. IsSlots(uTokens)
  <2>1. AllTokens(details)
    BY TokenDetailIs DEF TokenDetails, IsDetails, AllTokens
  <2> QED
    BY <2>1, UTokensAre
<1>3. /\ BatchSound(before, call, funded)
      /\ funded.ok => /\ w.ok /\ NativeHeld(w, funded)
                      /\ Len(uTokens) >= 1 => call.feeAddress # None
                      /\ Tidy(uTokens) /\ NoTokens(w) =>
                             \A t \in Tokens : Owes(uTokens, t, funded.balance[t][Batch])
  <2> HIDE DEF uTokens
  <2> QED
    BY <1>2, PaymentsFunded
<1> HIDE DEF uTokens, funded
<1>4. PICK f : /\ f[0] = funded /\ after = f[N]
               /\ PaidOneByOne(before, call, f, details)
  BY <1>1, <1>3, DetailsPaid
<1>5. BatchSound(before, call, after)
  <2>1. N \in Nat
    BY DEF TokenDetails, IsDetails, IsSequence
  <2> QED
    BY <1>4, <2>1 DEF PaidOneByOne
<1>6. ASSUME after.ok
      PROVE  w.ok /\ NativeHeld(w, after) /\ NoTokens(after)
  <2>1. /\ funded.ok /\ NativeHeld(funded, after)
        /\ \A m \in 1 .. N : details[m].requestAmount \in Nat
    BY <1>4, <1>6, AmountsAreNatural
  <2>2. PICK g : /\ Collects(g, details) /\ uTokens = g[N]
                 /\ Tidy(uTokens) /\ Len(uTokens) >= 1
    BY <2>1, TokensCollected DEF uTokens
  <2>3. call.feeAddress # None
    BY <1>3, <2>1, <2>2
  <2>4. ASSUME NEW t \in Tokens PROVE after.balance[t][Batch] = 0
    <3>1. PICK y \in Int : /\ Owes(uTokens, t, y)
                           /\ after.balance[t][Batch] = funded.balance[t][Batch] - y
      BY <1>4, <1>6, <2>1, <2>2, <2>3, SpentAsCollected
    <3>2. Owes(uTokens, t, funded.balance[t][Batch])
      BY <1>3, <2>1, <2>2
    <3>3. funded.balance[t][Batch] = y
      BY <3>1, <3>2, OwesOnce
    <3> QED
      BY <3>1, <3>3
  <2> QED
    BY <1>3, <2>1, <2>4 DEF NativeHeld, NoTokens, NothingOf
<1> QED
  BY <1>5, <1>6 DEF TokenGroup

(* Payments of one token: the contract is funded with their sum.           *)
OneTokenDetails(details) ==
    /\ TokenDetails(details) /\ Len(details) >= 1
    /\ \A i \in 1 .. Len(details) : details[i].path[1] = details[1].path[1]

Sums(details, s, e) ==
    /\ s[0] = 0 /\ e[0] = 0
    /\ \A n \in 1 .. Len(details) : /\ s[n] = s[n - 1] + details[n].requestAmount
                                    /\ e[n] = e[n - 1] + details[n].feeAmount

LEMMA SumTraces ==
    ASSUME NEW details, IsSequence(details)
    PROVE  \E s, e : /\ Sums(details, s, e)
                     /\ Total(RequestAmounts(details)) = s[Len(details)]
                     /\ Total(FeesIn(details)) = e[Len(details)]
<1> DEFINE amounts == RequestAmounts(details)
           fees    == FeesIn(details)
           N       == Len(details)
<1>1. PICK S : details \in Seq(S)
  BY DEF IsSequence
<1>2. N \in Nat /\ DOMAIN details = 1 .. N
  BY <1>1
<1>3. amounts = [i \in 1 .. N |-> details[i].requestAmount]
      /\ fees = [i \in 1 .. N |-> details[i].feeAmount]
  BY <1>2 DEF RequestAmounts, FeesIn
<1> DEFINE T == {details[i].requestAmount : i \in 1 .. N} \cup {details[i].feeAmount : i \in 1 .. N}
<1>4. amounts \in [1 .. N -> T] /\ fees \in [1 .. N -> T]
  BY <1>3
<1> HIDE DEF amounts, fees, T
<1>5. amounts \in Seq(T) /\ fees \in Seq(T) /\ Len(amounts) = N /\ Len(fees) = N
  BY <1>2, <1>4
<1>6. PICK s : /\ s[0] = 0 /\ Total(amounts) = s[N]
               /\ \A n \in 1 .. N : s[n] = s[n - 1] + amounts[n]
  <2>1. IsSequence(amounts)
    BY <1>5 DEF IsSequence
  <2> QED
    BY <1>5, <2>1, TotalTrace
<1>7. PICK e : /\ e[0] = 0 /\ Total(fees) = e[N]
               /\ \A n \in 1 .. N : e[n] = e[n - 1] + fees[n]
  <2>1. IsSequence(fees)
    BY <1>5 DEF IsSequence
  <2> QED
    BY <1>5, <2>1, TotalTrace
<1>8. Sums(details, s, e)
  BY <1>3, <1>6, <1>7 DEF Sums
<1> QED
  BY <1>6, <1>7, <1>8 DEF amounts, fees

Spends(w, after, token, cost) ==
    /\ after.balance[token][Batch] = w.balance[token][Batch] - cost
    /\ \A t \in Tokens : t # token => after.balance[t][Batch] = w.balance[t][Batch]

LEMMA SpentOfOne ==
    ASSUME NEW before, NEW call, call.feeAddress # None, NEW details,
           OneTokenDetails(details), NEW f, PaidOneByOne(before, call, f, details),
           f[Len(details)].ok, NEW token, token = details[1].path[1],
           \A m \in 1 .. Len(details) : details[m].requestAmount \in Nat,
           NEW s, NEW e, Sums(details, s, e)
    PROVE  /\ s[Len(details)] \in Nat /\ e[Len(details)] \in Nat
           /\ Spends(f[0], f[Len(details)], token, s[Len(details)] + e[Len(details)])
<1> DEFINE N == Len(details)
           Good == {n \in 0 .. N : f[n].ok =>
                        /\ s[n] \in Nat /\ e[n] \in Nat
                        /\ f[n].balance[token][Batch]
                               = f[0].balance[token][Batch] - (s[n] + e[n])
                        /\ \A t \in Tokens : t # token =>
                               f[n].balance[t][Batch] = f[0].balance[t][Batch]}
<1>1. N \in Nat /\ N >= 1
  BY DEF OneTokenDetails, TokenDetails, IsDetails, IsSequence
<1>2. token \in Tokens
  BY <1>1 DEF OneTokenDetails, TokenDetails, IsTokenDetail
<1>3. \A n \in 0 .. N : f[n].balance[token][Batch] \in Nat
  <2>1. \A n \in 0 .. N : BatchSound(before, call, f[n])
    BY DEF PaidOneByOne
  <2> QED
    BY <1>2, <2>1, HubHoldings DEF Assets
<1>4. 0 \in Good
  BY <1>1, <1>3 DEF Sums
<1>5. ASSUME NEW n \in 1 .. N, n - 1 \in Good PROVE n \in Good
  <2> DEFINE rd == details[n]
  <2>1. SUFFICES ASSUME f[n].ok
                 PROVE  /\ s[n] \in Nat /\ e[n] \in Nat
                        /\ f[n].balance[token][Batch]
                               = f[0].balance[token][Batch] - (s[n] + e[n])
                        /\ \A t \in Tokens : t # token =>
                               f[n].balance[t][Batch] = f[0].balance[t][Batch]
    OBVIOUS
  <2>2. DetailPaid(call, f[n - 1], f[n], rd) /\ rd.path[1] = token
    BY DEF PaidOneByOne, OneTokenDetails
  <2>3. f[n - 1].ok
    BY <2>1, <2>2 DEF DetailPaid
  <2>4. /\ s[n - 1] \in Nat /\ e[n - 1] \in Nat
        /\ f[n - 1].balance[token][Batch]
               = f[0].balance[token][Batch] - (s[n - 1] + e[n - 1])
        /\ \A t \in Tokens : t # token =>
               f[n - 1].balance[t][Batch] = f[0].balance[t][Batch]
    BY <1>5, <2>3
  <2>5. rd.requestAmount \in Nat /\ rd.feeAmount \in Nat
    BY DEF OneTokenDetails, TokenDetails, IsTokenDetail
  <2>6. s[n] = s[n - 1] + rd.requestAmount /\ e[n] = e[n - 1] + rd.feeAmount
    BY DEF Sums
  <2>7. f[n].balance[token][Batch]
            = f[n - 1].balance[token][Batch] - (rd.requestAmount + rd.feeAmount)
    BY <2>1, <2>2 DEF DetailPaid, Cost
  <2>8. \A t \in Tokens : t # token => f[n].balance[t][Batch] = f[n - 1].balance[t][Batch]
    BY <2>1, <2>2 DEF DetailPaid
  <2>9. f[0].balance[token][Batch] \in Nat
    BY <1>1, <1>3
  <2> HIDE DEF rd
  <2> DEFINE was  == f[n - 1].balance[token][Batch]
             is   == f[n].balance[token][Batch]
             held == f[0].balance[token][Batch]
  <2>10. /\ held \in Nat /\ was = held - (s[n - 1] + e[n - 1])
         /\ is = was - (rd.requestAmount + rd.feeAmount)
    BY <2>4, <2>7, <2>9
  <2> HIDE DEF was, is, held
  <2>11. s[n] \in Nat /\ e[n] \in Nat
    BY <2>4, <2>5, <2>6
  <2>12. is = held - (s[n] + e[n])
    <3> DEFINE a == s[n - 1]
               b == e[n - 1]
               c == rd.requestAmount
               d == rd.feeAmount
    <3>1. /\ a \in Nat /\ b \in Nat /\ c \in Nat /\ d \in Nat
          /\ s[n] = a + c /\ e[n] = b + d
          /\ held \in Nat /\ was = held - (a + b) /\ is = was - (c + d)
      BY <2>4, <2>5, <2>6, <2>10
    <3> HIDE DEF a, b, c, d
    <3>2. held - ((a + c) + (b + d)) = (held - (a + b)) - (c + d)
      BY <3>1
    <3> QED
      BY <3>1, <3>2
  <2> QED
    BY <2>4, <2>8, <2>11, <2>12 DEF is, held
<1> HIDE DEF Good, N
<1>6. \A n \in 0 .. N : n \in Good
  BY <1>1, <1>4, <1>5, Receipts!StepByStep
<1> QED
  BY <1>1, <1>6 DEF Good, N, Spends

LEMMA OneTokenGroup ==
    ASSUME NEW before, NEW call, IsCall(call), NEW w, BatchSound(before, call, w),
           w.ok => NoTokens(w), NEW details, OneTokenDetails(details), NEW after,
           after = BatchERC20Payments(call, w, details)
    PROVE  TokenGroup(before, call, w, after)
<1> DEFINE token  == details[1].path[1]
           amount == Total(RequestAmounts(details)) + Total(FeesIn(details))
           toPay  == CalculateBatchFeeToPay(call.market, call.config,
                         BatchFee(call.config, Total(RequestAmounts(details))), token,
                         w.usd, call.paths)
           fee    == toPay.fee
           funded == TransferToContract(call, w, token, amount, fee)
           payer  == call.payer
           feed   == PayBatchFee(call, funded, toPay, token, payer)
           N      == Len(details)
<1>1. after = PayDetails(call, feed, details)
  BY DEF BatchERC20Payments
<1>2. N \in Nat /\ N >= 1 /\ TokenDetails(details) /\ IsSequence(details)
  BY DEF OneTokenDetails, TokenDetails, IsDetails, IsSequence
<1>3. token \in Tokens /\ token \in Assets /\ token # Native
  BY <1>2, LedgerAssumption DEF OneTokenDetails, TokenDetails, IsTokenDetail, Assets
<1>4. PICK s, e : /\ Sums(details, s, e) /\ amount = s[N] + e[N]
  BY <1>2, SumTraces
<1> HIDE DEF token, amount, toPay, fee
<1>5. HubStep(before, call, w, funded, token, amount) /\ (funded.ok => amount \in Nat)
  BY <1>3, FundStep
<1> HIDE DEF funded
<1>6. payer \in {call.payer, Batch} /\ payer # Batch
  BY BatchHub
<1> HIDE DEF payer
<1>7. BatchSound(before, call, feed) /\ FeePaid(call, funded, feed, token, payer, toPay.fee)
  BY <1>3, <1>5, <1>6, BatchFeeStep DEF HubStep
<1> HIDE DEF feed
<1>8. PICK f : /\ f[0] = feed /\ after = f[N] /\ PaidOneByOne(before, call, f, details)
  BY <1>1, <1>2, <1>7, DetailsPaid
<1>9. BatchSound(before, call, after)
  BY <1>2, <1>8 DEF PaidOneByOne
<1>10. ASSUME after.ok
       PROVE  w.ok /\ NativeHeld(w, after) /\ NoTokens(after)
  <2> DEFINE none == 0
  <2>1. /\ feed.ok /\ NativeHeld(feed, after)
        /\ \A m \in 1 .. N : details[m].requestAmount \in Nat
    BY <1>2, <1>8, <1>10, AmountsAreNatural
  <2>2. /\ funded.ok /\ call.feeAddress # None /\ HubGains(funded, feed, token, none)
    BY <1>3, <1>6, <1>7, <2>1 DEF FeePaid, FeeGain
  <2>3. w.ok /\ amount \in Int /\ HubGains(w, funded, token, amount)
    BY <1>5, <2>2 DEF HubStep
  <2>4. IsWorld(w) /\ IsWorld(funded) /\ funded.balance[token][Batch] \in Nat
    BY <1>3, <1>5, HubHoldings DEF HubStep
  <2>5. none \in Int
    OBVIOUS
  <2> HIDE DEF none
  <2>6. /\ NativeHeld(w, funded)
        /\ funded.balance[token][Batch] = w.balance[token][Batch] + amount
        /\ \A t \in Tokens : t # token => funded.balance[t][Batch] = w.balance[t][Batch]
    <3>1. TokenGains(w, funded, token, amount)
      BY <1>3, <2>3, <2>4, TokenGain
    <3> QED
      BY <3>1 DEF TokenGains
  <2>7. /\ NativeHeld(funded, feed)
        /\ feed.balance[token][Batch] = funded.balance[token][Batch] + none
        /\ \A t \in Tokens : t # token => feed.balance[t][Batch] = funded.balance[t][Batch]
    <3>1. TokenGains(funded, feed, token, none)
      BY <1>3, <2>2, <2>4, <2>5, TokenGain
    <3> QED
      BY <3>1 DEF TokenGains
  <2>8. /\ s[N] \in Nat /\ e[N] \in Nat
        /\ after.balance[token][Batch] = feed.balance[token][Batch] - (s[N] + e[N])
        /\ \A t \in Tokens : t # token => after.balance[t][Batch] = feed.balance[t][Batch]
    <3>1. token = details[1].path[1]
      BY DEF token
    <3>2. f[N].ok
      BY <1>8, <1>10
    <3>3. s[N] \in Nat /\ e[N] \in Nat /\ Spends(f[0], f[N], token, s[N] + e[N])
      BY <1>4, <1>8, <2>1, <2>2, <3>1, <3>2, SpentOfOne
    <3>4. Spends(feed, after, token, s[N] + e[N])
      BY <1>8, <3>3
    <3> QED
      BY <3>3, <3>4 DEF Spends
  <2>9. w.balance[token][Batch] = 0 /\ \A t \in Tokens : w.balance[t][Batch] = 0
    BY <1>3, <2>3 DEF NoTokens, NothingOf
  <2>10. after.balance[token][Batch] = 0
    BY <1>4, <2>4, <2>6, <2>7, <2>8, <2>9 DEF none
  <2>11. \A t \in Tokens : after.balance[t][Batch] = 0
    BY <2>6, <2>7, <2>8, <2>9, <2>10
  <2> QED
    BY <2>1, <2>3, <2>6, <2>7, <2>11 DEF NativeHeld, NoTokens, NothingOf
<1> QED
  BY <1>9, <1>10 DEF TokenGroup

-----------------------------------------------------------------------------
(***************************************************************************)
(* batchPayments as a whole.                                               *)
(***************************************************************************)
IsGroup(group) ==
    LET id      == group.paymentNetworkId
        details == group.requestDetails
    IN  /\ id \in {0, 1, 2, 3, 4} /\ IsDetails(details)
        /\ id = 0 => AllTokens(details)
        /\ id = 1 => OneTokenDetails(details)
        /\ id = 2 => TokenDetails(details) /\ Len(details) >= 1

OnlyTokens(call, n) ==
    \A k \in 1 .. n : call.groups[k].paymentNetworkId \in {0, 1, 2}

GivesBack(call, id) == id = 4 \/ (id = 3 /\ Last(call.groups).paymentNetworkId # 4)

(* What a group does to what the contract holds.                           *)
GroupDone(before, call, w, after, id) ==
    /\ BatchSound(before, call, after)
    /\ after.ok => /\ w.ok /\ NoTokens(after)
                   /\ id \in {0, 1, 2} => NativeHeld(w, after)
                   /\ GivesBack(call, id) => NothingOf(after, Native)

LEMMA FromTokenGroup ==
    ASSUME NEW before, NEW call, NEW w, w.ok => NoTokens(w), NEW after, NEW id \in {0, 1, 2},
           TokenGroup(before, call, w, after)
    PROVE  GroupDone(before, call, w, after, id)
BY DEF TokenGroup, GroupDone, GivesBack

LEMMA GroupStep ==
    ASSUME NEW before, NEW call, IsCall(call), NEW w, BatchSound(before, call, w),
           w.ok => NoTokens(w), NEW group, IsGroup(group), NEW after,
           after = PayGroup(call, w, group)
    PROVE  /\ GroupDone(before, call, w, after, group.paymentNetworkId)
           /\ after.ok => RatesChecked(call, group)
<1> DEFINE id      == group.paymentNetworkId
           details == group.requestDetails
           last    == Last(call.groups).paymentNetworkId # 4
           back    == [w EXCEPT !.transferBack = last]
           native  == BatchNativePayments(call, back, details)
           again   == [native EXCEPT !.transferBack = TRUE]
<1>1. id \in {0, 1, 2, 3, 4} /\ IsDetails(details)
  BY DEF IsGroup
<1>2. CASE id = 0
  <2>1. after = BatchMultiERC20ConversionPayments(call, w, details)
    BY <1>2 DEF PayGroup
  <2>2. TokenGroup(before, call, w, after) /\ (after.ok => AllChecked(call, details))
    BY <1>1, <1>2, <2>1, ConversionGroup DEF IsGroup
  <2> QED
    BY <1>2, <2>2, FromTokenGroup DEF RatesChecked
<1>3. CASE id = 1
  <2>1. after = BatchERC20Payments(call, w, details)
    BY <1>3 DEF PayGroup
  <2>2. TokenGroup(before, call, w, after)
    BY <1>3, <2>1, OneTokenGroup DEF IsGroup
  <2> QED
    BY <1>3, <2>2, FromTokenGroup DEF RatesChecked
<1>4. CASE id = 2
  <2>1. after = BatchMultiERC20Payments(call, w, details)
    BY <1>4 DEF PayGroup
  <2>2. TokenGroup(before, call, w, after)
    BY <1>4, <2>1, MultiTokenGroup DEF IsGroup
  <2> QED
    BY <1>4, <2>2, FromTokenGroup DEF RatesChecked
<1>5. CASE id = 3
  <2>1. after = again
    BY <1>5 DEF PayGroup
  <2>2. /\ BatchSound(before, call, back) /\ SameHoldings(w, back)
        /\ back.transferBack = last
    <3>1. BatchSound(before, call, back) /\ SameHoldings(w, back)
      <4> HIDE DEF last
      <4> QED
        BY FlagStep
    <3>2. IsWorld(w)
      BY DEF BatchSound, Sound
    <3> QED
      BY <3>1, <3>2 DEF IsWorld
  <2> HIDE DEF back
  <2>3. /\ BatchSound(before, call, native) /\ NativeKeeps(back, native)
        /\ native.ok /\ back.transferBack => NothingOf(native, Native)
    BY <1>1, <2>2, NativeGroup
  <2> HIDE DEF native
  <2>4. BatchSound(before, call, again) /\ SameHoldings(native, again)
    BY <2>3, FlagStep
  <2> HIDE DEF again
  <2>5. again.ok => /\ w.ok /\ NoTokens(again)
                    /\ last => NothingOf(again, Native)
    BY <2>2, <2>3, <2>4
       DEF NativeKeeps, TokensHeld, SameHoldings, NoTokens, NothingOf
  <2> QED
    BY <1>5, <2>1, <2>4, <2>5 DEF GroupDone, GivesBack, RatesChecked
<1>6. CASE id = 4
  <2>1. after = BatchNativeConversionPayments(call, w, details)
    BY <1>6 DEF PayGroup
  <2>2. /\ BatchSound(before, call, after) /\ NativeKeeps(w, after)
        /\ after.ok => NothingOf(after, Native) /\ AllChecked(call, details)
    BY <1>1, <2>1, NativeConversionGroup
  <2>3. after.ok => NoTokens(after) /\ w.ok
    BY <2>2 DEF NativeKeeps, TokensHeld, NoTokens, NothingOf
  <2> QED
    BY <1>6, <2>2, <2>3 DEF GroupDone, GivesBack, RatesChecked
<1> QED
  BY <1>1, <1>2, <1>3, <1>4, <1>5, <1>6

LEMMA GroupAndCount ==
    ASSUME NEW before, NEW call, IsCall(call), NEW w, BatchSound(before, call, w),
           w.ok => NoTokens(w), NEW group, IsGroup(group), NEW after,
           after = PayAndCount(call, w, group)
    PROVE  /\ GroupDone(before, call, w, after, group.paymentNetworkId)
           /\ after.ok => RatesChecked(call, group)
<1> DEFINE id    == group.paymentNetworkId
           payed == PayGroup(call, w, group)
           usd   == w.usd + payed.usd
<1>1. after = [payed EXCEPT !.usd = usd]
  BY DEF PayAndCount
<1>2. GroupDone(before, call, w, payed, id) /\ (payed.ok => RatesChecked(call, group))
  BY GroupStep
<1> HIDE DEF payed, usd, id
<1>3. BatchSound(before, call, after) /\ SameHoldings(payed, after)
  BY <1>1, <1>2, FlagStep DEF GroupDone
<1>4. GroupDone(before, call, w, after, id)
  BY <1>2, <1>3 DEF GroupDone, SameHoldings, NoTokens, NothingOf, NativeHeld
<1> QED
  BY <1>2, <1>3, <1>4 DEF id, SameHoldings

(***************************************************************************)
(* Value comes with groups that give back what is left of it: the last one *)
(* does, or nothing is sent and no group is in the native token.           *)
(***************************************************************************)
ValueReturns(call, value) ==
    \/ /\ Len(call.groups) >= 1
       /\ Last(call.groups).paymentNetworkId \in {3, 4}
    \/ value = 0 /\ OnlyTokens(call, Len(call.groups))

(***************************************************************************)
(* BatchConversionPayments.batchPayments, if it does not revert: whoever is*)
(* not the payer receives what the events and the batch fees say, the      *)
(* contract is left with nothing, and every payment with conversion was    *)
(* made at rates no older than its detail asks for.                        *)
(***************************************************************************)
THEOREM BatchKeepsNothing ==
    ASSUME NEW before \in Balances, \A a \in Assets : before[a][Batch] = 0,
           NEW call, IsCall(call), IsSequence(call.groups),
           \A n \in 1 .. Len(call.groups) : IsGroup(call.groups[n]),
           NEW value, ValueReturns(call, value), NEW after,
           after = CallBatchPayments(call, World(before), value)
    PROVE  /\ Sound(before, call.payer, Batch, after)
           /\ after.ok => /\ \A a \in Assets : after.balance[a][Batch] = 0
                          /\ \A n \in 1 .. Len(call.groups) : RatesChecked(call, call.groups[n])
<1> DEFINE N       == Len(call.groups)
           start   == World(before)
           few     == N < 6
           checked == Require(start, few)
           first   == Credit(checked, Native, call.payer, Batch, value)
<1>1. PICK f : /\ f[0] = first /\ after = f[N]
               /\ \A n \in 1 .. N : f[n] = PayAndCount(call, f[n - 1], call.groups[n])
  <2> DEFINE w == World(before)
  <2> HIDE DEF w
  <2>1. \E f : /\ f[0] = Credit(Require(w, few), Native, call.payer, Batch, value)
               /\ CallBatchPayments(call, w, value) = f[N]
               /\ \A n \in 1 .. N : f[n] = PayAndCount(call, f[n - 1], call.groups[n])
    BY GroupsTrace
  <2> QED
    BY <2>1 DEF w
<1>2. N \in Nat
  BY DEF IsSequence
<1>3. Sound(before, call.payer, Batch, start) /\ start.balance = before
  BY SoundStart DEF World
<1> HIDE DEF start, few
<1>4. Sound(before, call.payer, Batch, checked) /\ checked.balance = before
  <2>1. Sound(before, call.payer, Batch, checked)
    BY <1>3, SoundRequire
  <2>2. checked.balance = start.balance
    BY <1>3 DEF Require, Sound, IsWorld
  <2> QED
    BY <1>3, <2>1, <2>2
<1> HIDE DEF checked
<1>5. BatchSound(before, call, first)
  <2>1. Native \in Assets
    BY DEF Assets
  <2> QED
    BY <1>4, <2>1, BatchHub, SoundCredit DEF BatchSound
<1>6. first.ok => NoTokens(first) /\ (value = 0 => NothingOf(first, Native))
  <2>1. IsWorld(checked) /\ Native \in Assets /\ \A t \in Tokens : t \in Assets /\ t # Native
    BY <1>4, LedgerAssumption DEF Assets, Sound
  <2> DEFINE from == call.payer
             to   == Batch
  <2>2. from \in Holders /\ to \in Holders /\ from # to
    BY BatchHub
  <2>3. first = Credit(checked, Native, from, to, value)
    OBVIOUS
  <2> HIDE DEF from, to, first
  <2>4. first.ok => value \in Nat /\ Moved(checked, first, Native, from, to, value)
    BY <2>1, <2>2, <2>3, CreditWorld
  <2>5. first.ok => HubGains(checked, first, Native, Gain(Batch, from, to, value))
    BY <2>1, <2>4, HubMoved
  <2>6. first.ok => Gain(Batch, from, to, value) = value
    BY <2>2, <2>4 DEF Gain, to
  <2> QED
    BY <1>4, <2>1, <2>4, <2>5, <2>6 DEF HubGains, NoTokens, NothingOf
<1> HIDE DEF first
<1> DEFINE Good == {n \in 0 .. N :
                        /\ f[n].ok => \A k \in 1 .. n : RatesChecked(call, call.groups[k])
                        /\ f[n].ok => NoTokens(f[n])
                        /\ BatchSound(before, call, f[n])
                        /\ value = 0 /\ f[n].ok /\ OnlyTokens(call, n)
                               => NothingOf(f[n], Native)
                        /\ n >= 1 /\ f[n].ok
                           /\ GivesBack(call, call.groups[n].paymentNetworkId)
                               => NothingOf(f[n], Native)}
<1>7. 0 \in Good
  BY <1>1, <1>2, <1>5, <1>6
<1>8. ASSUME NEW n \in 1 .. N, n - 1 \in Good PROVE n \in Good
  <2> DEFINE group == call.groups[n]
             id    == group.paymentNetworkId
  <2>1. IsGroup(group) /\ f[n] = PayAndCount(call, f[n - 1], group)
    BY <1>1
  <2>2. BatchSound(before, call, f[n - 1])
    BY <1>8
  <2>3. f[n - 1].ok => NoTokens(f[n - 1])
    BY <1>8
  <2>4. /\ GroupDone(before, call, f[n - 1], f[n], id)
        /\ f[n].ok => RatesChecked(call, group)
    <3> HIDE DEF group
    <3> QED
      BY <2>1, <2>2, <2>3, GroupAndCount
  <2>5. /\ BatchSound(before, call, f[n])
        /\ f[n].ok => NoTokens(f[n])
        /\ f[n].ok /\ GivesBack(call, id) => NothingOf(f[n], Native)
    BY <2>4 DEF GroupDone
  <2>6. ASSUME value = 0, f[n].ok, OnlyTokens(call, n)
        PROVE  NothingOf(f[n], Native)
    <3>1. id \in {0, 1, 2} /\ OnlyTokens(call, n - 1)
      BY <1>2, <2>6 DEF OnlyTokens
    <3>2. f[n - 1].ok /\ NativeHeld(f[n - 1], f[n])
      BY <2>4, <2>6, <3>1 DEF GroupDone
    <3>3. NothingOf(f[n - 1], Native)
      BY <1>8, <2>6, <3>1, <3>2
    <3> QED
      BY <3>2, <3>3 DEF NativeHeld, NothingOf
  <2>7. \A k \in 1 .. n : k = n \/ k \in 1 .. n - 1
    BY <1>2
  <2>8. f[n].ok => f[n - 1].ok
    BY <2>4 DEF GroupDone
  <2>9. f[n].ok => \A k \in 1 .. n : RatesChecked(call, call.groups[k])
    BY <1>8, <2>4, <2>7, <2>8
  <2> QED
    BY <2>5, <2>6, <2>9
<1> HIDE DEF Good, N
<1>9. \A n \in 0 .. N : n \in Good
  BY <1>2, <1>7, <1>8, Receipts!StepByStep
<1>10. N \in Good
  BY <1>2, <1>9
<1>11. ASSUME after.ok PROVE NothingOf(after, Native)
  <2>1. CASE N >= 1 /\ Last(call.groups).paymentNetworkId \in {3, 4}
    <3>1. GivesBack(call, call.groups[N].paymentNetworkId)
      BY <2>1 DEF GivesBack, Last, N
    <3> QED
      BY <1>1, <1>10, <1>11, <2>1, <3>1 DEF Good
  <2>2. CASE value = 0 /\ OnlyTokens(call, N)
    BY <1>1, <1>10, <1>11, <2>2 DEF Good
  <2> QED
    BY <2>1, <2>2 DEF ValueReturns, N
<1>12. BatchSound(before, call, after) /\ (after.ok => NoTokens(after))
  BY <1>1, <1>10 DEF Good
<1>13. after.ok => \A a \in Assets : after.balance[a][Batch] = 0
  BY <1>11, <1>12 DEF NoTokens, NothingOf, Assets
<1>14. after.ok => \A n \in 1 .. Len(call.groups) : RatesChecked(call, call.groups[n])
  BY <1>1, <1>10 DEF Good, N
<1> QED
  BY <1>12, <1>13, <1>14 DEF BatchSound

-----------------------------------------------------------------------------
(***************************************************************************)
(* The batches that the payment processor prepares.                        *)
(***************************************************************************)
MemberLoop(n, q, kept, r) == IF BatchId(r) = n THEN Append(kept, r) ELSE kept
GroupsLoop(ids, views, groups, n) ==
    IF Members(ids, n) = << >> THEN groups
    ELSE Append(groups, Group(ids, views.balances, views.max, n))
ValueLoop(balances, maxToSpend, sum, r) ==
    IF ~IsNative(r) THEN sum
    ELSE sum + (IF request[r].pn = AnyToEth THEN maxToSpend
                ELSE GetAmountToPay(r, balances[r]))

MembersKept == INSTANCE SequenceFolds WITH Op <- MemberLoop
GroupsMade  == INSTANCE SequenceFolds WITH Op <- GroupsLoop
ValuesAdded == INSTANCE SequenceFolds WITH Op <- ValueLoop

(* The members of a group are the requests of the batch with its number.   *)
OfNumber(n) == {r \in Requests : BatchId(r) = n}

Holds(seq, e) == \E i \in 1 .. Len(seq) : seq[i] = e

LEMMA HoldsMore ==
    ASSUME NEW S, NEW seq \in Seq(S), NEW e \in S
    PROVE  /\ Append(seq, e) \in Seq(S) /\ Append(seq, e) # << >>
           /\ Holds(Append(seq, e), e)
           /\ \A x : Holds(seq, x) => Holds(Append(seq, e), x)
<1> DEFINE more == Append(seq, e)
           N    == Len(seq)
<1>1. /\ more \in Seq(S) /\ Len(more) = N + 1 /\ N \in Nat /\ more[N + 1] = e
      /\ \A i \in 1 .. N : more[i] = seq[i]
  BY AppendProperties
<1>2. more # << >>
  BY <1>1, EmptySeq
<1> HIDE DEF more
<1>3. Holds(more, e) /\ \A x : Holds(seq, x) => Holds(more, x)
  BY <1>1 DEF Holds
<1> QED
  BY <1>1, <1>2, <1>3 DEF more

LEMMA MembersAre ==
    ASSUME NEW ids \in Seq(Requests), NEW n
    PROVE  /\ Members(ids, n) \in Seq(OfNumber(n))
           /\ Members(ids, n) = << >> => \A k \in 1 .. Len(ids) : BatchId(ids[k]) # n
           /\ \A k \in 1 .. Len(ids) :
                  BatchId(ids[k]) = n => Holds(Members(ids, n), ids[k])
<1> DEFINE N    == Len(ids)
           M    == OfNumber(n)
           none == << >>
<1>1. Members(ids, n) = MembersKept!Fold(n, 0, none, ids)
  BY DEF Members, MemberLoop, MembersKept!Fold, FoldLeft, MembersKept!FoldLeft,
         MapThenFoldSet, MembersKept!MapThenFoldSet, Max, MembersKept!Max
<1>2. PICK f : /\ MembersKept!IsTrace(n, 0, f, none, ids)
               /\ MembersKept!Fold(n, 0, none, ids) = f[N]
  BY MembersKept!FoldTrace
<1>3. /\ f[0] = none
      /\ \A k \in 1 .. N : f[k] = IF BatchId(ids[k]) = n THEN Append(f[k - 1], ids[k])
                                                         ELSE f[k - 1]
  BY <1>2 DEF MembersKept!IsTrace, MemberLoop
<1>4. N \in Nat /\ \A k \in 1 .. N : ids[k] \in Requests
  OBVIOUS
<1> DEFINE Good == {j \in 0 .. N : /\ f[j] \in Seq(M)
                                   /\ f[j] = none => \A k \in 1 .. j : BatchId(ids[k]) # n
                                   /\ \A k \in 1 .. j :
                                          BatchId(ids[k]) = n => Holds(f[j], ids[k])}
<1>5. 0 \in Good
  <2> HIDE DEF M
  <2>1. none \in Seq(M)
    OBVIOUS
  <2> HIDE DEF none
  <2>2. \A k \in 1 .. 0 : BatchId(ids[k]) # n
    OBVIOUS
  <2> QED
    BY <1>3, <1>4, <2>1, <2>2
<1>6. ASSUME NEW j \in 1 .. N, j - 1 \in Good PROVE j \in Good
  <2>1. \A k \in 1 .. j : k = j \/ k \in 1 .. j - 1
    BY <1>4
  <2>2. CASE BatchId(ids[j]) = n
    <3>1. f[j] = Append(f[j - 1], ids[j])
      BY <1>3, <2>2
    <3>2. ids[j] \in M
      BY <1>4, <2>2 DEF OfNumber
    <3>3. f[j - 1] \in Seq(M)
      BY <1>6
    <3> DEFINE g == f[j - 1]
               e == ids[j]
    <3> HIDE DEF g, e, M, none
    <3>4. /\ Append(g, e) \in Seq(M) /\ Append(g, e) # none /\ Holds(Append(g, e), e)
          /\ \A x : Holds(g, x) => Holds(Append(g, e), x)
      BY <3>2, <3>3, HoldsMore DEF g, e, none
    <3>5. /\ f[j] \in Seq(M) /\ f[j] # none /\ Holds(f[j], ids[j])
          /\ \A x : Holds(f[j - 1], x) => Holds(f[j], x)
      BY <3>1, <3>4 DEF g, e
    <3>6. \A k \in 1 .. j : BatchId(ids[k]) = n => Holds(f[j], ids[k])
      BY <1>6, <2>1, <3>5
    <3> QED
      BY <1>4, <3>5, <3>6
  <2>3. CASE BatchId(ids[j]) # n
    <3>1. f[j] = f[j - 1]
      BY <1>3, <2>3
    <3> QED
      BY <1>6, <2>1, <2>3, <3>1
  <2> QED
    BY <2>2, <2>3
<1> HIDE DEF Good, N
<1>7. \A j \in 0 .. N : j \in Good
  BY <1>4, <1>5, <1>6, MembersKept!StepByStep
<1>8. N \in Good
  BY <1>4, <1>7
<1> QED
  BY <1>1, <1>2, <1>8 DEF Good, N

(* What a request becomes in a batch.                                      *)
LEMMA RequestDetailIs ==
    ASSUME NEW r \in Requests, NEW view, CanPay(r, view), NEW max,
           NEW rd, rd = RequestDetail(r, view, max)
    PROVE  /\ IsDetail(rd)
           /\ BatchId(r) = 0 => Token(rd) \in Tokens
           /\ BatchId(r) = 2 => IsTokenDetail(rd)
<1> DEFINE rq == request[r]
<1>1. /\ rq.pn \in {Erc20Fee, EthFee, AnyToErc20, AnyToEth, Transferable}
      /\ rq.paymentAddress \in Users /\ FeeToPay(r) \in Nat
      /\ rq.acceptedTokens \subseteq Tokens
      /\ rq.pn \in {Erc20Fee, Transferable} =>
             rq.currency \in Tokens /\ rq.path = << rq.currency >>
  BY RequestAssumption DEF Requests, FeeToPay
<1>2. /\ rd.recipient = rq.paymentAddress /\ rd.path = rq.path
      /\ ~Converts(rq) => /\ rd.requestAmount = GetAmountToPay(r, view)
                          /\ rd.feeAmount = FeeToPay(r)
  BY DEF RequestDetail, Arguments
<1>3. GetAmountToPay(r, view) > 0
  BY DEF CanPay
<1>4. IsDetail(rd)
  BY <1>1, <1>2 DEF IsDetail
<1>5. BatchId(r) = 0 => rq.pn \in {AnyToErc20, Transferable}
  BY <1>1 DEF BatchId, Erc20Fee, EthFee, AnyToErc20, AnyToEth, Transferable
<1>6. BatchId(r) = 2 => rq.pn \in {Erc20Fee, Transferable}
  BY <1>1 DEF BatchId, Erc20Fee, EthFee, AnyToErc20, AnyToEth, Transferable
<1>7. rq.pn \in {Erc20Fee, Transferable} => ~Converts(rq)
  BY DEF Converts, Erc20Fee, EthFee, AnyToErc20, AnyToEth, Transferable
<1>8. rq.pn \in {Erc20Fee, Transferable} => IsTokenDetail(rd) /\ Token(rd) \in Tokens
  <2>1. SUFFICES ASSUME rq.pn \in {Erc20Fee, Transferable}
                 PROVE  IsTokenDetail(rd) /\ Token(rd) \in Tokens
    OBVIOUS
  <2> DEFINE token == rq.currency
  <2>2. rd.path = << token >> /\ token \in Tokens
    BY <1>1, <1>2, <2>1
  <2> HIDE DEF token
  <2>3. rd.path = << rd.path[1] >> /\ rd.path[1] \in Tokens /\ Last(rd.path) \in Tokens
    BY <2>2 DEF Last
  <2> QED
    BY <1>1, <1>2, <1>3, <1>7, <2>1, <2>3 DEF IsTokenDetail, Token
<1>9. rq.pn = AnyToErc20 => Token(rd) \in Tokens
  BY <1>1, <1>2 DEF CanPay, Token
<1> QED
  BY <1>4, <1>5, <1>6, <1>8, <1>9

(* The requests that a payer may put in a batch.                           *)
MayBatch(ids, balances) ==
    /\ ids \in Seq(Requests) /\ ids # << >>
    /\ \A i \in 1 .. Len(ids) : CanPay(ids[i], balances[ids[i]])

LEMMA MembersFrom ==
    ASSUME NEW ids \in Seq(Requests), NEW n
    PROVE  Members(ids, n) \in Seq({ids[k] : k \in 1 .. Len(ids)})
<1> DEFINE S == {ids[k] : k \in 1 .. Len(ids)}
           T == Seq(S)
           none == << >>
<1>1. Members(ids, n) = MembersKept!Fold(n, 0, none, ids)
  BY DEF Members, MemberLoop, MembersKept!Fold, FoldLeft, MembersKept!FoldLeft,
         MapThenFoldSet, MembersKept!MapThenFoldSet, Max, MembersKept!Max
<1>2. \A i \in 1 .. Len(ids) : ids[i] \in S
  OBVIOUS
<1> HIDE DEF S
<1>3. none \in T /\ \A t \in T : \A i \in 1 .. Len(ids) : MemberLoop(n, 0, t, ids[i]) \in T
  BY <1>2 DEF MemberLoop
<1> HIDE DEF T, none
<1>4. MembersKept!Fold(n, 0, none, ids) \in T
  BY <1>3, MembersKept!FoldInvariant
<1> QED
  BY <1>1, <1>4 DEF T, S

(* A group asks of each of its payments with conversion for the path and   *)
(* the age of the rate that its request has.                               *)
Asks(group, rq) ==
    \E i \in 1 .. Len(group.requestDetails) :
        /\ group.requestDetails[i].path = rq.path
        /\ group.requestDetails[i].maxRateTimespan = rq.maxRateTimespan

AsksAll(ids, group) ==
    \A k \in 1 .. Len(ids) :
        BatchId(ids[k]) = group.paymentNetworkId /\ Converts(request[ids[k]])
            => Asks(group, request[ids[k]])

LEMMA GroupIs ==
    ASSUME NEW ids, NEW balances, MayBatch(ids, balances), NEW max,
           NEW n \in {0, 2, 3, 4}, Members(ids, n) # << >>, NEW group,
           group = Group(ids, balances, max, n)
    PROVE  IsGroup(group) /\ group.paymentNetworkId = n /\ AsksAll(ids, group)
<1> DEFINE members == Members(ids, n)
           N       == Len(members)
           details == [i \in DOMAIN members |-> RequestDetail(members[i], balances[members[i]], max)]
<1>1. /\ members \in Seq(OfNumber(n))
      /\ members \in Seq({ids[k] : k \in 1 .. Len(ids)})
      /\ \A r \in Requests : (\E k \in 1 .. Len(ids) : ids[k] = r) => CanPay(r, balances[r])
  BY MembersAre, MembersFrom DEF MayBatch
<1>2. group = [paymentNetworkId |-> n, requestDetails |-> details]
  BY DEF Group
<1>3. \A k \in 1 .. Len(ids) : BatchId(ids[k]) = n => Holds(members, ids[k])
  BY MembersAre DEF MayBatch
<1>4. N \in Nat /\ N >= 1 /\ DOMAIN members = 1 .. N
  BY <1>1, EmptySeq
<1>5. \A i \in 1 .. N : /\ members[i] \in Requests /\ BatchId(members[i]) = n
                        /\ CanPay(members[i], balances[members[i]])
  <2>1. \A i \in 1 .. N : /\ members[i] \in OfNumber(n)
                          /\ \E k \in 1 .. Len(ids) : ids[k] = members[i]
    <3> HIDE DEF members
    <3>1. members \in Seq(OfNumber(n))
      BY <1>1
    <3>2. members \in Seq({ids[k] : k \in 1 .. Len(ids)})
      BY <1>1
    <3> QED
      BY <3>1, <3>2
  <2> HIDE DEF members
  <2> QED
    BY <1>1, <2>1 DEF OfNumber
<1> HIDE DEF members
<1>6. details = [i \in 1 .. N |-> RequestDetail(members[i], balances[members[i]], max)]
  BY <1>4
<1> HIDE DEF details, N
<1>7. Len(details) = N /\ IsSequence(details)
  <2> DEFINE T == {RequestDetail(members[i], balances[members[i]], max) : i \in 1 .. N}
  <2>1. details \in [1 .. N -> T]
    BY <1>6
  <2> HIDE DEF T
  <2>2. details \in Seq(T) /\ Len(details) = N
    BY <1>4, <2>1
  <2> QED
    BY <2>2 DEF IsSequence
<1>8. \A i \in 1 .. N : /\ IsDetail(details[i])
                        /\ n = 0 => Token(details[i]) \in Tokens
                        /\ n = 2 => IsTokenDetail(details[i])
  <2> TAKE i \in 1 .. N
  <2>1. details[i] = RequestDetail(members[i], balances[members[i]], max)
    BY <1>6
  <2> DEFINE rd == details[i]
             r  == members[i]
  <2>2. r \in Requests /\ BatchId(r) = n /\ CanPay(r, balances[r])
    BY <1>5
  <2> HIDE DEF rd, r
  <2>3. rd = RequestDetail(r, balances[r], max)
    BY <2>1 DEF rd, r
  <2>4. /\ IsDetail(rd) /\ (BatchId(r) = 0 => Token(rd) \in Tokens)
        /\ BatchId(r) = 2 => IsTokenDetail(rd)
    BY <2>2, <2>3, RequestDetailIs
  <2> QED
    BY <2>2, <2>4 DEF rd
<1>9. IsDetails(details) /\ (n = 0 => AllTokens(details))
      /\ (n = 2 => TokenDetails(details) /\ Len(details) >= 1)
  BY <1>4, <1>7, <1>8 DEF IsDetails, AllTokens, TokenDetails
<1>10. AsksAll(ids, group)
  <2> SUFFICES ASSUME NEW k \in 1 .. Len(ids),
                      BatchId(ids[k]) = n /\ Converts(request[ids[k]])
               PROVE  Asks(group, request[ids[k]])
    BY <1>2 DEF AsksAll
  <2>1. PICK i \in 1 .. N : members[i] = ids[k]
    BY <1>3 DEF Holds, N
  <2>2. details[i] = RequestDetail(ids[k], balances[ids[k]], max)
    BY <1>6, <2>1
  <2>3. /\ details[i].path = request[ids[k]].path
        /\ details[i].maxRateTimespan = request[ids[k]].maxRateTimespan
    BY <2>2 DEF RequestDetail
  <2> QED
    BY <1>2, <1>7, <2>3 DEF Asks
<1> QED
  BY <1>2, <1>9, <1>10 DEF IsGroup

(* Groups with numbers of a set.                                           *)
GroupsOf(groups, I) ==
    IsSequence(groups) /\ \A i \in 1 .. Len(groups) : /\ IsGroup(groups[i])
                                                      /\ groups[i].paymentNetworkId \in I

Ends(groups, n) == Len(groups) >= 1 /\ Last(groups).paymentNetworkId = n

LEMMA GroupAdded ==
    ASSUME NEW groups, NEW I, GroupsOf(groups, I), NEW group, IsGroup(group)
    PROVE  /\ GroupsOf(Append(groups, group), I \cup {group.paymentNetworkId})
           /\ Ends(Append(groups, group), group.paymentNetworkId)
<1>1. PICK S : groups \in Seq(S)
  BY DEF GroupsOf, IsSequence
<1> DEFINE T    == S \cup {group}
           more == Append(groups, group)
           N    == Len(groups)
<1>2. groups \in Seq(T) /\ group \in T /\ N \in Nat
  BY <1>1
<1> HIDE DEF T
<1>3. /\ more \in Seq(T) /\ Len(more) = N + 1 /\ more[N + 1] = group
      /\ \A i \in 1 .. N : more[i] = groups[i]
  BY <1>2, AppendProperties
<1> HIDE DEF more
<1>4. \A i \in 1 .. N + 1 : i \in 1 .. N \/ i = N + 1
  BY <1>2
<1>5. GroupsOf(more, I \cup {group.paymentNetworkId})
  BY <1>3, <1>4 DEF GroupsOf, IsSequence
<1>6. Ends(more, group.paymentNetworkId)
  BY <1>2, <1>3 DEF Ends, Last
<1> QED
  BY <1>5, <1>6 DEF more

(* The group of a number, if there are requests for it.                    *)
Covered(ids, n, groups) ==
    Members(ids, n) # << >> =>
        \E j \in 1 .. Len(groups) :
            groups[j].paymentNetworkId = n /\ AsksAll(ids, groups[j])

LEMMA GroupCovered ==
    ASSUME NEW ids, NEW groups, IsSequence(groups), NEW group, AsksAll(ids, group)
    PROVE  /\ Covered(ids, group.paymentNetworkId, Append(groups, group))
           /\ \A n : Covered(ids, n, groups) => Covered(ids, n, Append(groups, group))
<1>1. PICK S : groups \in Seq(S)
  BY DEF IsSequence
<1> DEFINE T    == S \cup {group}
           more == Append(groups, group)
           N    == Len(groups)
<1>2. groups \in Seq(T) /\ group \in T /\ N \in Nat
  BY <1>1
<1> HIDE DEF T
<1>3. /\ Len(more) = N + 1 /\ more[N + 1] = group
      /\ \A i \in 1 .. N : more[i] = groups[i]
  BY <1>2, AppendProperties
<1> HIDE DEF more
<1>4. N + 1 \in 1 .. Len(more) /\ \A i \in 1 .. N : i \in 1 .. Len(more)
  BY <1>2, <1>3
<1>5. Covered(ids, group.paymentNetworkId, more)
  BY <1>3, <1>4 DEF Covered
<1>6. ASSUME NEW n, Covered(ids, n, groups) PROVE Covered(ids, n, more)
  BY <1>3, <1>4, <1>6 DEF Covered
<1> QED
  BY <1>5, <1>6 DEF more

(* The numbers of the groups so far, and the number of the last.           *)
OneMore(ids, groups, after, I, n) ==
    /\ GroupsOf(after, I \cup {n})
    /\ Covered(ids, n, after)
    /\ \A m \in {0, 2, 3, 4} : Covered(ids, m, groups) => Covered(ids, m, after)
    /\ Members(ids, n) # << >> => Ends(after, n)
    /\ Members(ids, n) = << >> => after = groups

LEMMA NextGroup ==
    ASSUME NEW ids \in Seq(Requests), NEW balances, MayBatch(ids, balances), NEW max,
           NEW n \in {0, 2, 3, 4}, NEW groups, NEW I, GroupsOf(groups, I), NEW after,
           after = IF Members(ids, n) = << >> THEN groups
                   ELSE Append(groups, Group(ids, balances, max, n))
    PROVE  OneMore(ids, groups, after, I, n)
<1>1. CASE Members(ids, n) = << >>
  <2>1. after = groups
    BY <1>1
  <2> QED
    BY <1>1, <2>1 DEF OneMore, GroupsOf, Covered
<1>2. CASE Members(ids, n) # << >>
  <2> DEFINE group == Group(ids, balances, max, n)
  <2>1. after = Append(groups, group)
    BY <1>2
  <2>2. IsGroup(group) /\ group.paymentNetworkId = n /\ AsksAll(ids, group)
    BY <1>2, GroupIs
  <2> HIDE DEF group
  <2>3. /\ GroupsOf(Append(groups, group), I \cup {n})
        /\ Ends(Append(groups, group), n)
    BY <2>2, GroupAdded
  <2>4. /\ Covered(ids, n, Append(groups, group))
        /\ \A m : Covered(ids, m, groups) => Covered(ids, m, Append(groups, group))
    BY <2>2, GroupCovered DEF GroupsOf
  <2> QED
    BY <1>2, <2>1, <2>3, <2>4 DEF OneMore
<1> QED
  BY <1>1, <1>2

LEMMA MetaDetailsAre ==
    ASSUME NEW ids, NEW balances, MayBatch(ids, balances), NEW max, NEW groups,
           groups = MetaDetails(ids, balances, max)
    PROVE  /\ GroupsOf(groups, {0, 2, 3, 4})
           /\ \/ Ends(groups, 3) \/ Ends(groups, 4)
              \/ /\ GroupsOf(groups, {0, 2})
                 /\ Members(ids, 3) = << >> /\ Members(ids, 4) = << >>
           /\ \A n \in {0, 2, 3, 4} : Covered(ids, n, groups)
<1> DEFINE none    == << >>
           numbers == << 0, 2, 3, 4 >>
           views   == [balances |-> balances, max |-> max]
<1>1. groups = GroupsMade!Fold(ids, views, none, numbers)
  BY DEF MetaDetails, GroupsLoop, GroupsMade!Fold, FoldLeft, GroupsMade!FoldLeft,
         MapThenFoldSet, GroupsMade!MapThenFoldSet, Max, GroupsMade!Max
<1>2. /\ numbers \in Seq(Nat) /\ Len(numbers) = 4
      /\ numbers[1] = 0 /\ numbers[2] = 2 /\ numbers[3] = 3 /\ numbers[4] = 4
  OBVIOUS
<1>3. views.balances = balances /\ views.max = max
  OBVIOUS
<1> HIDE DEF numbers, views
<1>4. PICK g : /\ GroupsMade!IsTrace(ids, views, g, none, numbers)
               /\ GroupsMade!Fold(ids, views, none, numbers) = g[4]
  BY <1>2, GroupsMade!FoldTrace
<1>5. /\ g[0] = none
      /\ \A k \in 1 .. 4 : g[k] = GroupsLoop(ids, views, g[k - 1], numbers[k])
  BY <1>2, <1>4 DEF GroupsMade!IsTrace
<1>6. ids \in Seq(Requests)
  BY DEF MayBatch
<1>7. ASSUME NEW k \in 1 .. 4, NEW I, GroupsOf(g[k - 1], I)
      PROVE  OneMore(ids, g[k - 1], g[k], I, numbers[k])
  <2> DEFINE old == g[k - 1]
             new == g[k]
             n   == numbers[k]
  <2>1. n \in {0, 2, 3, 4}
    BY <1>2
  <2>2. new = IF Members(ids, n) = << >> THEN old
              ELSE Append(old, Group(ids, balances, max, n))
    BY <1>3, <1>5 DEF GroupsLoop
  <2>3. GroupsOf(old, I)
    BY <1>7
  <2> HIDE DEF old, new, n
  <2>4. OneMore(ids, old, new, I, n)
    BY <1>6, <2>1, <2>2, <2>3, NextGroup
  <2> QED
    BY <2>4 DEF old, new, n
<1>8. GroupsOf(g[0], {})
  <2> DEFINE nothing == {}
  <2>1. none \in Seq(nothing) /\ Len(none) = 0
    OBVIOUS
  <2> HIDE DEF none
  <2>2. IsSequence(none)
    BY <2>1 DEF IsSequence
  <2> QED
    BY <1>5, <2>1, <2>2 DEF GroupsOf
<1>9. GroupsOf(g[1], {0}) /\ Covered(ids, 0, g[1])
  <2>1. OneMore(ids, g[0], g[1], {}, 0)
    BY <1>2, <1>7, <1>8
  <2>2. {} \cup {0} = {0}
    OBVIOUS
  <2> QED
    BY <2>1, <2>2 DEF OneMore
<1>10. GroupsOf(g[2], {0, 2}) /\ Covered(ids, 0, g[2]) /\ Covered(ids, 2, g[2])
  <2>1. OneMore(ids, g[1], g[2], {0}, 2)
    BY <1>2, <1>7, <1>9
  <2>2. {0} \cup {2} = {0, 2}
    OBVIOUS
  <2> QED
    BY <1>9, <2>1, <2>2 DEF OneMore
<1>11. OneMore(ids, g[2], g[3], {0, 2}, 3)
  BY <1>2, <1>7, <1>10
<1>12. GroupsOf(g[3], {0, 2, 3})
  <2>1. {0, 2} \cup {3} = {0, 2, 3}
    OBVIOUS
  <2> QED
    BY <1>11, <2>1 DEF OneMore
<1>13. OneMore(ids, g[3], g[4], {0, 2, 3}, 4)
  BY <1>2, <1>7, <1>12
<1>14. GroupsOf(g[4], {0, 2, 3, 4})
  <2>1. {0, 2, 3} \cup {4} = {0, 2, 3, 4}
    OBVIOUS
  <2> QED
    BY <1>13, <2>1 DEF OneMore
<1>15. groups = g[4]
  BY <1>1, <1>4
<1>16. \A n \in {0, 2, 3, 4} : Covered(ids, n, groups)
  BY <1>10, <1>11, <1>13, <1>15 DEF OneMore
<1>17. CASE Members(ids, 4) # << >>
  BY <1>13, <1>14, <1>15, <1>16, <1>17 DEF OneMore
<1>18. CASE Members(ids, 4) = << >> /\ Members(ids, 3) # << >>
  BY <1>11, <1>13, <1>14, <1>15, <1>16, <1>18 DEF OneMore
<1>19. CASE Members(ids, 4) = << >> /\ Members(ids, 3) = << >>
  BY <1>10, <1>11, <1>13, <1>14, <1>15, <1>16, <1>19 DEF OneMore
<1> QED
  BY <1>17, <1>18, <1>19

(* Without native payments no value is sent.                               *)
LEMMA NoNative ==
    ASSUME NEW ids \in Seq(Requests), Members(ids, 3) = << >>, Members(ids, 4) = << >>
    PROVE  \A k \in 1 .. Len(ids) : ~IsNative(ids[k])
<1>1. \A k \in 1 .. Len(ids) : BatchId(ids[k]) # 3 /\ BatchId(ids[k]) # 4
  BY MembersAre
<1> QED
  BY <1>1 DEF IsNative, BatchId, Erc20Fee, EthFee, AnyToErc20, AnyToEth

LEMMA NoValue ==
    ASSUME NEW ids \in Seq(Requests), \A k \in 1 .. Len(ids) : ~IsNative(ids[k]),
           NEW balances, NEW max
    PROVE  BatchTxValue(ids, balances, max) = 0
<1>1. BatchTxValue(ids, balances, max) = ValuesAdded!Fold(balances, max, 0, ids)
  BY DEF BatchTxValue, ValueLoop, ValuesAdded!Fold, FoldLeft, ValuesAdded!FoldLeft,
         MapThenFoldSet, ValuesAdded!MapThenFoldSet, Max, ValuesAdded!Max
<1> DEFINE T == {0}
           none == 0
<1>2. none \in T /\ \A t \in T : \A i \in 1 .. Len(ids) : ValueLoop(balances, max, t, ids[i]) \in T
  BY DEF ValueLoop
<1> HIDE DEF T, none
<1>3. ValuesAdded!Fold(balances, max, none, ids) \in T
  BY <1>2, ValuesAdded!FoldInvariant
<1> QED
  BY <1>1, <1>3 DEF T, none

(***************************************************************************)
(* A batch of the processor leaves nothing in the contract, and uses no    *)
(* rate older than the request paid with it asks for.                      *)
(***************************************************************************)
RatesFresh(r, rates) ==
    Converts(request[r]) => FreshRate(rates, request[r].path, request[r].maxRateTimespan)

KeptNothing(before, payer, hub, w) ==
    Sound(before, payer, hub, w) /\ (w.ok => \A a \in Assets : w.balance[a][hub] = 0)

BatchSettled(before, call, w) ==
    /\ KeptNothing(before, call.payer, Batch, w)
    /\ w.ok => \A n \in 1 .. Len(call.groups) : RatesChecked(call, call.groups[n])

LEMMA BatchOf ==
    ASSUME NEW before \in Balances, \A a \in Assets : before[a][Batch] = 0,
           NEW rates, NEW settings, NEW payer \in Users, NEW groups, NEW I,
           GroupsOf(groups, I), NEW paths, NEW fee \in Users \cup {None}, NEW call,
           call = [market |-> rates, config |-> settings, payer |-> payer,
                   groups |-> groups, paths |-> paths, feeAddress |-> fee],
           NEW value, ValueReturns(call, value), NEW after,
           after = CallBatchPayments(call, World(before), value)
    PROVE  BatchSettled(before, call, after)
<1>1. /\ call.payer = payer /\ call.groups = groups /\ call.feeAddress = fee
  OBVIOUS
<1>2. /\ IsCall(call) /\ IsSequence(call.groups)
      /\ \A n \in 1 .. Len(call.groups) : IsGroup(call.groups[n])
  BY <1>1 DEF IsCall, GroupsOf
<1>3. /\ Sound(before, call.payer, Batch, after)
      /\ after.ok => /\ \A a \in Assets : after.balance[a][Batch] = 0
                     /\ \A n \in 1 .. Len(call.groups) : RatesChecked(call, call.groups[n])
  BY <1>2, BatchKeepsNothing
<1> QED
  BY <1>1, <1>3 DEF KeptNothing, BatchSettled

LEMMA BatchRequestPaid ==
    ASSUME NEW before \in Balances, \A a \in Assets : before[a][Batch] = 0,
           NEW rates, NEW settings, NEW payer \in Users, NEW ids, NEW balances,
           MayBatch(ids, balances), NEW max, NEW skip, NEW extra \in Nat,
           extra > 0 => \E i \in 1 .. Len(ids) : IsNative(ids[i]), NEW after,
           after = PayBatchRequest(World(before), rates, settings, payer, ids, balances,
                                   max, skip, extra)
    PROVE  /\ KeptNothing(before, payer, Batch, after)
           /\ after.ok => \A k \in 1 .. Len(ids) : RatesFresh(ids[k], rates)
<1> DEFINE groups == MetaDetails(ids, balances, max)
           value  == BatchTxValue(ids, balances, max) + extra
           paths  == UsdPathsForFeeLimit(ids, groups, skip)
           fee    == request[ids[1]].feeAddress
           call   == [market |-> rates, config |-> settings, payer |-> payer,
                      groups |-> groups, paths |-> paths, feeAddress |-> fee]
<1>1. after = CallBatchPayments(call, World(before), value)
  BY DEF PayBatchRequest
<1>2. ids \in Seq(Requests) /\ ids[1] \in Requests
  BY EmptySeq DEF MayBatch
<1>3. fee \in Users \cup {None}
  BY <1>2, RequestAssumption
<1>4. /\ GroupsOf(groups, {0, 2, 3, 4})
      /\ \/ Ends(groups, 3) \/ Ends(groups, 4)
         \/ /\ GroupsOf(groups, {0, 2})
            /\ Members(ids, 3) = << >> /\ Members(ids, 4) = << >>
      /\ \A n \in {0, 2, 3, 4} : Covered(ids, n, groups)
  BY MetaDetailsAre
<1>5. call = [market |-> rates, config |-> settings, payer |-> payer, groups |-> groups,
               paths |-> paths, feeAddress |-> fee]
  OBVIOUS
<1> HIDE DEF call
<1>6. ASSUME Ends(groups, 3) \/ Ends(groups, 4) PROVE BatchSettled(before, call, after)
  <2> HIDE DEF groups, paths, value
  <2>1. call.groups = groups /\ call.payer = payer
    BY <1>5
  <2>2. ValueReturns(call, value)
    BY <1>6, <2>1 DEF ValueReturns, Ends
  <2> QED
    BY <1>1, <1>3, <1>4, <1>5, <2>1, <2>2, BatchOf
<1>7. ASSUME GroupsOf(groups, {0, 2}), Members(ids, 3) = << >>, Members(ids, 4) = << >>
      PROVE  BatchSettled(before, call, after)
  <2>1. \A k \in 1 .. Len(ids) : ~IsNative(ids[k])
    BY <1>2, <1>7, NoNative
  <2>2. value = 0
    <3>1. BatchTxValue(ids, balances, max) = 0
      BY <1>2, <2>1, NoValue
    <3>2. extra = 0
      BY <2>1
    <3> QED
      BY <3>1, <3>2
  <2> HIDE DEF groups, paths, value
  <2>3. call.groups = groups /\ call.payer = payer
    BY <1>5
  <2>4. ValueReturns(call, value)
    BY <1>7, <2>2, <2>3 DEF ValueReturns, OnlyTokens, GroupsOf
  <2> QED
    BY <1>1, <1>3, <1>4, <1>5, <2>3, <2>4, BatchOf
<1>8. BatchSettled(before, call, after)
  BY <1>4, <1>6, <1>7
<1>9. call.market = rates /\ call.groups = groups /\ call.payer = payer
  BY <1>5
<1> HIDE DEF groups
<1>10. ASSUME after.ok, NEW k \in 1 .. Len(ids) PROVE RatesFresh(ids[k], rates)
  <2> DEFINE r == ids[k]
             n == BatchId(r)
  <2> SUFFICES ASSUME Converts(request[r])
               PROVE  FreshRate(rates, request[r].path, request[r].maxRateTimespan)
    BY DEF RatesFresh
  <2>1. n \in {0, 4}
    BY DEF Converts, BatchId, Erc20Fee, EthFee, AnyToErc20, AnyToEth
  <2>2. Members(ids, n) # << >>
    BY <1>2, MembersAre
  <2>3. PICK j \in 1 .. Len(groups) :
            groups[j].paymentNetworkId = n /\ AsksAll(ids, groups[j])
    BY <1>4, <2>1, <2>2 DEF Covered
  <2>4. PICK i \in 1 .. Len(groups[j].requestDetails) :
            /\ groups[j].requestDetails[i].path = request[r].path
            /\ groups[j].requestDetails[i].maxRateTimespan = request[r].maxRateTimespan
    BY <2>3 DEF AsksAll, Asks
  <2>5. RateChecked(call, groups[j].requestDetails[i])
    BY <1>8, <1>9, <1>10, <2>1, <2>3 DEF BatchSettled, RatesChecked, AllChecked
  <2> QED
    BY <1>9, <2>4, <2>5 DEF RateChecked
<1> QED
  BY <1>8, <1>9, <1>10 DEF BatchSettled

(* batchERC20Payments by itself: one group, in one token.                  *)
LEMMA OneTokenRequestsPaid ==
    ASSUME NEW before \in Balances, \A a \in Assets : before[a][Batch] = 0,
           NEW rates, NEW settings, NEW payer \in Users, NEW ids, NEW balances,
           MayBatch(ids, balances),
           \A i \in 1 .. Len(ids) : /\ request[ids[i]].pn = Erc20Fee
                                    /\ request[ids[i]].currency = request[ids[1]].currency,
           NEW paths, NEW details,
           details = [i \in DOMAIN ids |-> RequestDetail(ids[i], balances[ids[i]], 0)],
           NEW after,
           after = CallBatchPayments(
                       [market |-> rates, config |-> settings, payer |-> payer,
                        groups |-> << [paymentNetworkId |-> 1, requestDetails |-> details] >>,
                        paths |-> paths, feeAddress |-> request[ids[1]].feeAddress],
                       World(before), 0)
    PROVE  KeptNothing(before, payer, Batch, after)
<1> DEFINE N      == Len(ids)
           group  == [paymentNetworkId |-> 1, requestDetails |-> details]
           groups == << group >>
           fee    == request[ids[1]].feeAddress
           call   == [market |-> rates, config |-> settings, payer |-> payer,
                      groups |-> groups, paths |-> paths, feeAddress |-> fee]
           value  == 0
<1>1. /\ ids \in Seq(Requests) /\ N \in Nat /\ N >= 1 /\ DOMAIN ids = 1 .. N
      /\ \A i \in 1 .. N : ids[i] \in Requests /\ CanPay(ids[i], balances[ids[i]])
  BY EmptySeq DEF MayBatch
<1>2. details = [i \in 1 .. N |-> RequestDetail(ids[i], balances[ids[i]], 0)]
  BY <1>1
<1>3. Len(details) = N /\ IsSequence(details)
  <2> DEFINE T == {RequestDetail(ids[i], balances[ids[i]], 0) : i \in 1 .. N}
  <2>1. details \in [1 .. N -> T]
    BY <1>2
  <2> HIDE DEF T
  <2>2. details \in Seq(T) /\ Len(details) = N
    BY <1>1, <2>1
  <2> QED
    BY <2>2 DEF IsSequence
<1>4. \A i \in 1 .. N : /\ IsDetail(details[i]) /\ IsTokenDetail(details[i])
                        /\ details[i].path[1] = request[ids[1]].currency
  <2> TAKE i \in 1 .. N
  <2> DEFINE rd == details[i]
             r  == ids[i]
  <2>1. /\ r \in Requests /\ CanPay(r, balances[r]) /\ request[r].pn = Erc20Fee
        /\ request[r].currency = request[ids[1]].currency
    BY <1>1
  <2>2. rd = RequestDetail(r, balances[r], 0)
    BY <1>2
  <2>3. BatchId(r) = 2
    BY <2>1 DEF BatchId, Erc20Fee, EthFee, AnyToErc20, AnyToEth
  <2>4. rd.path = request[r].path
    BY <2>2 DEF RequestDetail
  <2>5. request[r].path = << request[r].currency >>
    BY <2>1, RequestAssumption
  <2> HIDE DEF rd, r
  <2>6. IsDetail(rd) /\ IsTokenDetail(rd)
    BY <2>1, <2>2, <2>3, RequestDetailIs
  <2>7. rd.path[1] = request[ids[1]].currency
    BY <2>1, <2>4, <2>5
  <2> QED
    BY <2>6, <2>7 DEF rd
<1>5. OneTokenDetails(details) /\ IsDetails(details)
  BY <1>1, <1>3, <1>4 DEF OneTokenDetails, TokenDetails, IsDetails
<1>6. IsGroup(group)
  BY <1>5 DEF IsGroup
<1>7. GroupsOf(groups, {1})
  <2>1. group.paymentNetworkId \in {1}
    OBVIOUS
  <2> HIDE DEF group
  <2>2. groups \in Seq({group}) /\ Len(groups) = 1 /\ groups[1] = group
    OBVIOUS
  <2> HIDE DEF groups
  <2> QED
    BY <1>6, <2>1, <2>2 DEF GroupsOf, IsSequence
<1>8. fee \in Users \cup {None}
  BY <1>1, RequestAssumption
<1>9. after = CallBatchPayments(call, World(before), value)
  OBVIOUS
<1>10. call.groups = groups
  OBVIOUS
<1> HIDE DEF groups
<1>11. ValueReturns(call, value)
  BY <1>7, <1>10 DEF ValueReturns, OnlyTokens, GroupsOf
<1>12. call = [market |-> rates, config |-> settings, payer |-> payer, groups |-> groups,
               paths |-> paths, feeAddress |-> fee]
  OBVIOUS
<1>13. call.payer = payer
  OBVIOUS
<1> HIDE DEF fee, value, call
<1>14. BatchSettled(before, call, after)
  BY <1>7, <1>8, <1>9, <1>11, <1>12, BatchOf
<1> QED
  BY <1>13, <1>14 DEF BatchSettled

-----------------------------------------------------------------------------
(***************************************************************************)
(* The swap contracts: they touch the token spent and the token paid, and  *)
(* give back what is left of both.                                         *)
(***************************************************************************)
IsSwap(path, hub) ==
    /\ path[1] \in Tokens /\ Last(path) \in Tokens
    /\ hub \in {SwapToPay, SwapToConversion}

Untouched(w, after, path, hub) ==
    \A a \in Assets \ {path[1], Last(path)} : after.balance[a][hub] = w.balance[a][hub]

SwapStep(before, payer, hub, path, w, after) ==
    /\ Sound(before, payer, hub, after)
    /\ after.ok => w.ok /\ Untouched(w, after, path, hub)

LEMMA SwapHub ==
    ASSUME NEW path, NEW hub, IsSwap(path, hub), NEW payer \in Users
    PROVE  /\ IsHub(hub) /\ hub \in Holders /\ payer \in Holders /\ Router \in Holders
           /\ hub # payer /\ hub # Router /\ hub \notin Users \cup {None}
           /\ path[1] \in Assets /\ Last(path) \in Assets
BY ContractsApart DEF IsSwap, IsHub, Contracts, Assets

LEMMA SwapRequire ==
    ASSUME NEW before, NEW payer, NEW hub, NEW path, NEW w, Sound(before, payer, hub, w),
           NEW condition, NEW after, after = Require(w, condition)
    PROVE  SwapStep(before, payer, hub, path, w, after)
<1>1. Sound(before, payer, hub, after)
  BY SoundRequire
<1>2. after.ok => w.ok /\ after.balance = w.balance
  BY DEF Require, Sound, IsWorld
<1> QED
  BY <1>1, <1>2 DEF SwapStep, Untouched

LEMMA SwapCredit ==
    ASSUME NEW before, NEW payer \in Users, NEW hub, NEW path, IsSwap(path, hub),
           NEW w, Sound(before, payer, hub, w), NEW asset \in {path[1], Last(path)},
           NEW from \in {payer, hub, Router}, NEW to \in {payer, hub, Router}, NEW amount,
           NEW after, after = Credit(w, asset, from, to, amount)
    PROVE  SwapStep(before, payer, hub, path, w, after)
<1>1. IsHub(hub) /\ asset \in Assets /\ from \in Holders /\ to \in Holders
  BY SwapHub
<1>2. Sound(before, payer, hub, after)
  BY <1>1, SoundCredit
<1>3. IsWorld(w)
  BY DEF Sound
<1>4. after.ok => w.ok /\ Moved(w, after, asset, from, to, amount)
  BY <1>1, <1>3, CreditWorld
<1> QED
  BY <1>2, <1>4 DEF SwapStep, Untouched, Moved

LEMMA SwapToken ==
    ASSUME NEW before, NEW payer \in Users, NEW hub, NEW path, IsSwap(path, hub),
           NEW w, Sound(before, payer, hub, w), NEW token \in {path[1], Last(path)},
           NEW from \in {payer, hub, Router}, NEW to \in {payer, hub, Router}, NEW amount,
           NEW after, after = SafeTransferFrom(w, token, from, to, amount)
    PROVE  SwapStep(before, payer, hub, path, w, after)
<1> DEFINE allowed == Require(w, to # None)
<1>1. SwapStep(before, payer, hub, path, w, allowed)
  BY SwapRequire
<1>2. after = Credit(allowed, token, from, to, amount)
  BY DEF SafeTransferFrom
<1> HIDE DEF allowed
<1>3. SwapStep(before, payer, hub, path, allowed, after)
  BY <1>1, <1>2, SwapCredit DEF SwapStep
<1> QED
  BY <1>1, <1>3 DEF SwapStep, Untouched

LEMMA SwapPays ==
    ASSUME NEW before, NEW payer \in Users, NEW hub, NEW path, IsSwap(path, hub),
           NEW w, Sound(before, payer, hub, w), NEW payment, PaysUser(payment), NEW after,
           after = TransferFromWithReferenceAndFee(w, ERC20FeeProxy, hub, Last(path), payment)
    PROVE  SwapStep(before, payer, hub, path, w, after)
<1> DEFINE token   == Last(path)
           address == ERC20FeeProxy
<1>1. IsHub(hub) /\ hub \in Holders /\ token \in Tokens /\ IsPayment(payment) /\ IsWorld(w)
  BY SwapHub, ContractsApart DEF IsSwap, IsPayment, PaysUser, Sound
<1>2. /\ after = TransferFromWithReferenceAndFee(w, address, hub, token, payment)
      /\ address # Receivable
  BY ProxiesApart
<1> HIDE DEF token, address
<1>3. Sound(before, payer, hub, after)
  BY <1>1, <1>2, SoundFeeProxy
<1>4. after.ok => w.ok /\ PaidWithFee(w, after, token, hub, payment, FeeTaken(payment))
  BY <1>1, <1>2, FeeProxyPays
<1> QED
  BY <1>3, <1>4 DEF SwapStep, Untouched, PaidWithFee, token

LEMMA SwapConverts ==
    ASSUME NEW before, NEW payer \in Users, NEW hub, NEW path, IsSwap(path, hub),
           NEW w, Sound(before, payer, hub, w), NEW rates, NEW chain, Last(chain) = Last(path),
           NEW payment, PaysUser(payment), NEW max, NEW timespan, NEW after,
           after = PayErc20WithConversion(w, rates, hub, chain, payment, max, timespan)
    PROVE  /\ SwapStep(before, payer, hub, path, w, after)
           /\ after.ok => FreshRate(rates, chain, timespan)
<1> DEFINE converted == Converted(rates, chain, payment)
<1>1. /\ IsHub(hub) /\ hub \in Holders /\ Last(chain) \in Tokens /\ IsPayment(payment)
      /\ IsWorld(w)
  BY SwapHub, ContractsApart DEF IsSwap, IsPayment, PaysUser, Sound
<1>2. Sound(before, payer, hub, after)
  BY <1>1, SoundErc20Conversion
<1>3. after.ok => /\ w.ok /\ FreshRate(rates, chain, timespan)
                  /\ PaidWithFee(w, after, Last(chain), hub, converted, FeeTaken(converted))
  BY <1>1, Erc20ConversionPays DEF FreshRate
<1> HIDE DEF converted
<1> QED
  BY <1>2, <1>3 DEF SwapStep, Untouched, PaidWithFee

LEMMA SwapFeePaid ==
    ASSUME NEW before, NEW payer \in Users, NEW hub, NEW path, IsSwap(path, hub),
           NEW w, Sound(before, payer, hub, w), NEW to \in Users \cup {None}, NEW fee,
           NEW after, after = PayContractFee(w, Last(path), hub, to, fee)
    PROVE  SwapStep(before, payer, hub, path, w, after)
<1> DEFINE asset == Last(path)
           from  == hub
<1>1. IsHub(hub) /\ from \in {payer, hub} /\ asset \in Assets /\ from \in Holders
      /\ to \in Holders /\ IsWorld(w)
  BY SwapHub, ContractsApart DEF Sound
<1>2. after = PayContractFee(w, asset, from, to, fee)
  OBVIOUS
<1> HIDE DEF asset, from
<1>3. Sound(before, payer, hub, after)
  BY <1>1, <1>2, SoundContractFee
<1>4. after.ok => w.ok /\ Moved(w, after, asset, from, to, fee)
  BY <1>1, <1>2, ContractFeeWorld
<1> QED
  BY <1>3, <1>4 DEF SwapStep, Untouched, Moved, asset

(* What is left of a token goes back to the payer, all of it.              *)
ChangeOf(w, after, hub, token) ==
    after.ok => /\ w.ok /\ after.balance[token][hub] = 0
                /\ \A a \in Assets \ {token} : after.balance[a][hub] = w.balance[a][hub]

LEMMA ChangeStep ==
    ASSUME NEW before, NEW payer \in Users, NEW hub, NEW path, IsSwap(path, hub),
           NEW w, Sound(before, payer, hub, w), NEW token \in {path[1], Last(path)},
           NEW after,
           after = SafeTransferFrom(w, token, hub, payer, w.balance[token][hub])
    PROVE  Sound(before, payer, hub, after) /\ ChangeOf(w, after, hub, token)
<1> DEFINE amount == w.balance[token][hub]
<1>1. /\ hub \in Holders /\ payer \in Holders /\ hub # payer /\ token \in Tokens
      /\ token \in Assets /\ IsWorld(w)
  BY SwapHub DEF IsSwap, Sound
<1>2. amount \in Nat
  BY <1>1 DEF IsWorld, Balances
<1>3. after = SafeTransferFrom(w, token, hub, payer, amount)
  OBVIOUS
<1>4. hub \in {payer, hub, Router} /\ payer \in {payer, hub, Router}
  OBVIOUS
<1> HIDE DEF amount
<1>5. Sound(before, payer, hub, after)
  BY <1>3, <1>4, SwapToken DEF SwapStep
<1>6. after.ok => w.ok /\ Moved(w, after, token, hub, payer, amount)
  BY <1>1, <1>3, TokenTransfer
<1>7. Gain(hub, hub, payer, amount) = -amount
  BY <1>1, <1>2 DEF Gain
<1>8. ASSUME after.ok PROVE after.balance[token][hub] = 0
  <2>1. after.balance[token][hub] = amount + (-amount)
    BY <1>1, <1>6, <1>7, <1>8 DEF Moved, amount
  <2> QED
    BY <1>2, <2>1
<1> QED
  BY <1>5, <1>6, <1>8 DEF ChangeOf, Moved

LEMMA ChangeGiven ==
    ASSUME NEW before \in Balances, NEW payer \in Users, NEW hub, NEW path, IsSwap(path, hub),
           \A a \in Assets : before[a][hub] = 0,
           NEW w, Sound(before, payer, hub, w),
           w.ok => \A a \in Assets \ {path[1], Last(path)} : w.balance[a][hub] = 0,
           NEW after, after = GiveChange(w, hub, payer, path)
    PROVE  KeptNothing(before, payer, hub, after) /\ (after.ok => w.ok)
<1> DEFINE spent == path[1]
           got   == Last(path)
           given == SafeTransferFrom(w, spent, hub, payer, w.balance[spent][hub])
<1>1. after = SafeTransferFrom(given, got, hub, payer, given.balance[got][hub])
  BY DEF GiveChange
<1>2. Sound(before, payer, hub, given) /\ ChangeOf(w, given, hub, spent)
  BY ChangeStep
<1> HIDE DEF given
<1>3. Sound(before, payer, hub, after) /\ ChangeOf(given, after, hub, got)
  BY <1>1, <1>2, ChangeStep
<1>4. ASSUME after.ok, NEW a \in Assets PROVE after.balance[a][hub] = 0
  <2>1. a # spent /\ a # got => w.balance[a][hub] = 0
    BY <1>2, <1>3, <1>4 DEF ChangeOf
  <2> HIDE DEF spent, got
  <2> QED
    BY <1>2, <1>3, <1>4, <2>1 DEF ChangeOf
<1> QED
  BY <1>2, <1>3, <1>4 DEF KeptNothing, ChangeOf

(* The router's swap touches the two tokens of its path.                   *)
LEMMA SwapSwaps ==
    ASSUME NEW before, NEW payer \in Users, NEW hub, NEW path, IsSwap(path, hub),
           NEW w, Sound(before, payer, hub, w), NEW out, NEW max, NEW cost, NEW after,
           after = SwapTokensForExactTokens(w, hub, path, out, max, cost)
    PROVE  SwapStep(before, payer, hub, path, w, after)
<1> DEFINE checked == Require(w, cost <= max)
           spent   == path[1]
           got     == Last(path)
           taken   == Credit(checked, spent, hub, Router, cost)
<1>1. after = Credit(taken, got, Router, hub, out)
  BY DEF SwapTokensForExactTokens
<1>2. hub \in {payer, hub, Router} /\ Router \in {payer, hub, Router}
      /\ spent \in {path[1], Last(path)} /\ got \in {path[1], Last(path)}
  OBVIOUS
<1>3. SwapStep(before, payer, hub, path, w, checked)
  BY SwapRequire
<1>4. Sound(before, payer, hub, checked)
  BY <1>3 DEF SwapStep
<1> HIDE DEF checked, spent, got
<1>5. SwapStep(before, payer, hub, path, checked, taken)
  BY <1>2, <1>4, SwapCredit
<1>6. Sound(before, payer, hub, taken)
  BY <1>5 DEF SwapStep
<1> HIDE DEF taken
<1>7. SwapStep(before, payer, hub, path, taken, after)
  BY <1>1, <1>2, <1>6, SwapCredit
<1> QED
  BY <1>3, <1>5, <1>7 DEF SwapStep, Untouched

LEMMA SwapStepsTwice ==
    ASSUME NEW before, NEW payer, NEW hub, NEW path, NEW w, NEW next, NEW after,
           SwapStep(before, payer, hub, path, w, next),
           SwapStep(before, payer, hub, path, next, after)
    PROVE  SwapStep(before, payer, hub, path, w, after)
BY DEF SwapStep, Untouched

(* ERC20SwapToPay keeps nothing.                                           *)
LEMMA SwapKeepsNothing ==
    ASSUME NEW before \in Balances, \A a \in Assets : before[a][SwapToPay] = 0,
           NEW payer \in Users, NEW path, IsSwap(path, SwapToPay), NEW payment,
           PaysUser(payment), NEW max, NEW fees, NEW cost, NEW after,
           after = SwapTransferWithReference(World(before), payer, path, payment, max,
                                             fees, cost)
    PROVE  KeptNothing(before, payer, SwapToPay, after)
<1> DEFINE hub     == SwapToPay
           w       == World(before)
           total   == payment.amount + payment.feeAmount
           swapFee == SwapFee(total, fees)
           funded  == SafeTransferFrom(w, path[1], payer, hub, max)
           swapped == SwapTokensForExactTokens(funded, hub, path, total + swapFee, max, cost)
           paying  == TransferFromWithReferenceAndFee(swapped, ERC20FeeProxy, hub,
                                                      Last(path), payment)
           feed    == PayContractFee(paying, Last(path), hub, payment.feeAddress, swapFee)
<1>1. after = GiveChange(feed, hub, payer, path)
  BY DEF SwapTransferWithReference
<1>2. payment.feeAddress \in Users \cup {None}
  BY DEF PaysUser
<1>3. Sound(before, payer, hub, w) /\ w.balance = before
  BY SoundStart DEF World
<1>4. IsSwap(path, hub) /\ \A a \in Assets : before[a][hub] = 0
  OBVIOUS
<1>5. hub \in {payer, hub, Router} /\ payer \in {payer, hub, Router}
      /\ path[1] \in {path[1], Last(path)}
  OBVIOUS
<1> HIDE DEF w, hub, total, swapFee
<1>6. SwapStep(before, payer, hub, path, w, funded)
  BY <1>3, <1>4, <1>5, SwapToken
<1> HIDE DEF funded
<1>7. SwapStep(before, payer, hub, path, funded, swapped)
  BY <1>4, <1>6, SwapSwaps DEF SwapStep
<1> HIDE DEF swapped
<1>8. SwapStep(before, payer, hub, path, swapped, paying)
  BY <1>4, <1>7, SwapPays DEF SwapStep
<1> HIDE DEF paying
<1>9. SwapStep(before, payer, hub, path, paying, feed)
  BY <1>2, <1>4, <1>8, SwapFeePaid DEF SwapStep
<1> HIDE DEF feed
<1>10. SwapStep(before, payer, hub, path, w, feed)
  BY <1>6, <1>7, <1>8, <1>9, SwapStepsTwice
<1>11. Sound(before, payer, hub, feed)
       /\ (feed.ok => \A a \in Assets \ {path[1], Last(path)} : feed.balance[a][hub] = 0)
  BY <1>3, <1>4, <1>10 DEF SwapStep, Untouched
<1>12. KeptNothing(before, payer, hub, after)
  BY <1>1, <1>4, <1>11, ChangeGiven
<1> QED
  BY <1>12 DEF hub

(* ERC20SwapToConversion keeps nothing, and pays at a rate no older than   *)
(* it was asked for.                                                       *)
LEMMA SwapConversionKeepsNothing ==
    ASSUME NEW before \in Balances, \A a \in Assets : before[a][SwapToConversion] = 0,
           NEW rates, NEW payer \in Users, NEW path, IsSwap(path, SwapToConversion),
           NEW chain, NEW payment, PaysUser(payment), NEW max, NEW timespan, NEW fees,
           NEW cost, NEW after,
           after = SwapAndConvert(World(before), rates, payer, path, chain, payment, max,
                                  timespan, fees, cost)
    PROVE  /\ KeptNothing(before, payer, SwapToConversion, after)
           /\ after.ok => FreshRate(rates, chain, timespan)
<1> DEFINE hub     == SwapToConversion
           w       == World(before)
           total   == GetConversion(rates, chain, payment.amount + payment.feeAmount)
           swapFee == SwapFee(total, fees)
           checked == Require(w, /\ Last(path) = Last(chain)
                                 /\ payment.feeAddress # None
                                 /\ GetRate(rates, chain).ok)
           funded  == SafeTransferFrom(checked, path[1], payer, hub, max)
           swapped == SwapTokensForExactTokens(funded, hub, path, total + swapFee, max, cost)
           paying  == PayErc20WithConversion(swapped, rates, hub, chain, payment, total,
                                             timespan)
           feed    == PayContractFee(paying, Last(path), hub, payment.feeAddress, swapFee)
<1>1. after = IF ~checked.ok THEN checked ELSE GiveChange(feed, hub, payer, path)
  BY DEF SwapAndConvert
<1>2. payment.feeAddress \in Users \cup {None}
  BY DEF PaysUser
<1>3. Sound(before, payer, hub, w) /\ w.balance = before
  BY SoundStart DEF World
<1>4. IsSwap(path, hub) /\ \A a \in Assets : before[a][hub] = 0
  OBVIOUS
<1>5. hub \in {payer, hub, Router} /\ payer \in {payer, hub, Router}
      /\ path[1] \in {path[1], Last(path)}
  OBVIOUS
<1>6. checked.ok => Last(chain) = Last(path)
  BY DEF Require, World
<1> HIDE DEF w, hub, total, swapFee
<1>7. SwapStep(before, payer, hub, path, w, checked)
  BY <1>3, SwapRequire
<1> HIDE DEF checked
<1>8. CASE ~checked.ok
  <2>1. KeptNothing(before, payer, hub, after)
    BY <1>1, <1>7, <1>8 DEF SwapStep, KeptNothing
  <2> QED
    BY <1>1, <1>8, <2>1 DEF hub
<1>9. CASE checked.ok
  <2>1. SwapStep(before, payer, hub, path, checked, funded)
    BY <1>4, <1>5, <1>7, SwapToken DEF SwapStep
  <2> HIDE DEF funded
  <2>2. SwapStep(before, payer, hub, path, funded, swapped)
    BY <1>4, <2>1, SwapSwaps DEF SwapStep
  <2> HIDE DEF swapped
  <2>3. /\ SwapStep(before, payer, hub, path, swapped, paying)
        /\ paying.ok => FreshRate(rates, chain, timespan)
    BY <1>4, <1>6, <1>9, <2>2, SwapConverts DEF SwapStep
  <2> HIDE DEF paying
  <2>4. SwapStep(before, payer, hub, path, paying, feed)
    BY <1>2, <1>4, <2>3, SwapFeePaid DEF SwapStep
  <2> HIDE DEF feed
  <2>5. SwapStep(before, payer, hub, path, w, feed)
    BY <1>7, <2>1, <2>2, <2>3, <2>4, SwapStepsTwice
  <2>6. Sound(before, payer, hub, feed)
        /\ (feed.ok => \A a \in Assets \ {path[1], Last(path)} : feed.balance[a][hub] = 0)
    BY <1>3, <1>4, <2>5 DEF SwapStep, Untouched
  <2>7. KeptNothing(before, payer, hub, after) /\ (after.ok => feed.ok)
    BY <1>1, <1>4, <1>9, <2>6, ChangeGiven
  <2>8. feed.ok => paying.ok
    BY <2>4 DEF SwapStep
  <2> QED
    BY <2>3, <2>7, <2>8 DEF hub
<1> QED
  BY <1>8, <1>9

(* What a payer sends for a request pays the users it names.               *)
LEMMA PaysUserIs ==
    ASSUME NEW to \in Users, NEW amount, NEW ref, NEW fee,
           NEW feeAddress \in Users \cup {None}, NEW payment,
           payment = [to |-> to, amount |-> amount, ref |-> ref, feeAmount |-> fee,
                      feeAddress |-> feeAddress]
    PROVE  PaysUser(payment)
BY DEF PaysUser

LEMMA ArgumentsPayUser ==
    ASSUME NEW r \in Requests, NEW view
    PROVE  PaysUser(Arguments(r, view))
<1> DEFINE rq     == request[r]
           args   == Arguments(r, view)
           amount == args.amount
           ref    == args.ref
           fee    == args.feeAmount
<1>1. rq.paymentAddress \in Users /\ rq.feeAddress \in Users \cup {None}
  BY RequestAssumption
<1>2. args = [to |-> rq.paymentAddress, amount |-> amount, ref |-> ref,
              feeAmount |-> fee, feeAddress |-> rq.feeAddress]
  BY DEF Arguments
<1> HIDE DEF args, amount, ref, fee
<1>3. PaysUser(args)
  BY <1>1, <1>2, PaysUserIs
<1> QED
  BY <1>3 DEF args

(* A swap for a request, by the contract of its payment network.           *)
SwapHubOf(r) == IF request[r].pn = AnyToErc20 THEN SwapToConversion ELSE SwapToPay

LEMMA SwapRequestPaid ==
    ASSUME NEW before \in Balances, NEW r \in Requests,
           \A a \in Assets : before[a][SwapHubOf(r)] = 0,
           NEW rates, NEW payer \in Users, NEW view, NEW path \in SwapPaths, NEW max,
           NEW age, NEW fees, NEW cost, NEW after,
           after = SwapToPayRequest(World(before), rates, payer, r, view, path, max, age,
                                    fees, cost)
    PROVE  /\ KeptNothing(before, payer, SwapHubOf(r), after)
           /\ after.ok /\ request[r].pn = AnyToErc20 => FreshRate(rates, request[r].path, age)
<1> DEFINE args == Arguments(r, view)
<1>1. PaysUser(args)
  BY ArgumentsPayUser
<1>2. path[1] \in Tokens /\ Last(path) \in Tokens
  <2>1. path \in Seq(Tokens) /\ path # << >>
    BY ChoicesAssumption
  <2>2. Len(path) \in Nat /\ Len(path) >= 1
    BY <2>1, EmptySeq
  <2> QED
    BY <2>1, <2>2 DEF Last
<1>3. IsSwap(path, SwapToPay) /\ IsSwap(path, SwapToConversion)
  BY <1>2 DEF IsSwap
<1> HIDE DEF args
<1>4. CASE request[r].pn = AnyToErc20
  <2>1. SwapHubOf(r) = SwapToConversion
    BY <1>4 DEF SwapHubOf
  <2>2. after = SwapAndConvert(World(before), rates, payer, path, request[r].path, args, max,
                               age, fees, cost)
    BY <1>4 DEF SwapToPayRequest, args
  <2> QED
    BY <1>1, <1>3, <2>1, <2>2, SwapConversionKeepsNothing
<1>5. CASE request[r].pn # AnyToErc20
  <2>1. SwapHubOf(r) = SwapToPay
    BY <1>5 DEF SwapHubOf
  <2>2. after = SwapTransferWithReference(World(before), payer, path, args, max, fees, cost)
    BY <1>5 DEF SwapToPayRequest, args
  <2> QED
    BY <1>1, <1>3, <1>5, <2>1, <2>2, SwapKeepsNothing
<1> QED
  BY <1>4, <1>5

-----------------------------------------------------------------------------
(***************************************************************************)
(* The payments as one system.  What a transaction needs of the balances   *)
(* it starts from, and what it keeps.                                      *)
(***************************************************************************)
Emptied(b) == \A a \in Assets, c \in {Batch, SwapToPay, SwapToConversion} : b[a][c] = 0

Proper(before, payer, w) ==
    w.ok => w.balance \in Balances /\ Explains(before, payer, w) /\ Emptied(w.balance)

LEMMA ProperThrough ==
    ASSUME NEW before, Emptied(before), NEW payer,
           NEW hub \in {Batch, SwapToPay, SwapToConversion}, NEW w,
           KeptNothing(before, payer, hub, w)
    PROVE  Proper(before, payer, w)
BY DEF KeptNothing, Sound, IsWorld, Leaves, Emptied, Proper

LEMMA ProperDirect ==
    ASSUME NEW before, Emptied(before), NEW payer, NEW w, Sound(before, payer, None, w)
    PROVE  Proper(before, payer, w)
<1>1. None \notin {Batch, SwapToPay, SwapToConversion}
  BY ContractsApart
<1> QED
  BY <1>1 DEF Sound, IsWorld, Leaves, Emptied, Proper

(* EthereumFeeProxy, for an amount that is the value less the fee.         *)
LEMMA SoundEthPayment ==
    ASSUME NEW before, NEW payer \in Users, NEW hub, IsHub(hub),
           NEW w, Sound(before, payer, hub, w), NEW value, NEW payment, PaysUser(payment)
    PROVE  Sound(before, payer, hub, TransferWithReferenceAndFee(w, payer, value, payment))
<1> DEFINE rest    == [payment EXCEPT !.amount = value - payment.feeAmount]
           address == EthereumFeeProxy
           amount  == value - payment.feeAmount
<1>1. TransferWithReferenceAndFee(w, payer, value, payment)
          = TransferExactEthWithReferenceAndFee(w, address, payer, value, rest)
  BY DEF TransferWithReferenceAndFee
<1>2. address # Receivable
  BY ProxiesApart
<1>3. payment.to \in Users /\ payment.feeAddress \in Users \cup {None}
  BY DEF PaysUser
<1>4. rest = [to |-> payment.to, amount |-> amount, ref |-> payment.ref,
              feeAmount |-> payment.feeAmount, feeAddress |-> payment.feeAddress]
  <2>1. payment = [to |-> payment.to, amount |-> payment.amount, ref |-> payment.ref,
                   feeAmount |-> payment.feeAmount, feeAddress |-> payment.feeAddress]
    BY DEF PaysUser
  <2> HIDE DEF amount
  <2>2. rest = [payment EXCEPT !.amount = amount]
    BY DEF amount
  <2> HIDE DEF rest
  <2> QED
    BY <2>1, <2>2
<1> HIDE DEF rest, amount, address
<1>5. PaysUser(rest)
  BY <1>3, <1>4, PaysUserIs
<1>6. Sound(before, payer, hub,
            TransferExactEthWithReferenceAndFee(w, address, payer, value, rest))
  BY <1>5, <1>2, SoundEthFeeProxy
<1> QED
  BY <1>1, <1>6

(* payRequest, through the proxy of the payment network.                   *)
LEMMA SimplePaid ==
    ASSUME NEW before \in Balances, NEW r \in Requests, request[r].pn # Transferable,
           NEW view, CanPay(r, view), NEW rates, NEW payer \in Users, NEW max,
           NEW hub, IsHub(hub), NEW after,
           after = PayRequest(World(before), rates, payer, r, view, max)
    PROVE  /\ Sound(before, payer, hub, after)
           /\ after.ok => RatesFresh(r, rates)
<1> DEFINE rq   == request[r]
           args == Arguments(r, view)
           w    == World(before)
<1>1. Sound(before, payer, hub, w) /\ PaysUser(args) /\ payer \in {payer, hub}
  BY SoundStart, ArgumentsPayUser
<1>2. rq.pn \in {Erc20Fee, EthFee, AnyToErc20, AnyToEth}
  BY RequestAssumption DEF Requests
<1>3. rq.pn \in {Erc20Fee, EthFee} => RatesFresh(r, rates)
  BY DEF RatesFresh, Converts, Erc20Fee, EthFee, AnyToErc20, AnyToEth
<1>4. IsWorld(w) /\ IsPayment(args) /\ payer \in Holders
  BY <1>1, ContractsApart DEF Sound, IsPayment, PaysUser
<1> HIDE DEF args, w
<1>5. CASE rq.pn = Erc20Fee
  <2>1. rq.currency \in Tokens
    BY <1>5, RequestAssumption
  <2>2. after = TransferFromWithReferenceAndFee(w, ERC20FeeProxy, payer, rq.currency, args)
    BY <1>5 DEF PayRequest, Erc20Fee, EthFee, AnyToErc20, AnyToEth, w, args
  <2> QED
    BY <1>1, <1>3, <1>5, <2>1, <2>2, ProxiesApart, SoundFeeProxy
<1>6. CASE rq.pn = EthFee
  <2>1. after = TransferWithReferenceAndFee(w, payer, args.amount + args.feeAmount, args)
    BY <1>6 DEF PayRequest, Erc20Fee, EthFee, AnyToErc20, AnyToEth, w, args
  <2> QED
    BY <1>1, <1>3, <1>6, <2>1, SoundEthPayment
<1>7. CASE rq.pn = AnyToErc20
  <2>1. Last(rq.path) \in Tokens
    BY <1>7, RequestAssumption DEF CanPay
  <2>2. after = PayErc20WithConversion(w, rates, payer, rq.path, args, max,
                                       rq.maxRateTimespan)
    BY <1>7 DEF PayRequest, Erc20Fee, EthFee, AnyToErc20, AnyToEth, w, args
  <2>3. after.ok => FreshRate(rates, rq.path, rq.maxRateTimespan)
    BY <1>4, <2>1, <2>2, Erc20ConversionPays DEF FreshRate
  <2> QED
    BY <1>1, <2>1, <2>2, <2>3, SoundErc20Conversion DEF RatesFresh
<1>8. CASE rq.pn = AnyToEth
  <2>1. after = PayEthWithConversion(w, rates, payer, max, rq.path, args,
                                     rq.maxRateTimespan)
    BY <1>8 DEF PayRequest, Erc20Fee, EthFee, AnyToErc20, AnyToEth, w, args
  <2>2. after.ok => FreshRate(rates, rq.path, rq.maxRateTimespan)
    BY <1>4, <2>1, EthConversionPays DEF FreshRate
  <2> QED
    BY <1>1, <2>1, <2>2, SoundEthConversion DEF RatesFresh
<1> QED
  BY <1>2, <1>5, <1>6, <1>7, <1>8

(* A payment back, which reverts without an address for it.                *)
LEMMA RefundPaid ==
    ASSUME NEW before \in Balances, NEW payer \in Users, NEW token \in Tokens,
           NEW to \in Users \cup {None}, NEW amount, NEW ref,
           NEW hub, IsHub(hub), NEW after,
           after = TransferFromWithReferenceAndFee(World(before), ERC20FeeProxy, payer,
                       token, [to |-> to, amount |-> amount, ref |-> ref,
                               feeAmount |-> 0, feeAddress |-> None])
    PROVE  after.ok => Sound(before, payer, hub, after)
<1> DEFINE payment == [to |-> to, amount |-> amount, ref |-> ref,
                       feeAmount |-> 0, feeAddress |-> None]
           w       == World(before)
           given   == SafeTransferFrom(w, token, payer, payment.to, payment.amount)
           event   == FeeEvent(ERC20FeeProxy, token, payment)
<1>1. Sound(before, payer, hub, w) /\ payer \in {payer, hub}
  BY SoundStart
<1>2. after = Emit(given, event)
  BY DEF TransferFromWithReferenceAndFee
<1>3. after = TransferFromWithReferenceAndFee(w, ERC20FeeProxy, payer, token, payment)
  OBVIOUS
<1>4. payment.to = to /\ payment.amount = amount
  OBVIOUS
<1>5. to \in Users => PaysUser(payment)
  <2>1. 0 \in Nat /\ None \in Users \cup {None}
    OBVIOUS
  <2> HIDE DEF payment
  <2>2. payment = [to |-> to, amount |-> amount, ref |-> ref,
                   feeAmount |-> 0, feeAddress |-> None]
    BY DEF payment
  <2> QED
    BY <2>1, <2>2, PaysUserIs
<1> HIDE DEF payment, w, event
<1>6. IsWorld(w) /\ payer \in Holders /\ to \in Holders
  BY <1>1, ContractsApart DEF Sound
<1>7. given.ok => to # None
  BY <1>4, <1>6, TokenTransfer
<1> HIDE DEF given
<1>8. after.ok => given.ok
  BY <1>2 DEF Emit
<1>9. to \in Users => Sound(before, payer, hub, after)
  BY <1>1, <1>3, <1>5, ProxiesApart, SoundFeeProxy
<1> QED
  BY <1>7, <1>8, <1>9

(***************************************************************************)
(* The receivables among the other payments: every one has an owner among  *)
(* the users and a token, whatever amounts it was minted for.              *)
(***************************************************************************)
IsTerms(info) ==
    /\ info.tokenAddress \in Tokens
    /\ info = [tokenAddress |-> info.tokenAddress, amount |-> info.amount,
               balance |-> info.balance]

AreTerms(infos, n) ==
    IsSequence(infos) /\ Len(infos) = n /\ \A id \in 1 .. n : IsTerms(infos[id])

ReceivablesOwned ==
    /\ receivableTokenId \in Nat
    /\ receivableTokenIdMapping \in [Keys -> 0 .. receivableTokenId]
    /\ owner \in [1 .. receivableTokenId -> Users]
    /\ AreTerms(receivableInfoMapping, receivableTokenId)
    /\ OneReferencePerReceivable

LEMMA TermsAdded ==
    ASSUME NEW infos, NEW n \in Nat, AreTerms(infos, n), NEW token \in Tokens, NEW amount
    PROVE  AreTerms(Append(infos, NewInfo(token, amount)), n + 1)
<1> DEFINE info == NewInfo(token, amount)
           more == Append(infos, info)
<1>1. IsTerms(info)
  BY DEF IsTerms, NewInfo
<1>2. PICK S : infos \in Seq(S)
  BY DEF AreTerms, IsSequence
<1> DEFINE T == S \cup {info}
<1>3. infos \in Seq(T) /\ info \in T /\ Len(infos) = n
  BY <1>2 DEF AreTerms
<1> HIDE DEF T, info
<1>4. /\ more \in Seq(T) /\ Len(more) = n + 1 /\ more[n + 1] = info
      /\ \A i \in 1 .. n : more[i] = infos[i]
  BY <1>3, AppendProperties
<1>5. \A i \in 1 .. n + 1 : i \in 1 .. n \/ i = n + 1
  OBVIOUS
<1> HIDE DEF more
<1>6. AreTerms(more, n + 1)
  BY <1>1, <1>4, <1>5 DEF AreTerms, IsSequence
<1> QED
  BY <1>6 DEF more, info

LEMMA TermsPaid ==
    ASSUME NEW infos, NEW n \in Nat, AreTerms(infos, n), NEW id \in 1 .. n, NEW amount
    PROVE  AreTerms([infos EXCEPT ![id].balance = @ + amount], n)
<1> DEFINE info == infos[id]
           rest == info.balance + amount
           more == [info EXCEPT !.balance = rest]
           all  == [infos EXCEPT ![id] = more]
<1>1. IsTerms(info)
  BY DEF AreTerms
<1> HIDE DEF rest
<1>2. IsTerms(more)
  <2> HIDE DEF info
  <2>1. info = [tokenAddress |-> info.tokenAddress, amount |-> info.amount,
                balance |-> info.balance]
    BY <1>1 DEF IsTerms
  <2>2. more = [tokenAddress |-> info.tokenAddress, amount |-> info.amount,
                balance |-> rest]
    BY <2>1
  <2> HIDE DEF more
  <2> QED
    BY <1>1, <2>2 DEF IsTerms
<1>3. [infos EXCEPT ![id].balance = @ + amount] = all
  BY DEF rest
<1>4. PICK S : infos \in Seq(S)
  BY DEF AreTerms, IsSequence
<1> DEFINE T == S \cup {more}
<1>5. infos \in Seq(T) /\ more \in T /\ Len(infos) = n
  BY <1>4 DEF AreTerms
<1> HIDE DEF T, more
<1>6. infos \in [1 .. n -> T]
  BY <1>5
<1>7. all \in [1 .. n -> T] /\ \A i \in 1 .. n : all[i] = IF i = id THEN more ELSE infos[i]
  BY <1>5, <1>6
<1> HIDE DEF all
<1>8. all \in Seq(T) /\ Len(all) = n
  BY <1>7
<1>9. \A i \in 1 .. n : IsTerms(all[i])
  BY <1>2, <1>7 DEF AreTerms
<1>10. AreTerms(all, n)
  BY <1>8, <1>9 DEF AreTerms, IsSequence
<1> QED
  BY <1>3, <1>10

LEMMA MintKeepsOwned ==
    ASSUME ReceivablesOwned, NEW to \in Users, NEW ref \in References, NEW amount,
           NEW token \in Tokens, Mint(to, ref, amount, token)
    PROVE  ReceivablesOwned'
<1> DEFINE key == << to, ref >>
<1>1. key \in Keys /\ key[1] = to /\ key[2] = ref
  BY DEF Keys
<1> HIDE DEF key
<1>2. Mint(key[1], key[2], amount, token)
  BY <1>1
<1>3. /\ receivableTokenId \in Nat
      /\ receivableTokenIdMapping \in [Keys -> 0 .. receivableTokenId]
      /\ owner \in [1 .. receivableTokenId -> Users]
      /\ AreTerms(receivableInfoMapping, receivableTokenId)
      /\ OneReferencePerReceivable
  BY DEF ReceivablesOwned
<1>4. /\ receivableTokenId' = receivableTokenId + 1
      /\ receivableTokenIdMapping' \in [Keys -> 0 .. receivableTokenId']
  BY <1>1, <1>2, <1>3, MintedMapping
<1>5. OneReferencePerReceivable'
  BY <1>1, <1>2, <1>3, MintedOnce
<1>6. /\ owner' = Append(owner, to)
      /\ receivableInfoMapping' = Append(receivableInfoMapping, NewInfo(token, amount))
  BY DEF Mint
<1>7. owner' \in [1 .. receivableTokenId' -> Users]
  BY <1>3, <1>4, <1>6, Appended
<1>8. AreTerms(receivableInfoMapping', receivableTokenId')
  BY <1>3, <1>4, <1>6, TermsAdded
<1>9. receivableTokenId' \in Nat
  BY <1>3, <1>4
<1> QED
  BY <1>4, <1>5, <1>7, <1>8, <1>9 DEF ReceivablesOwned, AreTerms, IsSequence

LEMMA SaleKeepsOwned ==
    ASSUME ReceivablesOwned, NEW id, NEW to \in Users, TransferFrom(id, to)
    PROVE  ReceivablesOwned'
<1>1. /\ owner' = [owner EXCEPT ![id] = to]
      /\ UNCHANGED << receivableTokenId, receivableTokenIdMapping, receivableInfoMapping >>
  BY DEF TransferFrom
<1>2. owner' \in [1 .. receivableTokenId -> Users]
  BY <1>1 DEF ReceivablesOwned
<1>3. OneReferencePerReceivable'
  BY <1>1 DEF ReceivablesOwned, OneReferencePerReceivable, Keys
<1> QED
  BY <1>1, <1>2, <1>3 DEF ReceivablesOwned, AreTerms, IsSequence, Keys

LEMMA PaymentKeepsOwned ==
    ASSUME ReceivablesOwned, NEW id, NEW amount, PayOwner(id, amount)
    PROVE  ReceivablesOwned'
<1>1. /\ id \in 1 .. receivableTokenId
      /\ receivableInfoMapping' = [receivableInfoMapping EXCEPT ![id].balance = @ + amount]
      /\ UNCHANGED << receivableTokenId, receivableTokenIdMapping, owner >>
  BY DEF PayOwner
<1>2. AreTerms(receivableInfoMapping', receivableTokenId)
  BY <1>1, TermsPaid DEF ReceivablesOwned
<1>3. OneReferencePerReceivable'
  BY <1>1 DEF ReceivablesOwned, OneReferencePerReceivable, Keys
<1> QED
  BY <1>1, <1>2, <1>3 DEF ReceivablesOwned, AreTerms, IsSequence, Keys

LEMMA UnchangedOwned ==
    ASSUME ReceivablesOwned, UNCHANGED receivableVars
    PROVE  ReceivablesOwned'
<1>1. UNCHANGED << receivableTokenId, receivableTokenIdMapping, receivableInfoMapping, owner >>
  BY DEF receivableVars
<1>2. OneReferencePerReceivable'
  BY <1>1 DEF ReceivablesOwned, OneReferencePerReceivable, Keys
<1> QED
  BY <1>1, <1>2 DEF ReceivablesOwned, AreTerms, IsSequence, Keys

(* What the owner of a receivable is paid.                                 *)
LEMMA OwnerPaid ==
    ASSUME ReceivablesOwned, NEW before \in Balances, NEW payer \in Users,
           NEW id \in 1 .. receivableTokenId, NEW r \in Requests, NEW view, NEW after,
           after = PayOwnerTokens(World(before), payer, id, Arguments(r, view))
    PROVE  Sound(before, payer, None, after)
<1> DEFINE args    == Arguments(r, view)
           to      == owner[id]
           token   == receivableInfoMapping[id].tokenAddress
           payment == [args EXCEPT !.to = to]
           w       == World(before)
           hub     == None
           given   == TransferFromWithReferenceAndFee(w, Receivable, payer, token, payment)
           event   == [name |-> "TransferableReceivablePayment", address |-> Receivable,
                       recipient |-> owner[id], amount |-> args.amount,
                       receivableTokenId |-> id, paymentReference |-> args.ref]
<1>1. Sound(before, payer, hub, w) /\ IsHub(hub) /\ hub = None /\ payer \in {payer, hub}
  BY SoundStart DEF IsHub
<1>2. to \in Users /\ token \in Tokens
  BY DEF ReceivablesOwned, AreTerms, IsTerms
<1>3. after = Emit(given, event)
  BY DEF PayOwnerTokens
<1>4. event.name # "TransferWithReferenceAndFee"
  OBVIOUS
<1>5. PaysUser(args)
  BY ArgumentsPayUser
<1> HIDE DEF args, to, token, w, hub, event
<1>6. PaysUser(payment)
  <2>1. /\ args.feeAddress \in Users \cup {None}
        /\ args = [to |-> args.to, amount |-> args.amount, ref |-> args.ref,
                   feeAmount |-> args.feeAmount, feeAddress |-> args.feeAddress]
    BY <1>5 DEF PaysUser
  <2>2. payment = [to |-> to, amount |-> args.amount, ref |-> args.ref,
                   feeAmount |-> args.feeAmount, feeAddress |-> args.feeAddress]
    BY <2>1
  <2> HIDE DEF payment
  <2> QED
    BY <1>2, <2>1, <2>2, PaysUserIs
<1> HIDE DEF payment
<1>7. Sound(before, payer, hub, given)
  BY <1>1, <1>2, <1>6, SoundFeeProxy
<1> HIDE DEF given
<1>8. Sound(before, payer, hub, after)
  BY <1>1, <1>3, <1>4, <1>7, SoundEvent
<1> QED
  BY <1>8 DEF hub

(***************************************************************************)
(* The inductive invariant of the payments: balances are natural numbers,  *)
(* the contracts hold nothing between transactions, and receivables have   *)
(* owners.                                                                 *)
(***************************************************************************)
PaymentsInv ==
    /\ balance \in Balances
    /\ NothingLeftBehind
    /\ IsSequence(log)
    /\ ReceivablesOwned

ReceiptsExplained ==
    Mined => \A a \in Assets, u \in Users \ {tx'.payer} :
        balance'[a][u] - balance[a][u] = Explained(Last(log'), tx'.fees, a, u)

LedgerKept == balance' \in Balances /\ NothingLeftBehind' /\ IsSequence(log')

LEMMA InitPayments == Init => PaymentsInv
<1> SUFFICES ASSUME Init PROVE PaymentsInv
  OBVIOUS
<1>1. balance = [a \in Assets |-> [h \in Holders |-> InitialBalance[h][a]]]
      /\ log = << >> /\ ReceivableInit
  BY DEF Init
<1>2. {Batch, SwapToPay, SwapToConversion} \subseteq Holders
  BY ContractsApart DEF Contracts
<1>3. balance \in Balances /\ NothingLeftBehind
  BY <1>1, <1>2, BalanceAssumption DEF Balances, NothingLeftBehind
<1>4. IsSequence(log)
  <2>1. log \in Seq({})
    BY <1>1
  <2> QED
    BY <2>1 DEF IsSequence
<1>5. ReceivablesOwned
  <2>1. /\ receivableTokenId = 0
        /\ receivableTokenIdMapping = [key \in Keys |-> 0]
        /\ receivableInfoMapping = << >> /\ owner = << >>
    BY <1>1 DEF ReceivableInit
  <2>2. 1 .. receivableTokenId = {}
    BY <2>1
  <2>3. AreTerms(receivableInfoMapping, receivableTokenId)
    <3>1. receivableInfoMapping \in Seq({}) /\ Len(receivableInfoMapping) = 0
      BY <2>1
    <3> QED
      BY <2>1, <2>2, <3>1 DEF AreTerms, IsSequence
  <2>4. owner \in [1 .. receivableTokenId -> Users]
    <3>1. << >> \in [1 .. 0 -> Users]
      OBVIOUS
    <3> QED
      BY <2>1, <3>1
  <2>5. OneReferencePerReceivable
    BY <2>2 DEF OneReferencePerReceivable
  <2>6. receivableTokenIdMapping \in [Keys -> 0 .. receivableTokenId]
    BY <2>1
  <2> QED
    BY <2>1, <2>3, <2>4, <2>5, <2>6 DEF ReceivablesOwned
<1> QED
  BY <1>3, <1>4, <1>5 DEF PaymentsInv

(* A mined transaction.                                                    *)
LEMMA MinedStep ==
    ASSUME PaymentsInv, NEW w, NEW payer, Proper(balance, payer, w), NEW ids, NEW data,
           NEW limited, NEW budget, NEW ages,
           Mine(w, payer, ids, data, limited, budget, ages)
    PROVE  LedgerKept /\ ReceiptsExplained
<1>1. /\ w.ok /\ balance' = w.balance /\ log' = Append(log, w.log)
      /\ tx'.payer = payer /\ tx'.fees = w.fees
  BY DEF Mine
<1>2. /\ w.balance \in Balances /\ Explains(balance, payer, w) /\ Emptied(w.balance)
  BY <1>1 DEF Proper
<1>3. IsSequence(log') /\ Last(log') = w.log
  <2>1. PICK S : log \in Seq(S)
    BY DEF PaymentsInv, IsSequence
  <2> DEFINE T    == S \cup {w.log}
             l    == w.log
             more == Append(log, l)
             n    == Len(log)
  <2>2. log \in Seq(T) /\ l \in T /\ n \in Nat
    BY <2>1
  <2> HIDE DEF T, l
  <2>3. more \in Seq(T) /\ Len(more) = n + 1 /\ more[n + 1] = l
    BY <2>2, AppendProperties
  <2>4. log' = more
    BY <1>1 DEF l
  <2> HIDE DEF more, n
  <2>5. log' \in Seq(T) /\ Last(log') = l
    BY <2>3, <2>4 DEF Last
  <2> QED
    BY <2>5 DEF IsSequence, l
<1>4. LedgerKept
  BY <1>1, <1>2, <1>3 DEF LedgerKept, Emptied, NothingLeftBehind
<1>5. ASSUME NEW a \in Assets, NEW u \in Users \ {payer}
      PROVE  balance'[a][u] - balance[a][u] = Explained(Last(log'), tx'.fees, a, u)
  <2> DEFINE x == Receipts!Fold(a, u, 0, w.log)
             y == FeeReceipts!Fold(a, u, 0, w.fees)
  <2>1. /\ x \in Int /\ y \in Int
        /\ w.balance[a][u] = balance[a][u] + x + y
    BY <1>2 DEF Explains
  <2>2. balance[a][u] \in Nat
    BY ContractsApart DEF PaymentsInv, Balances
  <2>3. Explained(w.log, w.fees, a, u) = x + y
    BY ExplainedIsFold
  <2> HIDE DEF x, y
  <2>4. w.balance[a][u] - balance[a][u] = x + y
    BY <2>1, <2>2
  <2> QED
    BY <1>1, <1>3, <2>3, <2>4
<1> QED
  BY <1>1, <1>4, <1>5 DEF ReceiptsExplained

(* A step that sends no transaction.                                       *)
LEMMA NotMined ==
    ASSUME PaymentsInv, UNCHANGED << balance, log >>
    PROVE  LedgerKept /\ ReceiptsExplained
BY DEF PaymentsInv, LedgerKept, ReceiptsExplained, Mined, NothingLeftBehind, IsSequence

StepKept == PaymentsInv' /\ ReceiptsExplained

LEMMA BothKept ==
    ASSUME LedgerKept, ReceiptsExplained, ReceivablesOwned'
    PROVE  StepKept
BY DEF LedgerKept, StepKept, PaymentsInv

LEMMA InvEmptied ==
    ASSUME PaymentsInv
    PROVE  /\ balance \in Balances /\ Emptied(balance)
           /\ \A c \in {Batch, SwapToPay, SwapToConversion} :
                  \A a \in Assets : balance[a][c] = 0
BY DEF PaymentsInv, NothingLeftBehind, Emptied

(* A mined transaction none of whose events comes from the receivables.    *)
PaidQuietly ==
    \E t : /\ IsSequence(t) /\ Elsewhere(t) /\ log' = Append(log, t)
           /\ declared' = declared /\ Refresh /\ UNCHANGED receivableVars

LEMMA QuietlyPaid ==
    ASSUME NEW w, NEW payer, NEW hub \in {Batch, SwapToPay, SwapToConversion},
           Sound(balance, payer, hub, w), NEW ids, NEW data, NEW limited, NEW budget,
           NEW ages, Mine(w, payer, ids, data, limited, budget, ages), UNCHANGED receivableVars
    PROVE  PaidQuietly
<1>1. /\ w.ok /\ log' = Append(log, w.log) /\ declared' = declared /\ Refresh
  BY DEF Mine
<1>2. IsSequence(w.log) /\ Elsewhere(w.log)
  BY <1>1, ContractsApart DEF Sound, IsWorld
<1> QED
  BY <1>1, <1>2 DEF PaidQuietly

LEMMA PayStep ==
    ASSUME PaymentsInv, NEW r \in Requests, NEW data, NEW max, Pay(r, data, max)
    PROVE  StepKept /\ PaidQuietly
<1> DEFINE w      == PayRequest(World(balance), market, Payer, r, data[r], max)
           ids    == << r >>
           budget == Spend(Last(request[r].path),
                           IF Converts(request[r]) THEN max
                           ELSE GetAmountToPay(r, data[r]) + FeeToPay(r))
<1>1. /\ request[r].pn # Transferable /\ CanPay(r, data[r])
      /\ Mine(w, Payer, ids, data, FALSE, budget, RequestAges) /\ UNCHANGED receivableVars
  BY DEF Pay
<1>2. Payer \in Users /\ balance \in Balances /\ Emptied(balance)
  BY PartiesAssumption, InvEmptied
<1>3. IsHub(None) /\ IsHub(Batch)
  BY DEF IsHub
<1>4. Sound(balance, Payer, None, w) /\ Sound(balance, Payer, Batch, w)
  BY <1>1, <1>2, <1>3, SimplePaid
<1> HIDE DEF w, budget, ids
<1>5. PaidQuietly
  BY <1>1, <1>4, QuietlyPaid
<1>6. Proper(balance, Payer, w)
  BY <1>2, <1>4, ProperDirect
<1>7. LedgerKept /\ ReceiptsExplained
  BY <1>1, <1>6, MinedStep
<1>8. ReceivablesOwned'
  BY <1>1, UnchangedOwned DEF PaymentsInv
<1> QED
  BY <1>7, <1>8, <1>5, BothKept

LEMMA SwapAndPayStep ==
    ASSUME PaymentsInv, NEW r \in Requests, NEW data, NEW path \in SwapPaths, NEW max,
           NEW cost, NEW age, SwapAndPay(r, data, path, max, cost, age)
    PROVE  StepKept /\ PaidQuietly
<1> DEFINE w      == SwapToPayRequest(World(balance), market, Payer, r, data[r], path, max,
                                      age, config.requestSwapFees, cost)
           ages   == [RequestAges EXCEPT ![r] = age]
           ids    == << r >>
           budget == Spend(path[1], max)
           hub    == SwapHubOf(r)
<1>1. Mine(w, Payer, ids, data, FALSE, budget, ages) /\ UNCHANGED receivableVars
  BY DEF SwapAndPay
<1>2. Payer \in Users /\ balance \in Balances /\ Emptied(balance)
      /\ hub \in {Batch, SwapToPay, SwapToConversion} /\ \A a \in Assets : balance[a][hub] = 0
  BY PartiesAssumption, InvEmptied DEF SwapHubOf
<1>3. KeptNothing(balance, Payer, SwapHubOf(r), w)
  BY <1>2, SwapRequestPaid
<1> HIDE DEF w, budget, ids, hub, ages
<1>4. Proper(balance, Payer, w)
  BY <1>2, <1>3, ProperThrough DEF hub
<1>5. LedgerKept /\ ReceiptsExplained
  BY <1>1, <1>4, MinedStep
<1>6. ReceivablesOwned'
  BY <1>1, UnchangedOwned DEF PaymentsInv
<1>7. PaidQuietly
  BY <1>1, <1>2, <1>3, QuietlyPaid DEF KeptNothing, hub
<1> QED
  BY <1>5, <1>6, <1>7, BothKept

LEMMA PayBatchStep ==
    ASSUME PaymentsInv, NEW ids \in Batches, NEW data, NEW max, NEW skip, NEW extra \in Extras,
           PayBatch(ids, data, max, skip, extra)
    PROVE  StepKept /\ PaidQuietly
<1> DEFINE w      == PayBatchRequest(World(balance), market, config, Payer, ids, data, max,
                                     skip, extra)
           value  == BatchTxValue(ids, data, max) + extra
           budget == [a \in Assets |-> BatchBudget(MetaDetails(ids, data, max), value, a)]
           hub    == Batch
<1>1. /\ \A i \in DOMAIN ids : CanPay(ids[i], data[ids[i]])
      /\ extra > 0 => \E i \in DOMAIN ids : IsNative(ids[i])
      /\ Mine(w, Payer, ids, data, ~skip, budget, RequestAges) /\ UNCHANGED receivableVars
  BY DEF PayBatch
<1>2. /\ Payer \in Users /\ balance \in Balances /\ Emptied(balance)
      /\ hub \in {Batch, SwapToPay, SwapToConversion} /\ \A a \in Assets : balance[a][Batch] = 0
  BY PartiesAssumption, InvEmptied
<1>3. ids \in Seq(Requests) /\ ids # << >> /\ extra \in Nat
  BY ChoicesAssumption
<1>4. DOMAIN ids = 1 .. Len(ids)
  BY <1>3
<1>5. MayBatch(ids, data) /\ (extra > 0 => \E k \in 1 .. Len(ids) : IsNative(ids[k]))
  BY <1>1, <1>3, <1>4 DEF MayBatch
<1>6. KeptNothing(balance, Payer, Batch, w)
  BY <1>2, <1>3, <1>5, BatchRequestPaid
<1> HIDE DEF w, budget, hub
<1>7. Proper(balance, Payer, w)
  BY <1>2, <1>6, ProperThrough DEF hub
<1>8. LedgerKept /\ ReceiptsExplained
  BY <1>1, <1>7, MinedStep
<1>9. ReceivablesOwned'
  BY <1>1, UnchangedOwned DEF PaymentsInv
<1>10. PaidQuietly
  BY <1>1, <1>2, <1>6, QuietlyPaid DEF KeptNothing, hub
<1> QED
  BY <1>8, <1>9, <1>10, BothKept

LEMMA PayOneTokenStep ==
    ASSUME PaymentsInv, NEW ids \in Batches, NEW data, PayBatchOfOneToken(ids, data)
    PROVE  StepKept /\ PaidQuietly
<1> DEFINE details == [i \in DOMAIN ids |-> RequestDetail(ids[i], data[ids[i]], 0)]
           paths   == << PathFromToken[request[ids[1]].currency] >>
           w       == CallBatchPayments(
                          [market |-> market, config |-> config, payer |-> Payer,
                           groups |-> << [paymentNetworkId |-> 1, requestDetails |-> details] >>,
                           paths |-> paths, feeAddress |-> request[ids[1]].feeAddress],
                          World(balance), 0)
           budget  == [a \in Assets |->
                          BatchBudget(<< [requestDetails |-> details] >>, 0, a)]
           hub     == Batch
<1>1. /\ \A i \in DOMAIN ids : /\ request[ids[i]].pn = Erc20Fee
                               /\ request[ids[i]].currency = request[ids[1]].currency
                               /\ CanPay(ids[i], data[ids[i]])
      /\ Mine(w, Payer, ids, data, TRUE, budget, RequestAges) /\ UNCHANGED receivableVars
  BY DEF PayBatchOfOneToken
<1>2. /\ Payer \in Users /\ balance \in Balances /\ Emptied(balance)
      /\ hub \in {Batch, SwapToPay, SwapToConversion} /\ \A a \in Assets : balance[a][Batch] = 0
  BY PartiesAssumption, InvEmptied
<1>3. ids \in Seq(Requests) /\ ids # << >>
  BY ChoicesAssumption
<1>4. DOMAIN ids = 1 .. Len(ids)
  BY <1>3
<1>5. /\ MayBatch(ids, data)
      /\ \A i \in 1 .. Len(ids) : /\ request[ids[i]].pn = Erc20Fee
                                  /\ request[ids[i]].currency = request[ids[1]].currency
  BY <1>1, <1>3, <1>4 DEF MayBatch
<1> HIDE DEF paths
<1>6. KeptNothing(balance, Payer, Batch, w)
  BY <1>2, <1>5, OneTokenRequestsPaid
<1> HIDE DEF w, budget, hub
<1>7. Proper(balance, Payer, w)
  BY <1>2, <1>6, ProperThrough DEF hub
<1>8. LedgerKept /\ ReceiptsExplained
  BY <1>1, <1>7, MinedStep
<1>9. ReceivablesOwned'
  BY <1>1, UnchangedOwned DEF PaymentsInv
<1>10. PaidQuietly
  BY <1>1, <1>2, <1>6, QuietlyPaid DEF KeptNothing, hub
<1> QED
  BY <1>8, <1>9, <1>10, BothKept

LEMMA RefundStep ==
    ASSUME PaymentsInv, NEW r \in Requests, NEW amount, Refund(r, amount)
    PROVE  StepKept /\ PaidQuietly
<1> DEFINE token  == request[r].currency
           to     == request[r].refundAddress
           ref    == PaymentReference(r, to)
           w      == TransferFromWithReferenceAndFee(World(balance), ERC20FeeProxy, Payee,
                         token, [to |-> to, amount |-> amount, ref |-> ref,
                                 feeAmount |-> 0, feeAddress |-> None])
           ids    == << >>
           data   == Last(snapshots)
           budget == Spend(token, amount)
<1>1. /\ request[r].pn = Erc20Fee
      /\ Mine(w, Payee, ids, data, FALSE, budget, RequestAges) /\ UNCHANGED receivableVars
  BY DEF Refund
<1>2. /\ Payee \in Users /\ balance \in Balances /\ Emptied(balance)
      /\ token \in Tokens /\ to \in Users \cup {None}
  BY <1>1, PartiesAssumption, RequestAssumption, InvEmptied
<1> HIDE DEF ref, data, budget, token, to
<1>3. IsHub(None) /\ IsHub(Batch)
  BY DEF IsHub
<1>4. w.ok => Sound(balance, Payee, None, w) /\ Sound(balance, Payee, Batch, w)
  BY <1>2, <1>3, RefundPaid
<1> HIDE DEF w, ids
<1>5. w.ok
  BY <1>1 DEF Mine
<1>6. PaidQuietly
  BY <1>1, <1>4, <1>5, QuietlyPaid
<1>7. Proper(balance, Payee, w)
  BY <1>2, <1>4, <1>5, ProperDirect
<1>8. LedgerKept /\ ReceiptsExplained
  BY <1>1, <1>7, MinedStep
<1>9. ReceivablesOwned'
  BY <1>1, UnchangedOwned DEF PaymentsInv
<1> QED
  BY <1>8, <1>9, <1>6, BothKept

(* A transaction that moves no asset: a mint or a sale.                    *)
LEMMA NothingMoved ==
    ASSUME PaymentsInv, NEW payer \in Users
    PROVE  Proper(balance, payer, World(balance))
<1>1. balance \in Balances /\ Emptied(balance)
  BY InvEmptied
<1>2. Sound(balance, payer, None, World(balance))
  BY <1>1, SoundStart
<1> QED
  BY <1>1, <1>2, ProperDirect

LEMMA MintStep ==
    ASSUME PaymentsInv, NEW r \in Requests, NEW data, MintReceivable(r, data)
    PROVE  StepKept
<1> DEFINE rq     == request[r]
           to     == rq.paymentAddress
           ref    == PaymentReference(r, to)
           amount == GetAmountToPay(r, data[r])
           token  == rq.currency
           w      == World(balance)
           ids    == << >>
           budget == NoTx.budget
<1>1. /\ rq.pn = Transferable
      /\ Mint(to, ref, amount, token) /\ Mine(w, Payee, ids, data, FALSE, budget, RequestAges)
  BY DEF MintReceivable
<1>2. to \in Users /\ ref \in References /\ token \in Tokens /\ Payee \in Users
  BY <1>1, RequestAssumption, PartiesAssumption
<1>3. Proper(balance, Payee, w)
  BY <1>2, NothingMoved
<1> HIDE DEF to, ref, amount, token, w, ids, budget
<1>4. LedgerKept /\ ReceiptsExplained
  BY <1>1, <1>3, MinedStep
<1>5. ReceivablesOwned'
  BY <1>1, <1>2, MintKeepsOwned DEF PaymentsInv
<1> QED
  BY <1>4, <1>5, BothKept

LEMMA SellStep ==
    ASSUME PaymentsInv, NEW id, SellReceivable(id)
    PROVE  StepKept
<1> DEFINE payer  == owner[id]
           w      == World(balance)
           ids    == << >>
           data   == Last(snapshots)
           budget == NoTx.budget
<1>1. TransferFrom(id, Buyer) /\ Mine(w, payer, ids, data, FALSE, budget, RequestAges)
  BY DEF SellReceivable
<1>2. Buyer \in Users /\ payer \in Users
  BY <1>1, PartiesAssumption DEF TransferFrom, PaymentsInv, ReceivablesOwned
<1> HIDE DEF payer, data, budget
<1>3. Proper(balance, payer, w)
  BY <1>2, NothingMoved
<1> HIDE DEF w, ids
<1>4. LedgerKept /\ ReceiptsExplained
  BY <1>1, <1>3, MinedStep
<1>5. ReceivablesOwned'
  BY <1>1, <1>2, SaleKeepsOwned DEF PaymentsInv
<1> QED
  BY <1>4, <1>5, BothKept

LEMMA PayReceivableStep ==
    ASSUME PaymentsInv, NEW r \in Requests, NEW data, PayReceivable(r, data)
    PROVE  StepKept
<1> DEFINE rq     == request[r]
           args   == Arguments(r, data[r])
           id     == receivableTokenIdMapping[<< rq.paymentAddress, args.ref >>]
           w      == PayOwnerTokens(World(balance), Payer, id, args)
           ids    == << r >>
           budget == Spend(rq.currency, args.amount + args.feeAmount)
           amount == args.amount
<1>1. PayOwner(id, amount) /\ Mine(w, Payer, ids, data, FALSE, budget, RequestAges)
  BY DEF PayReceivable
<1>2. Payer \in Users /\ balance \in Balances /\ Emptied(balance)
  BY PartiesAssumption, InvEmptied
<1>3. id \in 1 .. receivableTokenId
  BY <1>1 DEF PayOwner
<1> HIDE DEF id, budget, amount, ids
<1>4. Sound(balance, Payer, None, w)
  BY <1>2, <1>3, OwnerPaid DEF PaymentsInv
<1> HIDE DEF w
<1>5. Proper(balance, Payer, w)
  BY <1>2, <1>4, ProperDirect
<1>6. LedgerKept /\ ReceiptsExplained
  BY <1>1, <1>5, MinedStep
<1>7. ReceivablesOwned'
  BY <1>1, PaymentKeepsOwned DEF PaymentsInv
<1> QED
  BY <1>6, <1>7, BothKept

LEMMA UnchangedStep ==
    ASSUME PaymentsInv, UNCHANGED << balance, log >>, UNCHANGED receivableVars
    PROVE  StepKept
<1>1. LedgerKept /\ ReceiptsExplained
  BY NotMined
<1>2. ReceivablesOwned'
  BY UnchangedOwned DEF PaymentsInv
<1> QED
  BY <1>1, <1>2, BothKept

LEMMA NextPayments ==
    ASSUME PaymentsInv, [Next]_vars
    PROVE  StepKept
<1>1. ASSUME SendPayments PROVE StepKept
  <2>1. PICK data \in Range(snapshots) :
            \/ \E r \in Requests :
                   \/ \E max \in Limits(<< r >>) : Pay(r, data, max)
                   \/ \E path \in SwapPaths, max \in Budgets, cost \in SwapCosts,
                         age \in SwapAges(r) :
                          SwapAndPay(r, data, path, max, cost, age)
            \/ \E ids \in Batches : \E max \in Limits(ids), skip \in BOOLEAN,
                                         extra \in Extras :
                   PayBatch(ids, data, max, skip, extra)
            \/ \E ids \in Batches : PayBatchOfOneToken(ids, data)
    BY <1>1 DEF SendPayments
  <2> QED
    BY <2>1, PayStep, SwapAndPayStep, PayBatchStep, PayOneTokenStep
<1>2. ASSUME Receivables PROVE StepKept
  BY <1>2, MintStep, SellStep, PayReceivableStep DEF Receivables
<1>3. ASSUME NEW r \in Requests, NEW amount, Refund(r, amount) PROVE StepKept
  BY <1>3, RefundStep
<1>4. ASSUME Change PROVE StepKept
  BY <1>4, UnchangedStep DEF Change, ledgerVars
<1>5. CASE UNCHANGED vars
  BY <1>5, UnchangedStep DEF vars, ledgerVars
<1>6. CASE Next
  BY <1>1, <1>2, <1>3, <1>4, <1>6 DEF Next, UpdateMarket, Configure, DeclareReceived
<1> QED
  BY <1>5, <1>6

(* The invariant above holds in every state.                               *)
THEOREM PaymentsInvariance == Spec => []PaymentsInv
<1>1. PaymentsInv /\ [Next]_vars => PaymentsInv'
  BY NextPayments DEF StepKept
<1> QED
  BY InitPayments, <1>1, PTL DEF Spec

(***************************************************************************)
(* The batch and swap contracts keep nothing of any transaction: what they *)
(* collect for the payments and do not spend, the change of a swap and the *)
(* value sent on top all go back in the call that took them.               *)
(***************************************************************************)
THEOREM NothingIsLeftBehind == Spec => []NothingLeftBehind
<1>1. PaymentsInv => NothingLeftBehind
  BY DEF PaymentsInv
<1> QED
  BY PaymentsInvariance, <1>1, PTL

(***************************************************************************)
(* Whatever transaction is mined, every user but its sender receives       *)
(* exactly what its fee events say and the batch or swap fees taken for    *)
(* him: no proxy, conversion, batch or swap pays twice or without a trace. *)
(***************************************************************************)
THEOREM ReceiptsAreExplained == Spec => EventsExplainReceipts
<1>1. PaymentsInv /\ [Next]_vars => [ReceiptsExplained]_vars
  BY NextPayments DEF StepKept
<1>2. Spec => [][ReceiptsExplained]_vars
  BY <1>1, PaymentsInvariance, PTL DEF Spec
<1> QED
  BY <1>2, PTL DEF EventsExplainReceipts, ReceiptsExplained

(* Among the other payments too, no receivable is shared by two references *)
(* or payees, and each is found by the key it was minted for.              *)
THEOREM OneReceivablePerReference == Spec => []OneReferencePerReceivable
<1>1. PaymentsInv => OneReferencePerReceivable
  BY DEF PaymentsInv, ReceivablesOwned
<1> QED
  BY PaymentsInvariance, <1>1, PTL

-----------------------------------------------------------------------------
(***************************************************************************)
(* What detection reads of a request paid through a receivable, as folds   *)
(* over the events.  `look` says what is looked up: the request, reference,*)
(* address, name and source.                                               *)
(***************************************************************************)
TransferStep(look, unused, found, e) ==
    IF IsTransfer(e, look.rq, look.ref, look.to)
    THEN Append(found, Detected(look.name, e.amount, e.feeAmount, e.feeAddress))
    ELSE found

ExtractStep(look, unused, events, transaction) ==
    events \o IF Converts(look.rq)
              THEN ConversionEvents(transaction, look.rq, look.ref, look.to, look.name,
                                    look.source)
              ELSE TransferEvents(transaction, look.rq, look.ref, look.to, look.name)

SumStep(unused, unused2, sum, e) ==
    IF e.name = "payment" THEN sum + e.amount ELSE sum - e.amount

Transfers == INSTANCE SequenceFolds WITH Op <- TransferStep
Extracted == INSTANCE SequenceFolds WITH Op <- ExtractStep
Summed    == INSTANCE SequenceFolds WITH Op <- SumStep

Found(look, transaction) ==
    TransferEvents(transaction, look.rq, look.ref, look.to, look.name)

Extract(look, chain) ==
    ExtractEvents(look.name, chain, look.rq, look.ref, look.to, look.source)

PaymentsOf(r) ==
    [rq |-> request[r], ref |-> PaymentReference(r, request[r].paymentAddress),
     to |-> request[r].paymentAddress, name |-> "payment", source |-> "rpc"]

RefundsOf(r) ==
    [rq |-> request[r], ref |-> RequestId(r), to |-> request[r].refundAddress,
     name |-> "refund", source |-> "rpc"]

LEMMA FoundIsFold ==
    ASSUME NEW look, NEW transaction
    PROVE  Found(look, transaction) = Transfers!Fold(look, 0, << >>, transaction)
  BY DEF Found, TransferEvents, TransferStep, Transfers!Fold, FoldLeft, Transfers!FoldLeft,
         MapThenFoldSet, Transfers!MapThenFoldSet, Max, Transfers!Max

LEMMA ExtractIsFold ==
    ASSUME NEW look, look.rq.pn = Transferable, NEW chain
    PROVE  Extract(look, chain) = Extracted!Fold(look, 0, << >>, chain)
  BY DEF Extract, ExtractEvents, ExtractStep, Extracted!Fold, FoldLeft, Extracted!FoldLeft,
         MapThenFoldSet, Extracted!MapThenFoldSet, Max, Extracted!Max

LEMMA BalanceIsFold ==
    ASSUME NEW events
    PROVE  ComputeBalance(events) = Summed!Fold(0, 0, 0, events)
  BY DEF ComputeBalance, SumStep, Summed!Fold, FoldLeft, Summed!FoldLeft,
         MapThenFoldSet, Summed!MapThenFoldSet, Max, Summed!Max

(* Nothing matches, nothing is found.                                      *)
LEMMA NothingFound ==
    ASSUME NEW look, NEW s, IsSequence(s),
           \A i \in DOMAIN s : ~IsTransfer(s[i], look.rq, look.ref, look.to)
    PROVE  Found(look, s) = << >>
<1> DEFINE none == << >>
<1>1. PICK S : s \in Seq(S)
  BY DEF IsSequence
<1>2. DOMAIN s = 1 .. Len(s)
  BY <1>1
<1>3. \A t \in {none} : \A i \in 1 .. Len(s) : TransferStep(look, 0, t, s[i]) \in {none}
  BY <1>2 DEF TransferStep
<1> HIDE DEF none
<1>4. none \in {none}
  OBVIOUS
<1>5. Transfers!Fold(look, 0, none, s) \in {none}
  BY <1>1, <1>3, <1>4, Transfers!FoldInvariant
<1> QED
  BY <1>5, FoundIsFold DEF none

(* A transaction more, and what is found in it.                            *)
LEMMA ExtractMore ==
    ASSUME NEW look, look.rq.pn = Transferable, NEW chain, IsSequence(chain), NEW t
    PROVE  Extract(look, Append(chain, t)) = Extract(look, chain) \o Found(look, t)
<1>1. PICK S : chain \in Seq(S)
  BY DEF IsSequence
<1> DEFINE T    == S \cup {t}
           none == << >>
<1>2. chain \in Seq(T) /\ t \in T
  BY <1>1
<1> HIDE DEF T, none
<1>3. Extracted!Fold(look, 0, none, Append(chain, t))
          = ExtractStep(look, 0, Extracted!Fold(look, 0, none, chain), t)
  BY <1>2, Extracted!FoldAppend
<1>4. ~Converts(look.rq)
  BY DEF Converts, Transferable, AnyToErc20, AnyToEth
<1>5. \A s : Extract(look, s) = Extracted!Fold(look, 0, none, s)
  BY ExtractIsFold DEF none
<1> QED
  BY <1>3, <1>4, <1>5 DEF ExtractStep, Found

(* A payment more counts with its amount.                                  *)
LEMMA BalanceMore ==
    ASSUME NEW s, IsSequence(s), NEW e, e.name = "payment"
    PROVE  ComputeBalance(Append(s, e)) = ComputeBalance(s) + e.amount
<1>1. PICK S : s \in Seq(S)
  BY DEF IsSequence
<1> DEFINE T == S \cup {e}
<1>2. s \in Seq(T) /\ e \in T
  BY <1>1
<1> HIDE DEF T
<1>3. Summed!Fold(0, 0, 0, Append(s, e)) = SumStep(0, 0, Summed!Fold(0, 0, 0, s), e)
  BY <1>2, Summed!FoldAppend
<1> QED
  BY <1>3, BalanceIsFold DEF SumStep

(* Nothing declared and nothing paid back: the payments are the balance.   *)
LEMMA BalanceOfPayments ==
    ASSUME NEW r, NEW chain, NEW received, received = << >>,
           Extract(RefundsOf(r), chain) = << >>, IsSequence(Extract(PaymentsOf(r), chain))
    PROVE  GetBalance(r, chain, received, "rpc")
               = ComputeBalance(Extract(PaymentsOf(r), chain))
<1> DEFINE payments == Extract(PaymentsOf(r), chain)
           refunds  == Extract(RefundsOf(r), chain)
<1>1. GetBalance(r, chain, received, "rpc")
          = ComputeBalance((received \o payments) \o refunds)
  BY DEF GetBalance, GetEvents, Extract, PaymentsOf, RefundsOf
<1>2. PICK S : payments \in Seq(S)
  BY DEF IsSequence
<1> HIDE DEF payments, refunds
<1>3. << >> \o payments = payments /\ payments \o << >> = payments
  BY <1>2, ConcatEmptySeq
<1>4. received = << >> /\ refunds = << >>
  BY DEF refunds
<1> QED
  BY <1>1, <1>3, <1>4 DEF payments

ReceivableRequests == {r \in Requests : request[r].pn = Transferable}

LEMMA LooksUp ==
    ASSUME NEW r \in ReceivableRequests
    PROVE  /\ PaymentsOf(r).rq = request[r] /\ RefundsOf(r).rq = request[r]
           /\ PaymentsOf(r).rq.pn = Transferable /\ RefundsOf(r).rq.pn = Transferable
           /\ PaymentsOf(r).ref = PaymentReference(r, request[r].paymentAddress)
           /\ PaymentsOf(r).name = "payment"
           /\ RefundsOf(r).ref = RequestId(r)
           /\ request[r].paymentAddress \in Users
BY RequestAssumption DEF ReceivableRequests, PaymentsOf, RefundsOf

(* The events of a receivable request are those of the receivable contract,*)
(* and the payee is not compared.                                          *)
LEMMA ReceivableTransfers ==
    ASSUME NEW e, NEW rq, rq.pn = Transferable, NEW ref, NEW to
    PROVE  IsTransfer(e, rq, ref, to) <=> /\ e.name = "TransferWithReferenceAndFee"
                                          /\ e.address = Receivable
                                          /\ e.paymentReference = ref
                                          /\ e.tokenAddress = rq.currency
<1>1. ProxyAddress(rq) = Receivable
  BY DEF ProxyAddress, Transferable, Erc20Fee, EthFee, AnyToErc20, AnyToEth
<1>2. ~PayeeIsChecked(rq) /\ rq.pn # EthFee
  BY DEF PayeeIsChecked, Transferable, EthFee
<1> QED
  BY <1>1, <1>2 DEF IsTransfer, IsFeeEvent

(* A transaction of any other contract changes nothing of what is found.   *)
LEMMA NothingMore ==
    ASSUME NEW r \in ReceivableRequests, NEW look \in {PaymentsOf(r), RefundsOf(r)},
           NEW chain, IsSequence(chain), IsSequence(Extract(look, chain)),
           NEW t, IsSequence(t), Elsewhere(t)
    PROVE  Extract(look, Append(chain, t)) = Extract(look, chain)
<1>1. look.rq.pn = Transferable
  BY LooksUp
<1>2. Found(look, t) = << >>
  BY <1>1, ReceivableTransfers, NothingFound DEF Elsewhere
<1>3. Extract(look, Append(chain, t)) = Extract(look, chain) \o << >>
  BY <1>1, <1>2, ExtractMore
<1>4. PICK S : Extract(look, chain) \in Seq(S)
  BY DEF IsSequence
<1> QED
  BY <1>3, <1>4, ConcatEmptySeq

(***************************************************************************)
(* The payment of a receivable: the event of the payment and its own.      *)
(***************************************************************************)
OwnerEvents(payment, token, event) ==
    Append(Append(<< >>, FeeEvent(Receivable, token, payment)), event)

LEMMA FoundOfOwner ==
    ASSUME NEW look, look.rq.pn = Transferable, NEW payment, NEW token, NEW event,
           event.name # "TransferWithReferenceAndFee"
    PROVE  Found(look, OwnerEvents(payment, token, event))
               = IF payment.ref = look.ref /\ token = look.rq.currency
                 THEN Append(<< >>, Detected(look.name, payment.amount, payment.feeAmount,
                                             payment.feeAddress))
                 ELSE << >>
<1> DEFINE none  == << >>
           fee   == FeeEvent(Receivable, token, payment)
           one   == Append(none, fee)
           S     == {fee, event}
           start == Transfers!Fold(look, 0, none, none)
           first == Transfers!Fold(look, 0, none, one)
<1>1. /\ fee.name = "TransferWithReferenceAndFee" /\ fee.address = Receivable
      /\ fee.paymentReference = payment.ref /\ fee.tokenAddress = token
      /\ fee.amount = payment.amount /\ fee.feeAmount = payment.feeAmount
      /\ fee.feeAddress = payment.feeAddress
  BY DEF FeeEvent
<1> HIDE DEF fee
<1>2. none \in Seq(S) /\ one \in Seq(S) /\ fee \in S /\ event \in S
  OBVIOUS
<1> HIDE DEF none, one, S
<1>3. start = none
  BY Transfers!FoldEmpty DEF none
<1>4. Transfers!Fold(look, 0, none, Append(none, fee)) = TransferStep(look, 0, start, fee)
  BY <1>2, Transfers!FoldAppend
<1>5. Transfers!Fold(look, 0, none, Append(one, event)) = TransferStep(look, 0, first, event)
  BY <1>2, Transfers!FoldAppend
<1> HIDE DEF start
<1>6. first = TransferStep(look, 0, none, fee)
  BY <1>3, <1>4 DEF one
<1> HIDE DEF first
<1>7. TransferStep(look, 0, first, event) = first
  BY ReceivableTransfers DEF TransferStep
<1>8. TransferStep(look, 0, none, fee)
          = IF payment.ref = look.ref /\ token = look.rq.currency
            THEN Append(none, Detected(look.name, payment.amount, payment.feeAmount,
                                       payment.feeAddress))
            ELSE none
  BY <1>1, ReceivableTransfers DEF TransferStep
<1>9. Found(look, Append(one, event)) = Transfers!Fold(look, 0, none, Append(one, event))
  BY FoundIsFold DEF none
<1>10. OwnerEvents(payment, token, event) = Append(one, event)
  BY DEF OwnerEvents, one, none, fee
<1> QED
  BY <1>5, <1>6, <1>7, <1>8, <1>9, <1>10 DEF none

OwnerEvent(id, args) ==
    [name |-> "TransferableReceivablePayment", address |-> Receivable,
     recipient |-> owner[id], amount |-> args.amount,
     receivableTokenId |-> id, paymentReference |-> args.ref]

LEMMA OwnerLog ==
    ASSUME ReceivablesOwned, NEW before \in Balances, NEW payer \in Users,
           NEW id \in 1 .. receivableTokenId, NEW r \in Requests, NEW view, NEW after,
           after = PayOwnerTokens(World(before), payer, id, Arguments(r, view)), after.ok
    PROVE  after.log = OwnerEvents([Arguments(r, view) EXCEPT !.to = owner[id]],
                                   receivableInfoMapping[id].tokenAddress,
                                   OwnerEvent(id, Arguments(r, view)))
<1> DEFINE args    == Arguments(r, view)
           to      == owner[id]
           token   == receivableInfoMapping[id].tokenAddress
           payment == [args EXCEPT !.to = to]
           w       == World(before)
           given   == TransferFromWithReferenceAndFee(w, Receivable, payer, token, payment)
           event   == OwnerEvent(id, args)
<1>1. IsWorld(w) /\ w.log = << >>
  BY SoundStart DEF Sound, World
<1>2. to \in Users /\ token \in Tokens
  BY DEF ReceivablesOwned, AreTerms, IsTerms
<1>3. after = Emit(given, event)
  BY DEF PayOwnerTokens, OwnerEvent
<1>4. PaysUser(args)
  BY ArgumentsPayUser
<1> HIDE DEF args, to, token, w, event
<1>5. IsPayment(payment)
  <2>1. /\ args.feeAddress \in Users \cup {None}
        /\ args = [to |-> args.to, amount |-> args.amount, ref |-> args.ref,
                   feeAmount |-> args.feeAmount, feeAddress |-> args.feeAddress]
    BY <1>4 DEF PaysUser
  <2>2. payment = [to |-> to, amount |-> args.amount, ref |-> args.ref,
                   feeAmount |-> args.feeAmount, feeAddress |-> args.feeAddress]
    BY <2>1
  <2> HIDE DEF payment
  <2> QED
    BY <1>2, <2>1, <2>2, ContractsApart DEF IsPayment
<1> HIDE DEF payment
<1>6. IsWorld(given) /\ (given.ok => Logged(w, given, FeeEvent(Receivable, token, payment)))
  BY <1>1, <1>2, <1>5, ContractsApart, FeeProxyPays
<1> HIDE DEF given
<1>7. given.ok /\ after.log = Append(given.log, event)
  BY <1>3, <1>6, EmitWorld
<1>8. after.log = OwnerEvents(payment, token, event)
  BY <1>1, <1>6, <1>7 DEF Logged, OwnerEvents
<1> QED
  BY <1>8 DEF payment, token, event, args, to

(***************************************************************************)
(* What the receivable of a request holds, and the part of the inductive   *)
(* invariant about detection: nothing is declared or paid back on such a   *)
(* request, the payments found are what its receivable says was paid, in   *)
(* its token, and the last snapshot says the same.                         *)
(***************************************************************************)
KeyOf(r)  == << request[r].paymentAddress, PaymentReference(r, request[r].paymentAddress) >>
IdOf(r)   == receivableTokenIdMapping[KeyOf(r)]
HeldBy(r) == IF IdOf(r) = 0 THEN 0 ELSE receivableInfoMapping[IdOf(r)].balance

Reflected(r, chain, received, held) ==
    /\ received = << >>
    /\ Extract(RefundsOf(r), chain) = << >>
    /\ IsSequence(Extract(PaymentsOf(r), chain))
    /\ ComputeBalance(Extract(PaymentsOf(r), chain)) = held

InItsToken(r) ==
    IdOf(r) # 0 => receivableInfoMapping[IdOf(r)].tokenAddress = request[r].currency

DetectionInv ==
    /\ IsSequence(snapshots) /\ snapshots # << >>
    /\ DOMAIN declared = Requests
    /\ \A r \in ReceivableRequests : /\ Reflected(r, log, declared[r], HeldBy(r))
                                     /\ InItsToken(r)
                                     /\ Last(snapshots)[r] = HeldBy(r)

(* A refresh reads what the receivable holds.                              *)
LEMMA Refreshed ==
    ASSUME IsSequence(snapshots), Refresh, DOMAIN declared' = Requests,
           \A r \in ReceivableRequests :
               Reflected(r, log', declared'[r], HeldBy(r)') /\ InItsToken(r)'
    PROVE  DetectionInv'
<1> DEFINE found == [r \in Requests |-> GetBalance(r, log', declared'[r], "rpc")]
           n     == Len(snapshots)
<1>1. PICK S : snapshots \in Seq(S)
  BY DEF IsSequence
<1> DEFINE T == S \cup {found}
<1>2. snapshots \in Seq(T) /\ found \in T /\ n \in Nat
  BY <1>1
<1>3. snapshots' = Append(snapshots, found)
  BY DEF Refresh
<1>4. \A r \in ReceivableRequests : found[r] = HeldBy(r)'
  <2> SUFFICES ASSUME NEW r \in ReceivableRequests PROVE found[r] = HeldBy(r)'
    OBVIOUS
  <2> DEFINE chain    == log'
             received == declared'[r]
             held     == HeldBy(r)'
  <2>1. r \in Requests /\ Reflected(r, chain, received, held)
    BY DEF ReceivableRequests
  <2>2. found[r] = GetBalance(r, chain, received, "rpc")
    BY <2>1
  <2> HIDE DEF found, chain, received, held
  <2>3. GetBalance(r, chain, received, "rpc") = held
    BY <2>1, BalanceOfPayments DEF Reflected
  <2> QED
    BY <2>2, <2>3 DEF held
<1> HIDE DEF found, T
<1>5. /\ Append(snapshots, found) \in Seq(T)
      /\ Append(snapshots, found) # << >>
      /\ Len(Append(snapshots, found)) = n + 1
      /\ Append(snapshots, found)[n + 1] = found
  BY <1>2, AppendProperties
<1> HIDE DEF n
<1>6. /\ snapshots' \in Seq(T) /\ snapshots' # << >>
      /\ Last(snapshots') = found
  BY <1>3, <1>5 DEF Last
<1>7. IsSequence(snapshots')
  BY <1>6 DEF IsSequence
<1>8. \A r \in ReceivableRequests : Last(snapshots')[r] = HeldBy(r)'
  BY <1>4, <1>6
<1> QED
  BY <1>6, <1>7, <1>8 DEF DetectionInv, IsSequence

(* A transaction of other contracts, and the payment of a receivable.      *)
LEMMA QuietlyReflected ==
    ASSUME NEW r \in ReceivableRequests, NEW chain, IsSequence(chain),
           NEW received, NEW held, Reflected(r, chain, received, held),
           NEW t, IsSequence(t), Elsewhere(t)
    PROVE  Reflected(r, Append(chain, t), received, held)
<1> DEFINE payments == PaymentsOf(r)
           refunds  == RefundsOf(r)
           none     == << >>
<1>1. /\ Extract(refunds, chain) = none
      /\ IsSequence(Extract(payments, chain))
  BY DEF Reflected
<1>2. IsSequence(none)
  <2>1. none \in Seq({})
    OBVIOUS
  <2> QED
    BY <2>1 DEF IsSequence
<1>3. payments \in {PaymentsOf(r), RefundsOf(r)} /\ refunds \in {PaymentsOf(r), RefundsOf(r)}
  OBVIOUS
<1> HIDE DEF payments, refunds, none
<1>4. /\ Extract(payments, Append(chain, t)) = Extract(payments, chain)
      /\ Extract(refunds, Append(chain, t)) = Extract(refunds, chain)
  BY <1>1, <1>2, <1>3, NothingMore
<1> QED
  BY <1>4 DEF Reflected, payments, refunds

LEMMA OtherReflected ==
    ASSUME NEW r \in ReceivableRequests, NEW chain, IsSequence(chain),
           NEW received, NEW held, Reflected(r, chain, received, held),
           NEW payment, NEW token, NEW event, event.name # "TransferWithReferenceAndFee",
           payment.ref # PaymentsOf(r).ref, payment.ref # RefundsOf(r).ref
    PROVE  Reflected(r, Append(chain, OwnerEvents(payment, token, event)), received, held)
<1> DEFINE payments == PaymentsOf(r)
           refunds  == RefundsOf(r)
           none     == << >>
           t        == OwnerEvents(payment, token, event)
<1>1. /\ Extract(refunds, chain) = none
      /\ IsSequence(Extract(payments, chain))
  BY DEF Reflected
<1>2. payments.rq.pn = Transferable /\ refunds.rq.pn = Transferable
  BY LooksUp
<1>3. payment.ref # payments.ref /\ payment.ref # refunds.ref
  OBVIOUS
<1> HIDE DEF payments, refunds
<1>4. Found(payments, t) = none /\ Found(refunds, t) = none
  BY <1>2, <1>3, FoundOfOwner
<1> HIDE DEF t
<1>5. /\ Extract(payments, Append(chain, t)) = Extract(payments, chain) \o none
      /\ Extract(refunds, Append(chain, t)) = Extract(refunds, chain) \o none
  BY <1>2, <1>4, ExtractMore
<1>6. PICK S : Extract(payments, chain) \in Seq(S)
  BY <1>1 DEF IsSequence
<1>7. /\ Extract(payments, chain) \o none = Extract(payments, chain)
      /\ none \o none = none
  BY <1>6, ConcatEmptySeq
<1>8. /\ Extract(payments, Append(chain, t)) = Extract(payments, chain)
      /\ Extract(refunds, Append(chain, t)) = Extract(refunds, chain)
  BY <1>1, <1>5, <1>7
<1> HIDE DEF none
<1> QED
  BY <1>8 DEF Reflected, payments, refunds, t

LEMMA PaymentReflected ==
    ASSUME NEW r \in ReceivableRequests, NEW chain, IsSequence(chain),
           NEW received, NEW held, Reflected(r, chain, received, held),
           NEW payment, NEW token, NEW event, event.name # "TransferWithReferenceAndFee",
           payment.ref = PaymentsOf(r).ref, payment.ref # RefundsOf(r).ref,
           token = request[r].currency
    PROVE  Reflected(r, Append(chain, OwnerEvents(payment, token, event)), received,
                     held + payment.amount)
<1> DEFINE payments == PaymentsOf(r)
           refunds  == RefundsOf(r)
           none     == << >>
           t        == OwnerEvents(payment, token, event)
           one      == Detected(payments.name, payment.amount, payment.feeAmount,
                                payment.feeAddress)
           before   == Extract(payments, chain)
           amount   == payment.amount
<1>1. /\ Extract(refunds, chain) = none /\ IsSequence(before)
      /\ ComputeBalance(before) = held
  BY DEF Reflected
<1>2. /\ payments.rq.pn = Transferable /\ refunds.rq.pn = Transferable
      /\ payments.rq.currency = token
  BY LooksUp
<1>3. payment.ref = payments.ref /\ payment.ref # refunds.ref
  OBVIOUS
<1>4. one.name = "payment" /\ one.amount = amount
  BY LooksUp DEF Detected
<1> HIDE DEF payments, refunds, one
<1>5. Found(payments, t) = Append(none, one) /\ Found(refunds, t) = none
  BY <1>2, <1>3, FoundOfOwner DEF one
<1> HIDE DEF t
<1>6. /\ Extract(payments, Append(chain, t)) = before \o Append(none, one)
      /\ Extract(refunds, Append(chain, t)) = none \o none
  BY <1>1, <1>2, <1>5, ExtractMore
<1>7. PICK S : before \in Seq(S)
  BY <1>1 DEF IsSequence
<1> DEFINE T == S \cup {one}
<1>8. before \in Seq(T) /\ one \in T
  BY <1>7
<1> HIDE DEF T, before
<1>9. before \o Append(none, one) = Append(before, one) /\ none \o none = none
      /\ Append(before, one) \in Seq(T)
  BY <1>8
<1>10. ComputeBalance(Append(before, one)) = held + amount
  BY <1>1, <1>4, BalanceMore
<1>11. IsSequence(Append(before, one))
  BY <1>9 DEF IsSequence
<1>12. /\ Extract(payments, Append(chain, t)) = Append(before, one)
       /\ Extract(refunds, Append(chain, t)) = none
  BY <1>6, <1>9
<1>13. received = << >>
  BY DEF Reflected
<1> HIDE DEF amount
<1> QED
  BY <1>10, <1>11, <1>12, <1>13 DEF Reflected, payments, refunds, t, amount, none

(* References tell requests apart, and payments from refunds.              *)
LEMMA ReferencesApart ==
    ASSUME NEW r, NEW s, NEW a, NEW b
    PROVE  /\ PaymentReference(r, a) # RequestId(s)
           /\ r # s => PaymentReference(r, a) # PaymentReference(s, b)
<1>1. PaymentReference(r, a) # RequestId(s)
  <2> DEFINE two == << r, a >>
             one == << s >>
  <2>1. Len(two) = 2 /\ Len(one) = 1
    OBVIOUS
  <2> HIDE DEF two, one
  <2>2. two # one
    BY <2>1
  <2> QED
    BY <2>2 DEF PaymentReference, RequestId, two, one
<1>2. << r, a >>[1] = r /\ << s, b >>[1] = s
  OBVIOUS
<1> QED
  BY <1>1, <1>2 DEF PaymentReference

LEMMA KeysApart ==
    ASSUME NEW r \in ReceivableRequests
    PROVE  /\ KeyOf(r) \in Keys
           /\ \A s \in ReceivableRequests : s # r => KeyOf(s) # KeyOf(r)
<1>1. \A s \in ReceivableRequests :
          /\ request[s].paymentAddress \in Users
          /\ PaymentReference(s, request[s].paymentAddress) \in References
  BY RequestAssumption DEF ReceivableRequests
<1>2. KeyOf(r) \in Keys
  BY <1>1 DEF KeyOf, Keys
<1>3. ASSUME NEW s \in ReceivableRequests, s # r PROVE KeyOf(s) # KeyOf(r)
  <2> DEFINE a == request[s].paymentAddress
             b == request[r].paymentAddress
  <2>1. PaymentReference(s, a) # PaymentReference(r, b)
    BY <1>3, ReferencesApart
  <2>2. KeyOf(s)[2] = PaymentReference(s, a) /\ KeyOf(r)[2] = PaymentReference(r, b)
    BY DEF KeyOf
  <2> HIDE DEF a, b
  <2> QED
    BY <2>1, <2>2
<1> QED
  BY <1>2, <1>3

(* The receivables the requests have now.                                  *)
LEMMA IdsApart ==
    ASSUME ReceivablesOwned, NEW r \in ReceivableRequests
    PROVE  /\ IdOf(r) \in 0 .. receivableTokenId
           /\ IdOf(r) # 0 => \A s \in ReceivableRequests : s # r => IdOf(s) # IdOf(r)
<1>1. KeyOf(r) \in Keys /\ \A s \in ReceivableRequests : KeyOf(s) \in Keys
  BY KeysApart
<1>2. IdOf(r) \in 0 .. receivableTokenId
  BY <1>1 DEF IdOf, ReceivablesOwned
<1>3. ASSUME IdOf(r) # 0, NEW s \in ReceivableRequests, s # r, IdOf(s) = IdOf(r)
      PROVE  FALSE
  <2>1. IdOf(r) \in 1 .. receivableTokenId
    BY <1>2, <1>3 DEF ReceivablesOwned
  <2>2. PICK k \in Keys : \A l \in Keys : receivableTokenIdMapping[l] = IdOf(r) => l = k
    BY <2>1 DEF ReceivablesOwned, OneReferencePerReceivable
  <2>3. KeyOf(s) = k /\ KeyOf(r) = k
    BY <1>1, <1>3, <2>2 DEF IdOf
  <2> QED
    BY <1>3, <2>3, KeysApart
<1> QED
  BY <1>2, <1>3

(* A quiet transaction after which the receivables hold what they held.    *)
LEMMA DetectedQuietly ==
    ASSUME PaymentsInv, DetectionInv, NEW t, IsSequence(t), Elsewhere(t),
           log' = Append(log, t), declared' = declared, Refresh,
           \A r \in ReceivableRequests : HeldBy(r)' = HeldBy(r) /\ InItsToken(r)'
    PROVE  DetectionInv'
<1>1. \A r \in ReceivableRequests :
          Reflected(r, log', declared'[r], HeldBy(r)') /\ InItsToken(r)'
  <2> SUFFICES ASSUME NEW r \in ReceivableRequests
               PROVE  Reflected(r, log', declared'[r], HeldBy(r)')
    OBVIOUS
  <2> DEFINE received == declared[r]
             held     == HeldBy(r)
  <2>1. Reflected(r, log, received, held) /\ IsSequence(log)
    BY DEF DetectionInv, PaymentsInv
  <2>2. received = declared'[r] /\ held = HeldBy(r)'
    OBVIOUS
  <2> HIDE DEF received, held
  <2>3. Reflected(r, Append(log, t), received, held)
    BY <2>1, QuietlyReflected
  <2> QED
    BY <2>2, <2>3
<1>2. IsSequence(snapshots) /\ DOMAIN declared' = Requests
  BY DEF DetectionInv
<1> QED
  BY <1>1, <1>2, Refreshed

LEMMA DetectedElsewhere ==
    ASSUME PaymentsInv, DetectionInv, PaidQuietly
    PROVE  DetectionInv'
<1>1. PICK t : /\ IsSequence(t) /\ Elsewhere(t) /\ log' = Append(log, t)
               /\ declared' = declared /\ Refresh /\ UNCHANGED receivableVars
  BY DEF PaidQuietly
<1>2. \A r \in ReceivableRequests : HeldBy(r)' = HeldBy(r) /\ InItsToken(r)'
  BY <1>1 DEF DetectionInv, receivableVars, HeldBy, IdOf, InItsToken
<1> QED
  BY <1>1, <1>2, DetectedQuietly

LEMMA EmptyTransaction ==
    ASSUME NEW w, w = World(balance)
    PROVE  IsSequence(w.log) /\ Elsewhere(w.log)
<1>1. w.log = << >>
  BY DEF World
<1>2. << >> \in Seq({})
  OBVIOUS
<1> QED
  BY <1>1, <1>2 DEF IsSequence, Elsewhere

LEMMA MintDetected ==
    ASSUME PaymentsInv, DetectionInv, NEW r \in Requests, NEW data, MintReceivable(r, data)
    PROVE  DetectionInv'
<1> DEFINE rq     == request[r]
           key    == KeyOf(r)
           amount == GetAmountToPay(r, data[r])
           token  == rq.currency
           w      == World(balance)
           ids    == << >>
           n      == receivableTokenId
<1>1. /\ rq.pn = Transferable
      /\ Mint(key[1], key[2], amount, token)
      /\ Mine(w, Payee, ids, data, FALSE, NoTx.budget, RequestAges)
  BY DEF MintReceivable, KeyOf
<1>2. r \in ReceivableRequests
  BY <1>1 DEF ReceivableRequests
<1>3. /\ key \in Keys
      /\ \A s \in ReceivableRequests : KeyOf(s) \in Keys /\ (s # r => KeyOf(s) # key)
  BY <1>2, KeysApart
<1>4. token \in Tokens
  BY <1>1, RequestAssumption
<1>5. ReceivablesOwned
  BY DEF PaymentsInv
<1> HIDE DEF key, amount, ids
<1>6. /\ receivableTokenId' = n + 1
      /\ receivableTokenIdMapping[key] = 0
      /\ receivableTokenIdMapping'[key] = n + 1
      /\ \A k \in Keys : k # key =>
             receivableTokenIdMapping'[k] = receivableTokenIdMapping[k]
  BY <1>1, <1>3, <1>5, MintedMapping DEF ReceivablesOwned
<1>7. receivableInfoMapping' = Append(receivableInfoMapping, NewInfo(token, amount))
  BY <1>1 DEF Mint
<1>8. /\ n \in Nat
      /\ receivableInfoMapping'[n + 1] = NewInfo(token, amount)
      /\ \A id \in 1 .. n : receivableInfoMapping'[id] = receivableInfoMapping[id]
  <2> DEFINE infos == receivableInfoMapping
             info  == NewInfo(token, amount)
  <2>1. PICK S : infos \in Seq(S) /\ Len(infos) = n /\ n \in Nat
    BY <1>5 DEF ReceivablesOwned, AreTerms, IsSequence
  <2> DEFINE T == S \cup {info}
  <2>2. infos \in Seq(T) /\ info \in T
    BY <2>1
  <2> HIDE DEF T, info, infos, n
  <2>3. /\ Append(infos, info)[n + 1] = info
        /\ \A id \in 1 .. n : Append(infos, info)[id] = infos[id]
    BY <2>1, <2>2, AppendProperties
  <2> QED
    BY <1>7, <2>1, <2>3 DEF info, infos
<1>9. ASSUME NEW s \in ReceivableRequests
      PROVE  HeldBy(s)' = HeldBy(s) /\ InItsToken(s)'
  <2>1. CASE s = r
    <3>1. KeyOf(s) = key /\ IdOf(s) = 0 /\ IdOf(s)' = n + 1
      BY <1>6, <2>1 DEF IdOf, key
    <3>2. HeldBy(s) = 0 /\ HeldBy(s)' = 0 /\ InItsToken(s)'
      BY <1>8, <2>1, <3>1 DEF HeldBy, InItsToken, NewInfo
    <3> QED
      BY <3>2
  <2>2. CASE s # r
    <3>1. IdOf(s)' = IdOf(s) /\ IdOf(s) \in 0 .. n
      BY <1>3, <1>5, <1>6, <2>2, IdsApart DEF IdOf
    <3>2. InItsToken(s)
      BY DEF DetectionInv
    <3>3. IdOf(s) # 0 => receivableInfoMapping'[IdOf(s)] = receivableInfoMapping[IdOf(s)]
      BY <1>8, <3>1
    <3> QED
      BY <3>1, <3>2, <3>3 DEF HeldBy, InItsToken
  <2> QED
    BY <2>1, <2>2
<1>10. log' = Append(log, w.log) /\ declared' = declared /\ Refresh
  BY <1>1 DEF Mine
<1>11. IsSequence(w.log) /\ Elsewhere(w.log)
  BY EmptyTransaction
<1> QED
  BY <1>9, <1>10, <1>11, DetectedQuietly

LEMMA SaleDetected ==
    ASSUME PaymentsInv, DetectionInv, NEW id, SellReceivable(id)
    PROVE  DetectionInv'
<1> DEFINE w == World(balance)
<1>1. /\ Mine(w, owner[id], << >>, Last(snapshots), FALSE, NoTx.budget, RequestAges)
      /\ UNCHANGED << receivableTokenIdMapping, receivableInfoMapping >>
  BY DEF SellReceivable, TransferFrom
<1>2. log' = Append(log, w.log) /\ declared' = declared /\ Refresh
  BY <1>1 DEF Mine
<1>3. \A r \in ReceivableRequests : HeldBy(r)' = HeldBy(r) /\ InItsToken(r)'
  BY <1>1 DEF DetectionInv, HeldBy, IdOf, InItsToken
<1>4. IsSequence(w.log) /\ Elsewhere(w.log)
  BY EmptyTransaction
<1> QED
  BY <1>2, <1>3, <1>4, DetectedQuietly

(* What a payment adds to one receivable.                                  *)
PaidMore(infos, id, amount) == [infos EXCEPT ![id].balance = @ + amount]

LEMMA TermsMore ==
    ASSUME NEW infos, NEW n \in Nat, AreTerms(infos, n), NEW id \in 1 .. n, NEW amount,
           NEW after, after = PaidMore(infos, id, amount)
    PROVE  /\ after[id].balance = infos[id].balance + amount
           /\ after[id].tokenAddress = infos[id].tokenAddress
           /\ \A i \in 1 .. n : i # id => after[i] = infos[i]
<1> DEFINE info == infos[id]
           rest == info.balance + amount
           more == [info EXCEPT !.balance = rest]
<1>1. info = [tokenAddress |-> info.tokenAddress, amount |-> info.amount,
              balance |-> info.balance]
  BY DEF AreTerms, IsTerms
<1>2. DOMAIN infos = 1 .. n
  BY DEF AreTerms, IsSequence
<1>3. after = [infos EXCEPT ![id] = more]
  BY DEF PaidMore
<1> HIDE DEF info, rest
<1>4. more.balance = rest /\ more.tokenAddress = info.tokenAddress
  BY <1>1
<1> HIDE DEF more
<1>5. after[id] = more /\ \A i \in 1 .. n : i # id => after[i] = infos[i]
  BY <1>2, <1>3
<1> QED
  BY <1>4, <1>5 DEF info, rest

LEMMA PaymentDetected ==
    ASSUME PaymentsInv, DetectionInv, NEW r \in Requests, NEW data, PayReceivable(r, data)
    PROVE  DetectionInv'
<1> DEFINE args    == Arguments(r, data[r])
           id      == IdOf(r)
           to      == owner[id]
           token   == receivableInfoMapping[id].tokenAddress
           payment == [args EXCEPT !.to = to]
           event   == OwnerEvent(id, args)
           w       == PayOwnerTokens(World(balance), Payer, id, args)
           ids     == << r >>
           amount  == args.amount
           n       == receivableTokenId
           budget  == Spend(request[r].currency, args.amount + args.feeAmount)
           infos   == receivableInfoMapping
<1>1. args.ref = PaymentReference(r, request[r].paymentAddress)
  BY DEF Arguments
<1>2. receivableTokenIdMapping[<< request[r].paymentAddress, args.ref >>] = id
  BY <1>1 DEF IdOf, KeyOf
<1>3. /\ request[r].pn = Transferable /\ id # 0 /\ PayOwner(id, amount)
      /\ Mine(w, Payer, ids, data, FALSE, budget, RequestAges)
  BY <1>2 DEF PayReceivable
<1>4. r \in ReceivableRequests
  BY <1>3 DEF ReceivableRequests
<1>5. payment.ref = args.ref /\ payment.amount = amount
  <2> DEFINE a == args.amount
             f == args.feeAmount
             g == args.feeAddress
             p == args.to
             q == args.ref
  <2>1. args = [to |-> p, amount |-> a, ref |-> q, feeAmount |-> f, feeAddress |-> g]
    BY DEF Arguments
  <2> HIDE DEF args, a, f, g, p, q, to
  <2>2. payment = [to |-> to, amount |-> a, ref |-> q, feeAmount |-> f, feeAddress |-> g]
    BY <2>1
  <2> HIDE DEF payment
  <2> QED
    BY <2>2 DEF a, q
<1>6. ReceivablesOwned /\ balance \in Balances /\ Payer \in Users /\ IsSequence(log)
  BY PartiesAssumption DEF PaymentsInv
<1>7. /\ id \in 1 .. n /\ n \in Nat /\ AreTerms(infos, n)
      /\ infos' = [infos EXCEPT ![id].balance = @ + amount]
      /\ UNCHANGED receivableTokenIdMapping
  BY <1>3, <1>6 DEF PayOwner, ReceivablesOwned
<1>8. w.ok /\ log' = Append(log, w.log) /\ declared' = declared /\ Refresh
  BY <1>3 DEF Mine
<1>9. w.log = OwnerEvents(payment, token, event)
  BY <1>6, <1>7, <1>8, OwnerLog
<1>10. event.name # "TransferWithReferenceAndFee"
  BY DEF OwnerEvent
<1> HIDE DEF event, w, payment, args
<1>11. \A s \in ReceivableRequests :
           /\ payment.ref # RefundsOf(s).ref
           /\ payment.ref = PaymentsOf(s).ref <=> s = r
  BY <1>1, <1>5, ReferencesApart, LooksUp
<1>12. /\ infos'[id].balance = infos[id].balance + amount
       /\ infos'[id].tokenAddress = token
       /\ \A i \in 1 .. n : i # id => infos'[i] = infos[i]
  <2> DEFINE after == infos'
  <2>1. after = PaidMore(infos, id, amount)
    BY <1>7 DEF PaidMore
  <2> HIDE DEF after, amount, infos, n, id
  <2>2. /\ after[id].balance = infos[id].balance + amount
        /\ after[id].tokenAddress = infos[id].tokenAddress
        /\ \A i \in 1 .. n : i # id => after[i] = infos[i]
    BY <1>7, <2>1, TermsMore
  <2> QED
    BY <2>2 DEF after, infos
<1>13. token = request[r].currency /\ IdOf(r)' = id
  BY <1>3, <1>4, <1>7 DEF DetectionInv, InItsToken, IdOf
<1>14. ASSUME NEW s \in ReceivableRequests
       PROVE  Reflected(s, log', declared'[s], HeldBy(s)') /\ InItsToken(s)'
  <2> DEFINE received == declared[s]
             held     == HeldBy(s)
             t        == OwnerEvents(payment, token, event)
  <2>1. Reflected(s, log, received, held) /\ InItsToken(s)
    BY DEF DetectionInv
  <2>2. log' = Append(log, t) /\ declared'[s] = received
    BY <1>8, <1>9
  <2>3. CASE s = r
    <3>1. HeldBy(s)' = held + payment.amount
      BY <1>3, <1>5, <1>12, <1>13, <2>3 DEF HeldBy
    <3>2. InItsToken(s)'
      BY <1>12, <1>13, <2>3 DEF InItsToken
    <3> HIDE DEF received, held, token
    <3>3. Reflected(s, Append(log, t), received, held + payment.amount)
      BY <1>6, <1>10, <1>11, <1>13, <2>1, <2>3, PaymentReflected
    <3> QED
      BY <2>2, <3>1, <3>2, <3>3
  <2>4. CASE s # r
    <3>1. IdOf(s)' = IdOf(s) /\ IdOf(s) \in 0 .. n /\ IdOf(s) # id
      BY <1>3, <1>4, <1>6, <1>7, <2>4, IdsApart DEF IdOf
    <3>2. IdOf(s) # 0 => infos'[IdOf(s)] = infos[IdOf(s)]
      BY <1>7, <1>12, <3>1
    <3>3. HeldBy(s)' = held /\ InItsToken(s)'
      BY <2>1, <3>1, <3>2 DEF HeldBy, InItsToken
    <3> HIDE DEF received, held, token
    <3>4. Reflected(s, Append(log, t), received, held)
      BY <1>6, <1>10, <1>11, <2>1, <2>4, OtherReflected
    <3> QED
      BY <2>2, <3>3, <3>4
  <2> QED
    BY <2>3, <2>4
<1>15. IsSequence(snapshots) /\ DOMAIN declared' = Requests
  BY <1>8 DEF DetectionInv
<1> QED
  BY <1>8, <1>14, <1>15, Refreshed

(* What is declared is declared on a request that is not a receivable's.   *)
LEMMA DeclarationDetected ==
    ASSUME DetectionInv, NEW r \in Requests, NEW name, NEW amount,
           DeclareReceived(r, name, amount)
    PROVE  DetectionInv'
<1>1. /\ request[r].pn = Erc20Fee /\ UNCHANGED << log, receivableVars >> /\ Refresh
      /\ declared' = [declared EXCEPT ![r] = Append(@, Detected(name, amount, 0, None))]
  BY DEF DeclareReceived, Change, ledgerVars
<1>2. \A s \in ReceivableRequests : s # r
  BY <1>1 DEF ReceivableRequests, Erc20Fee, Transferable
<1>3. /\ DOMAIN declared' = Requests
      /\ \A s \in ReceivableRequests : declared'[s] = declared[s]
  BY <1>1, <1>2 DEF DetectionInv, ReceivableRequests
<1>4. \A s \in ReceivableRequests :
          Reflected(s, log', declared'[s], HeldBy(s)') /\ InItsToken(s)'
  BY <1>1, <1>3 DEF DetectionInv, HeldBy, IdOf, InItsToken, receivableVars
<1> QED
  BY <1>1, <1>3, <1>4, Refreshed DEF DetectionInv

LEMMA NothingDetected ==
    ASSUME DetectionInv, UNCHANGED << log, declared, snapshots, receivableVars >>
    PROVE  DetectionInv'
BY DEF DetectionInv, HeldBy, IdOf, InItsToken, receivableVars, IsSequence

LEMMA InitDetection == Init => DetectionInv
<1> SUFFICES ASSUME Init PROVE DetectionInv
  OBVIOUS
<1> DEFINE none == << >>
           zero == [r \in Requests |-> 0]
           one  == << zero >>
<1>1. /\ log = none /\ declared = [r \in Requests |-> none] /\ snapshots = one
      /\ receivableTokenIdMapping = [key \in Keys |-> 0]
  BY DEF Init, ReceivableInit
<1>2. one \in Seq({zero}) /\ one # none /\ Last(one) = zero
  BY DEF Last
<1>3. none \in Seq({})
  OBVIOUS
<1>4. \A look, S : Extracted!Fold(look, 0, none, none) = none /\ Summed!Fold(0, 0, 0, none) = 0
  BY Extracted!FoldEmpty, Summed!FoldEmpty
<1> HIDE DEF none, zero, one
<1>5. ASSUME NEW r \in ReceivableRequests
      PROVE  /\ Reflected(r, log, declared[r], HeldBy(r)) /\ InItsToken(r)
             /\ Last(snapshots)[r] = HeldBy(r)
  <2> DEFINE payments == PaymentsOf(r)
             refunds  == RefundsOf(r)
  <2>1. r \in Requests /\ IdOf(r) = 0
    BY <1>1, KeysApart DEF ReceivableRequests, IdOf
  <2>2. payments.rq.pn = Transferable /\ refunds.rq.pn = Transferable
    BY LooksUp
  <2> HIDE DEF payments, refunds
  <2>3. Extract(payments, none) = none /\ Extract(refunds, none) = none
    BY <1>4, <2>2, ExtractIsFold DEF none
  <2>4. ComputeBalance(none) = 0
    BY <1>4, BalanceIsFold
  <2>5. declared[r] = none /\ HeldBy(r) = 0 /\ InItsToken(r)
    BY <1>1, <2>1 DEF HeldBy, InItsToken
  <2>6. Last(snapshots)[r] = 0
    BY <1>1, <1>2, <2>1 DEF zero
  <2>7. Reflected(r, none, none, 0)
    BY <1>3, <2>3, <2>4 DEF Reflected, IsSequence, payments, refunds, none
  <2> QED
    BY <1>1, <2>5, <2>6, <2>7
<1>6. IsSequence(snapshots) /\ snapshots # << >>
  BY <1>1, <1>2 DEF IsSequence, none
<1> QED
  BY <1>1, <1>5, <1>6 DEF DetectionInv

LEMMA NextDetection ==
    ASSUME PaymentsInv, DetectionInv, [Next]_vars
    PROVE  DetectionInv'
<1>1. ASSUME SendPayments PROVE DetectionInv'
  <2>1. PICK data \in Range(snapshots) :
            \/ \E r \in Requests :
                   \/ \E max \in Limits(<< r >>) : Pay(r, data, max)
                   \/ \E path \in SwapPaths, max \in Budgets, cost \in SwapCosts,
                         age \in SwapAges(r) :
                          SwapAndPay(r, data, path, max, cost, age)
            \/ \E ids \in Batches : \E max \in Limits(ids), skip \in BOOLEAN,
                                         extra \in Extras :
                   PayBatch(ids, data, max, skip, extra)
            \/ \E ids \in Batches : PayBatchOfOneToken(ids, data)
    BY <1>1 DEF SendPayments
  <2>2. PaidQuietly
    BY <2>1, PayStep, SwapAndPayStep, PayBatchStep, PayOneTokenStep
  <2> QED
    BY <2>2, DetectedElsewhere
<1>2. ASSUME Receivables PROVE DetectionInv'
  BY <1>2, MintDetected, SaleDetected, PaymentDetected DEF Receivables
<1>3. ASSUME NEW r \in Requests, NEW amount, Refund(r, amount) PROVE DetectionInv'
  BY <1>3, RefundStep, DetectedElsewhere
<1>4. ASSUME UpdateMarket \/ Configure PROVE DetectionInv'
  BY <1>4, NothingDetected DEF UpdateMarket, Configure, Change, ledgerVars
<1>5. ASSUME NEW r \in Requests, NEW name, NEW amount, DeclareReceived(r, name, amount)
      PROVE  DetectionInv'
  BY <1>5, DeclarationDetected
<1>6. CASE UNCHANGED vars
  BY <1>6, NothingDetected DEF vars, ledgerVars
<1>7. CASE Next
  BY <1>1, <1>2, <1>3, <1>4, <1>5, <1>7 DEF Next
<1> QED
  BY <1>6, <1>7

(* The two inductive invariants of the payments hold in every state.       *)
THEOREM DetectionInvariance == Spec => [](PaymentsInv /\ DetectionInv)
<1>1. PaymentsInv /\ DetectionInv /\ [Next]_vars => DetectionInv'
  BY NextDetection
<1> QED
  BY InitDetection, PaymentsInvariance, <1>1, PTL DEF Spec

(***************************************************************************)
(* What the processor's snapshot says was paid of a request with a         *)
(* receivable is the balance its receivable has in the contract, whoever   *)
(* owned it at each payment and whatever else was paid in between.         *)
(***************************************************************************)
THEOREM ReceivableBalanceIsWhatIsDetected == Spec => []ReceivableBalanceIsDetected
<1>1. DetectionInv => ReceivableBalanceIsDetected
  BY DEF DetectionInv, ReceivableBalanceIsDetected, ReceivableRequests, HeldBy, IdOf, KeyOf
<1> QED
  BY DetectionInvariance, <1>1, PTL

-----------------------------------------------------------------------------
(***************************************************************************)
(* The age of a rate.  It is computed along its path, and is as old as the *)
(* oldest answer it was computed from.                                     *)
(***************************************************************************)
RateLoop(rates, unused, acc, pair) ==
    IF acc.ok /\ HasAggregator(rates, pair)
    THEN [ok |-> TRUE,
          rate |-> StepRate(acc.rate, rates, pair),
          oldest |-> OldestTimestamp(acc.oldest, rates, pair)]
    ELSE [acc EXCEPT !.ok = FALSE]

Rated == INSTANCE SequenceFolds WITH Op <- RateLoop

NoRate(rates) == [ok |-> TRUE, rate |-> Precision, oldest |-> rates.now]

RatesInTurn(f, rates, path) ==
    /\ f[0] = NoRate(rates) /\ GetRate(rates, path) = f[Len(Pairs(path))]
    /\ \A n \in 1 .. Len(Pairs(path)) : f[n] = RateLoop(rates, 0, f[n - 1], Pairs(path)[n])

LEMMA PairsAre ==
    ASSUME NEW path, IsSequence(path)
    PROVE  /\ IsSequence(Pairs(path)) /\ Len(Pairs(path)) \in Nat
           /\ DOMAIN Pairs(path) = 1 .. Len(Pairs(path))
<1> DEFINE N == Len(path)
           M == IF N = 0 THEN 0 ELSE N - 1
           T == {<< path[i], path[i + 1] >> : i \in 1 .. M}
<1>1. N \in Nat
  BY DEF IsSequence
<1>2. M \in Nat /\ 1 .. N - 1 = 1 .. M
  BY <1>1
<1> HIDE DEF N, M
<1>3. Pairs(path) = [i \in 1 .. M |-> << path[i], path[i + 1] >>]
  BY <1>2 DEF Pairs, N
<1>4. Pairs(path) \in [1 .. M -> T]
  BY <1>3
<1> HIDE DEF T
<1>5. Pairs(path) \in Seq(T)
  BY <1>2, <1>4
<1> QED
  BY <1>5 DEF IsSequence

LEMMA RateTrace ==
    ASSUME NEW rates, NEW path, IsSequence(path)
    PROVE  \E f : RatesInTurn(f, rates, path)
<1> DEFINE base == NoRate(rates)
<1>1. GetRate(rates, path) = Rated!Fold(rates, 0, base, Pairs(path))
  BY DEF GetRate, NoRate, RateLoop, Rated!Fold, FoldLeft, Rated!FoldLeft,
         MapThenFoldSet, Rated!MapThenFoldSet, Max, Rated!Max
<1>2. PICK S : Pairs(path) \in Seq(S)
  BY PairsAre DEF IsSequence
<1> HIDE DEF base
<1>3. PICK f : /\ Rated!IsTrace(rates, 0, f, base, Pairs(path))
               /\ Rated!Fold(rates, 0, base, Pairs(path)) = f[Len(Pairs(path))]
  BY <1>2, Rated!FoldTrace
<1> QED
  BY <1>1, <1>3 DEF Rated!IsTrace, RatesInTurn, base

(* The answers of the aggregators have times, and the chain has one.       *)
KnownTimes(rates) ==
    /\ rates.now \in Int
    /\ \A pair \in DOMAIN rates.aggregators : rates.aggregators[pair].timestamp \in Int

IsDated(acc) ==
    /\ acc = [ok |-> acc.ok, rate |-> acc.rate, oldest |-> acc.oldest]
    /\ acc.ok => acc.oldest \in Int

AsOld(rates, acc, pair) ==
    /\ Aggregator(rates, pair).timestamp \in Int
    /\ acc.oldest <= Aggregator(rates, pair).timestamp

LEMMA RateLoopStep ==
    ASSUME NEW rates, KnownTimes(rates), NEW acc, IsDated(acc), NEW pair, NEW after,
           after = RateLoop(rates, 0, acc, pair)
    PROVE  /\ IsDated(after)
           /\ after.ok => acc.ok /\ after.oldest <= acc.oldest /\ AsOld(rates, after, pair)
<1> DEFINE time == Aggregator(rates, pair).timestamp
           rate == StepRate(acc.rate, rates, pair)
           old  == OldestTimestamp(acc.oldest, rates, pair)
<1>1. CASE acc.ok /\ HasAggregator(rates, pair)
  <2>1. time \in Int
    BY <1>1 DEF KnownTimes, HasAggregator, Aggregator, IsReverse
  <2>2. old = IF time < acc.oldest THEN time ELSE acc.oldest
    BY DEF OldestTimestamp
  <2>3. after = [ok |-> TRUE, rate |-> rate, oldest |-> old]
    BY <1>1 DEF RateLoop
  <2>4. acc.oldest \in Int
    BY <1>1 DEF IsDated
  <2> HIDE DEF time, rate, old
  <2>5. old \in Int /\ old <= acc.oldest /\ old <= time
    BY <2>1, <2>2, <2>4
  <2> QED
    BY <1>1, <2>1, <2>3, <2>5 DEF IsDated, AsOld, time
<1>2. CASE ~(acc.ok /\ HasAggregator(rates, pair))
  <2>1. after = [acc EXCEPT !.ok = FALSE]
    BY <1>2 DEF RateLoop
  <2>2. after = [ok |-> FALSE, rate |-> acc.rate, oldest |-> acc.oldest]
    BY <2>1 DEF IsDated
  <2> QED
    BY <2>2 DEF IsDated
<1> QED
  BY <1>1, <1>2

LEMMA OldestIsOldest ==
    ASSUME NEW rates, KnownTimes(rates), NEW path, IsSequence(path), GetRate(rates, path).ok
    PROVE  /\ GetRate(rates, path).oldest \in Int
           /\ \A k \in DOMAIN Pairs(path) : AsOld(rates, GetRate(rates, path), Pairs(path)[k])
<1> DEFINE N == Len(Pairs(path))
           p == Pairs(path)
<1>1. N \in Nat /\ DOMAIN p = 1 .. N
  BY PairsAre
<1>2. PICK f : RatesInTurn(f, rates, path)
  BY RateTrace
<1> DEFINE Good == {n \in 0 .. N : /\ IsDated(f[n])
                                   /\ f[n].ok => \A k \in 1 .. n : AsOld(rates, f[n], p[k])}
<1>3. 0 \in Good
  <2>1. f[0] = [ok |-> TRUE, rate |-> Precision, oldest |-> rates.now]
    BY <1>2 DEF RatesInTurn, NoRate
  <2>2. IsDated(f[0])
    BY <2>1 DEF IsDated, KnownTimes
  <2> QED
    BY <1>1, <2>2
<1> HIDE DEF p
<1>4. ASSUME NEW n \in 1 .. N, n - 1 \in Good PROVE n \in Good
  <2> DEFINE acc == f[n - 1]
             now == f[n]
  <2>1. now = RateLoop(rates, 0, acc, p[n])
    BY <1>2 DEF RatesInTurn, p
  <2>2. IsDated(acc) /\ (acc.ok => \A k \in 1 .. n - 1 : AsOld(rates, acc, p[k]))
    BY <1>4
  <2>3. \A k \in 1 .. n : k = n \/ k \in 1 .. n - 1
    BY <1>1
  <2>4. n \in 0 .. N
    BY <1>1
  <2> HIDE DEF acc, now
  <2>5. /\ IsDated(now)
        /\ now.ok => acc.ok /\ now.oldest <= acc.oldest /\ AsOld(rates, now, p[n])
    BY <2>1, <2>2, RateLoopStep
  <2>6. ASSUME now.ok, NEW k \in 1 .. n PROVE AsOld(rates, now, p[k])
    <3>1. CASE k = n
      BY <2>5, <2>6, <3>1
    <3>2. CASE k \in 1 .. n - 1
      <4>1. AsOld(rates, acc, p[k]) /\ now.oldest <= acc.oldest
        BY <2>2, <2>5, <2>6, <3>2
      <4>2. now.oldest \in Int /\ acc.oldest \in Int
        BY <2>2, <2>5, <2>6 DEF IsDated
      <4> QED
        BY <4>1, <4>2 DEF AsOld
    <3> QED
      BY <2>3, <3>1, <3>2
  <2> QED
    BY <2>4, <2>5, <2>6 DEF now
<1> HIDE DEF Good
<1>5. \A n \in 0 .. N : n \in Good
  BY <1>1, <1>3, <1>4, Rated!StepByStep
<1>6. N \in Good /\ GetRate(rates, path) = f[N]
  BY <1>1, <1>2, <1>5 DEF RatesInTurn
<1> QED
  BY <1>1, <1>6 DEF Good, IsDated, p

(* No answer behind a rate that is fresh enough is too old.                *)
LEMMA NoneTooOld ==
    ASSUME NEW rates, KnownTimes(rates), NEW path, IsSequence(path), NEW span \in Nat,
           span > 0, FreshRate(rates, path, span), NEW k \in DOMAIN Pairs(path)
    PROVE  rates.now - Aggregator(rates, Pairs(path)[k]).timestamp <= span
<1> DEFINE rate == GetRate(rates, path)
           time == Aggregator(rates, Pairs(path)[k]).timestamp
<1>1. rate.ok /\ rates.now - rate.oldest <= span
  BY DEF FreshRate, RateNotOutdated
<1>2. rate.oldest \in Int /\ AsOld(rates, rate, Pairs(path)[k])
  BY <1>1, OldestIsOldest
<1>3. time \in Int /\ rate.oldest <= time /\ rates.now \in Int
  BY <1>2 DEF AsOld, KnownTimes
<1> HIDE DEF rate, time
<1>4. rates.now - time <= span
  BY <1>1, <1>2, <1>3
<1> QED
  BY <1>4 DEF time

(* The times of the market are known, and no mined transaction used a rate *)
(* older than it was to be sent with.                                      *)
TimesKnown == KnownTimes(market)

FreshFor(r, age) == Converts(request[r]) => FreshRate(market, request[r].path, age)

RatesUsed ==
    Mined => \A i \in DOMAIN tx'.ids :
        LET r == tx'.ids[i]
        IN  r \in Requests /\ tx'.ages[r] \in Nat /\ FreshFor(r, tx'.ages[r])

LEMMA MinedRates ==
    ASSUME NEW w, NEW payer, NEW ids, NEW data, NEW limited, NEW budget, NEW ages,
           Mine(w, payer, ids, data, limited, budget, ages),
           \A i \in DOMAIN ids : /\ ids[i] \in Requests /\ ages[ids[i]] \in Nat
                                 /\ FreshFor(ids[i], ages[ids[i]])
    PROVE  RatesUsed
<1>1. tx'.ids = ids /\ tx'.ages = ages
  BY DEF Mine
<1> QED
  BY <1>1 DEF RatesUsed

(* All but swaps are sent with the time span of the request.               *)
LEMMA OwnSpans ==
    ASSUME NEW w, NEW payer, NEW ids, NEW data, NEW limited, NEW budget,
           Mine(w, payer, ids, data, limited, budget, RequestAges),
           \A i \in DOMAIN ids : ids[i] \in Requests /\ RatesFresh(ids[i], market)
    PROVE  RatesUsed
<1>1. ASSUME NEW i \in DOMAIN ids
      PROVE  /\ ids[i] \in Requests /\ RequestAges[ids[i]] \in Nat
             /\ FreshFor(ids[i], RequestAges[ids[i]])
  <2>1. ids[i] \in Requests /\ RatesFresh(ids[i], market)
    BY <1>1
  <2>2. RequestAges[ids[i]] = request[ids[i]].maxRateTimespan
    BY <2>1 DEF RequestAges
  <2>3. request[ids[i]].maxRateTimespan \in Nat
    BY <2>1, RequestAssumption
  <2> QED
    BY <2>1, <2>2, <2>3 DEF FreshFor, RatesFresh
<1> QED
  BY <1>1, MinedRates

LEMMA PayRates ==
    ASSUME PaymentsInv, NEW r \in Requests, NEW data, NEW max, Pay(r, data, max)
    PROVE  RatesUsed
<1> DEFINE w      == PayRequest(World(balance), market, Payer, r, data[r], max)
           ids    == << r >>
           budget == Spend(Last(request[r].path),
                           IF Converts(request[r]) THEN max
                           ELSE GetAmountToPay(r, data[r]) + FeeToPay(r))
<1>1. /\ request[r].pn # Transferable /\ CanPay(r, data[r])
      /\ Mine(w, Payer, ids, data, FALSE, budget, RequestAges)
  BY DEF Pay
<1>2. Payer \in Users /\ balance \in Balances /\ IsHub(None) /\ w.ok
  BY <1>1, PartiesAssumption, InvEmptied DEF IsHub, Mine
<1>3. RatesFresh(r, market)
  BY <1>1, <1>2, SimplePaid
<1>4. \A i \in DOMAIN ids : ids[i] \in Requests /\ RatesFresh(ids[i], market)
  BY <1>3
<1> HIDE DEF w, ids, budget
<1> QED
  BY <1>1, <1>4, OwnSpans

LEMMA SwapAndPayRates ==
    ASSUME PaymentsInv, NEW r \in Requests, NEW data, NEW path \in SwapPaths, NEW max,
           NEW cost, NEW age \in SwapAges(r), SwapAndPay(r, data, path, max, cost, age)
    PROVE  RatesUsed
<1> DEFINE fees   == config.requestSwapFees
           w      == SwapToPayRequest(World(balance), market, Payer, r, data[r], path, max,
                                      age, fees, cost)
           ids    == << r >>
           budget == Spend(path[1], max)
           ages   == [RequestAges EXCEPT ![r] = age]
<1>1. /\ request[r].pn \in {Erc20Fee, AnyToErc20}
      /\ Mine(w, Payer, ids, data, FALSE, budget, ages)
  BY DEF SwapAndPay
<1>2. /\ Payer \in Users /\ balance \in Balances /\ w.ok
      /\ \A a \in Assets : balance[a][SwapHubOf(r)] = 0
  BY <1>1, PartiesAssumption, InvEmptied DEF SwapHubOf, Mine
<1>3. request[r].pn = AnyToErc20 => FreshRate(market, request[r].path, age)
  <2> HIDE DEF fees
  <2> QED
    BY <1>2, SwapRequestPaid
<1>4. FreshFor(r, age)
  BY <1>1, <1>3 DEF FreshFor, Converts, Erc20Fee, EthFee, AnyToErc20, AnyToEth
<1>5. age \in Nat
  BY ChoicesAssumption, RequestAssumption DEF SwapAges, RequestAges
<1>6. ages[r] = age
  BY DEF RequestAges
<1> HIDE DEF ages
<1>7. \A i \in DOMAIN ids : /\ ids[i] \in Requests /\ ages[ids[i]] \in Nat
                            /\ FreshFor(ids[i], ages[ids[i]])
  BY <1>4, <1>5, <1>6
<1> HIDE DEF w, ids, budget
<1> QED
  BY <1>1, <1>7, MinedRates

LEMMA PayBatchRates ==
    ASSUME PaymentsInv, NEW ids \in Batches, NEW data, NEW max, NEW skip, NEW extra \in Extras,
           PayBatch(ids, data, max, skip, extra)
    PROVE  RatesUsed
<1> DEFINE w      == PayBatchRequest(World(balance), market, config, Payer, ids, data, max,
                                     skip, extra)
           value  == BatchTxValue(ids, data, max) + extra
           budget == [a \in Assets |-> BatchBudget(MetaDetails(ids, data, max), value, a)]
<1>1. /\ \A i \in DOMAIN ids : CanPay(ids[i], data[ids[i]])
      /\ extra > 0 => \E i \in DOMAIN ids : IsNative(ids[i])
      /\ Mine(w, Payer, ids, data, ~skip, budget, RequestAges)
  BY DEF PayBatch
<1>2. /\ Payer \in Users /\ balance \in Balances /\ w.ok
      /\ \A a \in Assets : balance[a][Batch] = 0
  BY <1>1, PartiesAssumption, InvEmptied DEF Mine
<1>3. ids \in Seq(Requests) /\ ids # << >> /\ extra \in Nat
  BY ChoicesAssumption
<1>4. DOMAIN ids = 1 .. Len(ids)
  BY <1>3
<1>5. MayBatch(ids, data) /\ (extra > 0 => \E k \in 1 .. Len(ids) : IsNative(ids[k]))
  BY <1>1, <1>3, <1>4 DEF MayBatch
<1>6. \A k \in 1 .. Len(ids) : RatesFresh(ids[k], market)
  BY <1>2, <1>3, <1>5, BatchRequestPaid
<1>7. \A i \in DOMAIN ids : ids[i] \in Requests /\ RatesFresh(ids[i], market)
  BY <1>3, <1>4, <1>6
<1> HIDE DEF w, budget
<1> QED
  BY <1>1, <1>7, OwnSpans

(* The other transactions pay no request that is converted.                *)
Direct(ids) == \A i \in DOMAIN ids : ids[i] \in Requests /\ ~Converts(request[ids[i]])

LEMMA DirectRates ==
    ASSUME NEW w, NEW payer, NEW ids, NEW data, NEW limited, NEW budget,
           Mine(w, payer, ids, data, limited, budget, RequestAges), Direct(ids)
    PROVE  RatesUsed
BY OwnSpans DEF Direct, RatesFresh

LEMMA NoIds == Direct(<< >>)
BY DEF Direct

LEMMA OneTokenRates ==
    ASSUME NEW ids \in Batches, NEW data, PayBatchOfOneToken(ids, data)
    PROVE  RatesUsed
<1>1. \A i \in DOMAIN ids : request[ids[i]].pn = Erc20Fee
  BY DEF PayBatchOfOneToken
<1>2. ids \in Seq(Requests)
  BY ChoicesAssumption
<1>3. Direct(ids)
  BY <1>1, <1>2 DEF Direct, Converts, Erc20Fee, AnyToErc20, AnyToEth
<1> QED
  BY <1>3, DirectRates DEF PayBatchOfOneToken

LEMMA RefundRates ==
    ASSUME NEW r \in Requests, NEW amount, Refund(r, amount)
    PROVE  RatesUsed
BY NoIds, DirectRates DEF Refund

LEMMA ReceivableRates ==
    ASSUME Receivables
    PROVE  RatesUsed
<1>1. ASSUME NEW r \in Requests, NEW data, MintReceivable(r, data) PROVE RatesUsed
  BY <1>1, NoIds, DirectRates DEF MintReceivable
<1>2. ASSUME NEW id, SellReceivable(id) PROVE RatesUsed
  BY <1>2, NoIds, DirectRates DEF SellReceivable
<1>3. ASSUME NEW r \in Requests, NEW data, PayReceivable(r, data) PROVE RatesUsed
  <2> DEFINE ids == << r >>
  <2>1. request[r].pn = Transferable
    BY <1>3 DEF PayReceivable
  <2>2. Direct(ids)
    BY <2>1 DEF Direct, Converts, Transferable, AnyToErc20, AnyToEth
  <2> QED
    BY <1>3, <2>2, DirectRates DEF PayReceivable
<1> QED
  BY <1>1, <1>2, <1>3 DEF Receivables

LEMMA NextRates ==
    ASSUME PaymentsInv, [Next]_vars
    PROVE  RatesUsed
<1>1. ASSUME SendPayments PROVE RatesUsed
  <2>1. PICK data \in Range(snapshots) :
            \/ \E r \in Requests :
                   \/ \E max \in Limits(<< r >>) : Pay(r, data, max)
                   \/ \E path \in SwapPaths, max \in Budgets, cost \in SwapCosts,
                         age \in SwapAges(r) :
                          SwapAndPay(r, data, path, max, cost, age)
            \/ \E ids \in Batches : \E max \in Limits(ids), skip \in BOOLEAN,
                                         extra \in Extras :
                   PayBatch(ids, data, max, skip, extra)
            \/ \E ids \in Batches : PayBatchOfOneToken(ids, data)
    BY <1>1 DEF SendPayments
  <2> QED
    BY <2>1, PayRates, SwapAndPayRates, PayBatchRates, OneTokenRates
<1>2. CASE UNCHANGED log
  BY <1>2 DEF RatesUsed, Mined
<1>3. UNCHANGED vars \/ Change => UNCHANGED log
  BY DEF vars, ledgerVars, Change
<1>4. CASE Next
  BY <1>1, <1>2, <1>3, <1>4, RefundRates, ReceivableRates
     DEF Next, UpdateMarket, Configure, DeclareReceived
<1> QED
  BY <1>2, <1>3, <1>4

LEMMA NextTimes ==
    ASSUME TimesKnown, [Next]_vars
    PROVE  TimesKnown'
<1>1. CASE market' = market
  BY <1>1 DEF TimesKnown, KnownTimes
<1>2. ASSUME UpdateMarket PROVE TimesKnown'
  <2>1. PICK m \in Markets, later \in 0 .. 1 :
            market' = [aggregators |-> m, now |-> market.now + later]
    BY <1>2 DEF UpdateMarket
  <2>2. \A pair \in DOMAIN m : m[pair].timestamp \in Int
    BY MarketAssumption
  <2>3. market'.aggregators = m /\ market'.now = market.now + later
    BY <2>1
  <2> QED
    BY <2>2, <2>3 DEF TimesKnown, KnownTimes
<1>3. ASSUME NEW w, NEW payer, NEW ids, NEW data, NEW limited, NEW budget,
             NEW ages, Mine(w, payer, ids, data, limited, budget, ages)
      PROVE  market' = market
  BY <1>3 DEF Mine
<1>4. ASSUME SendPayments PROVE market' = market
  <2>1. ASSUME NEW r, NEW data, NEW max, Pay(r, data, max) PROVE market' = market
    BY <1>3, <2>1 DEF Pay
  <2>2. ASSUME NEW r, NEW data, NEW path, NEW max, NEW cost, NEW age,
               SwapAndPay(r, data, path, max, cost, age)
        PROVE  market' = market
    BY <1>3, <2>2 DEF SwapAndPay
  <2>3. ASSUME NEW ids, NEW data, NEW max, NEW skip, NEW extra,
               PayBatch(ids, data, max, skip, extra)
        PROVE  market' = market
    BY <1>3, <2>3 DEF PayBatch
  <2>4. ASSUME NEW ids, NEW data, PayBatchOfOneToken(ids, data) PROVE market' = market
    BY <1>3, <2>4 DEF PayBatchOfOneToken
  <2> QED
    BY <1>4, <2>1, <2>2, <2>3, <2>4 DEF SendPayments
<1>5. ASSUME Receivables PROVE market' = market
  BY <1>3, <1>5 DEF Receivables, MintReceivable, SellReceivable, PayReceivable
<1>6. ASSUME NEW r \in Requests, NEW amount, Refund(r, amount) PROVE market' = market
  BY <1>3, <1>6 DEF Refund
<1>7. Configure \/ UNCHANGED vars
      \/ (\E r \in Requests, name \in {"payment", "refund"}, amount \in Declarations :
              DeclareReceived(r, name, amount))
          => market' = market
  BY DEF Configure, DeclareReceived, vars
<1> QED
  BY <1>1, <1>2, <1>4, <1>5, <1>6, <1>7 DEF Next

(***************************************************************************)
(* A payment with conversion, alone, in a batch or through a swap, uses no *)
(* aggregator's answer along its path that is older than it was to be sent *)
(* with.  Erc20ConversionProxy and EthConversionProxy compare the oldest   *)
(* answer with the span they are given: payRequest and the batch give them *)
(* the request's, a swap gives the age its payer chose, and then the rate  *)
(* may be older than the request wants.                                    *)
(***************************************************************************)
THEOREM RatesAreFreshEnough == Spec => RatesFreshEnough
<1> DEFINE Fresh ==
        Mined => \A i \in DOMAIN tx'.ids :
            LET r == tx'.ids[i]
            IN  Converts(request[r]) /\ tx'.ages[r] > 0 => NoRateOlder(r, tx'.ages[r])
<1>1. Init => TimesKnown
  <2> SUFFICES ASSUME Init PROVE TimesKnown
    OBVIOUS
  <2>1. market.aggregators = InitialMarket /\ market.now = 1
    BY DEF Init
  <2> QED
    BY <2>1, MarketAssumption DEF TimesKnown, KnownTimes
<1>2. TimesKnown /\ [Next]_vars => TimesKnown'
  BY NextTimes
<1>3. ASSUME PaymentsInv, TimesKnown, [Next]_vars PROVE Fresh
  <2> SUFFICES ASSUME Mined, NEW i \in DOMAIN tx'.ids, NEW r, r = tx'.ids[i],
                      Converts(request[r]), NEW age, age = tx'.ages[r], age > 0,
                      NEW k \in DOMAIN Pairs(request[r].path)
               PROVE  market.now - Aggregator(market, Pairs(request[r].path)[k]).timestamp
                      <= age
    BY DEF NoRateOlder
  <2>1. r \in Requests /\ age \in Nat /\ FreshFor(r, age)
    BY <1>3, NextRates DEF RatesUsed
  <2> DEFINE path == request[r].path
  <2>2. FreshRate(market, path, age) /\ k \in DOMAIN Pairs(path)
    BY <2>1 DEF FreshFor
  <2>3. IsSequence(path)
    BY <2>1, RequestAssumption DEF IsSequence
  <2> HIDE DEF path
  <2>4. market.now - Aggregator(market, Pairs(path)[k]).timestamp <= age
    BY <1>3, <2>1, <2>2, <2>3, NoneTooOld DEF TimesKnown
  <2> QED
    BY <2>4 DEF path
<1>4. PaymentsInv /\ TimesKnown /\ [Next]_vars => [Fresh]_vars
  BY <1>3
<1> HIDE DEF Fresh
<1>5. Spec => [][Fresh]_vars
  BY <1>1, <1>2, <1>4, PaymentsInvariance, PTL DEF Spec
<1> QED
  BY <1>5, PTL DEF RatesFreshEnough, Fresh
=============================================================================
