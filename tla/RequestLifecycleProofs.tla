------------------------ MODULE RequestLifecycleProofs ------------------------
(***************************************************************************)
(* Proofs about RequestLifecycle, for every set of identities, of signed   *)
(* actions and of extensions, and for every bound.                         *)
(***************************************************************************)
EXTENDS RequestLifecycle, TLAPS

-----------------------------------------------------------------------------
(***************************************************************************)
(* The payment networks of advanced-logic, for every set of networks of    *)
(* each class, every request and every signer.                             *)
(***************************************************************************)
(* The sum of the declarations named d in the history of a network.        *)
DeclarationStep(d, q, sum, event) == AddDeclared(d, sum, event)

Declarations == INSTANCE SequenceFolds WITH Op <- DeclarationStep

LEMMA DeclarationsAreFold ==
    \A d, base, events :
        FoldLeft(LAMBDA sum, event : AddDeclared(d, sum, event), base, events)
            = Declarations!Fold(d, d, base, events)
  BY DEF DeclarationStep, Declarations!Fold, FoldLeft, Declarations!FoldLeft,
         MapThenFoldSet, Declarations!MapThenFoldSet, Max, Declarations!Max

(* The state of a network: amounts declared so far, if it has any, the     *)
(* values assigned so far, and its history.                                *)
IsNetworkState(state) ==
    /\ state.declared \in [DOMAIN state.declared -> Int]
    /\ DOMAIN state.declared \subseteq DeclareActions
    /\ state.values = [field \in DOMAIN NothingGiven |-> state.values[field]]
    /\ \E Events : state.events \in Seq(Events)
    /\ state = [id |-> state.id, declared |-> state.declared,
                values |-> state.values, subs |-> state.subs,
                events |-> state.events]

LEMMA PrefixIs ==
    ASSUME NEW S, NEW s \in Seq(S), NEW T, NEW t \in Seq(T)
    PROVE  IsPrefix(s, t) <=> /\ Len(s) <= Len(t)
                              /\ \A i \in 1 .. Len(s) : s[i] = t[i]
<1> DEFINE U == S \cup T
<1>1. s \in Seq(U) /\ t \in Seq(U)
  OBVIOUS
<1>2. Len(s) \in Nat /\ Len(t) \in Nat
  OBVIOUS
<1>3. ASSUME Len(s) <= Len(t)
      PROVE  /\ SubSeq(s, 1, Len(s)) = [i \in 1 .. Len(s) |-> s[i]]
             /\ SubSeq(t, 1, Len(s)) = [i \in 1 .. Len(s) |-> t[i]]
  BY <1>1, <1>2, <1>3
<1>4. ASSUME Len(s) <= Len(t)
      PROVE  SubSeq(s, 1, Len(s)) = SubSeq(t, 1, Len(s))
                 <=> \A i \in 1 .. Len(s) : s[i] = t[i]
  BY <1>3, <1>4
<1> QED
  BY <1>4 DEF IsPrefix

LEMMA PrefixTransitive ==
    ASSUME NEW S, NEW s \in Seq(S), NEW T, NEW t \in Seq(T), NEW U, NEW u \in Seq(U),
           IsPrefix(s, t), IsPrefix(t, u)
    PROVE  IsPrefix(s, u)
<1>1. Len(s) <= Len(t) /\ \A i \in 1 .. Len(s) : s[i] = t[i]
  BY PrefixIs
<1>2. Len(t) <= Len(u) /\ \A i \in 1 .. Len(t) : t[i] = u[i]
  BY PrefixIs
<1>3. Len(s) \in Nat /\ Len(t) \in Nat /\ Len(u) \in Nat
  OBVIOUS
<1>4. Len(s) <= Len(u) /\ \A i \in 1 .. Len(s) : s[i] = u[i]
  BY <1>1, <1>2, <1>3
<1> QED
  BY <1>4, PrefixIs

LEMMA PrefixReflexive ==
    ASSUME NEW S, NEW s \in Seq(S)
    PROVE  IsPrefix(s, s)
<1>1. Len(s) <= Len(s) /\ \A i \in 1 .. Len(s) : s[i] = s[i]
  OBVIOUS
<1> QED
  BY <1>1, PrefixIs

LEMMA AppendedPrefix ==
    ASSUME NEW S, NEW s \in Seq(S), NEW e
    PROVE  IsPrefix(s, Append(s, e))
<1> DEFINE T == S \cup {e}
           t == Append(s, e)
<1>1. s \in Seq(T) /\ e \in T
  OBVIOUS
<1>2. /\ t \in Seq(T) /\ Len(t) = Len(s) + 1 /\ Len(s) \in Nat
      /\ \A i \in 1 .. Len(s) : t[i] = s[i]
  BY <1>1
<1> HIDE DEF t
<1>3. Len(s) <= Len(t) /\ \A i \in 1 .. Len(s) : s[i] = t[i]
  BY <1>2
<1> QED
  BY <1>2, <1>3, PrefixIs DEF t

(* What an update leaves in a network.                                     *)
LEMMA NetworkUpdated ==
    ASSUME NEW extAction, NEW state, IsNetworkState(state), NEW parties, NEW signer
    PROVE  LET new == UpdatedExtension(extAction, state, parties, signer)
           IN  /\ new.declared = [d \in DOMAIN state.declared |->
                      state.declared[d]
                          + (IF d = extAction.action THEN extAction.amount ELSE 0)]
               /\ new.values = Assigned(state.values, extAction, parties, signer)
               /\ new.events = Append(state.events, ExtensionEvent(extAction,
                                          Author(extAction.action, signer)))
BY DEF UpdatedExtension, IsNetworkState

(* Which value changes under which update, and who may make it.            *)
LEMMA AssignedOnce ==
    ASSUME NEW extAction, NEW state, IsNetworkState(state), NEW signer,
           NEW parties, UpdateAccepted(extAction, state, parties, signer),
           NEW field \in DOMAIN state.values,
           Assigned(state.values, extAction, parties, signer)[field] # state.values[field]
    PROVE  state.values[field] = None /\ MayAssign(field, state, parties, signer)
<1> DEFINE action == extAction.action
           old    == state.values
           new    == Assigned(old, extAction, parties, signer)
<1>1. DOMAIN old = DOMAIN NothingGiven
  BY DEF IsNetworkState
<1>2. CASE action = "addDelegate"
  <2> DEFINE role == DelegateField(parties, signer)
  <2>1. new = [old EXCEPT ![role] = extAction.delegate]
    BY <1>2 DEF Assigned
  <2>2. field = role
    BY <1>1, <2>1 DEF IsNetworkState
  <2>3. /\ old[role] = None
        /\ GetRole(signer, parties) # "third-party"
    BY <1>2 DEF UpdateAccepted, DeclarationAccepted, IsNetworkState, DeclareActions,
                AddPaymentInstructionAccepted, AddRefundInstructionAccepted,
                AddDelegateAccepted, AddPaymentAddressAccepted,
                AddRefundAddressAccepted, AddFeeAccepted
  <2>4. MayAssign(role, state, parties, signer)
    BY <2>3 DEF MayAssign, DelegateField, GetRole, PayerFields, AreEqualIdentities
  <2> QED
    BY <2>2, <2>3, <2>4
<1>3. CASE action # "addDelegate"
  <2>1. new = [f \in DOMAIN old |->
                  IF f \in AssignedFields(action) THEN extAction.given[f] ELSE old[f]]
    BY <1>3 DEF Assigned
  <2>2. field \in AssignedFields(action)
    BY <2>1
  <2>3. action \in {"addPaymentInstruction", "addRefundInstruction",
                    "addPaymentAddress", "addRefundAddress", "addFee"}
    BY <2>2 DEF AssignedFields
  <2>4. ~ DeclarationAccepted(extAction, state, parties, signer)
    BY <2>3 DEF DeclarationAccepted, IsNetworkState, DeclareActions
  <2>5. CASE action = "addPaymentInstruction"
    <3>1. field = "paymentInfo"
      BY <2>2, <2>5 DEF AssignedFields
    <3>2. AddPaymentInstructionAccepted(extAction, state, parties, signer)
      BY <2>4, <2>5 DEF UpdateAccepted, AddRefundInstructionAccepted,
                AddDelegateAccepted, AddPaymentAddressAccepted,
                AddRefundAddressAccepted, AddFeeAccepted
    <3> QED
      BY <3>1, <3>2 DEF AddPaymentInstructionAccepted, MayAssign, MaySignFor, PayerFields
  <2>6. CASE action = "addRefundInstruction"
    <3>1. field = "refundInfo"
      BY <2>2, <2>6 DEF AssignedFields
    <3>2. AddRefundInstructionAccepted(extAction, state, parties, signer)
      BY <2>4, <2>6 DEF UpdateAccepted, AddPaymentInstructionAccepted,
                AddDelegateAccepted, AddPaymentAddressAccepted,
                AddRefundAddressAccepted, AddFeeAccepted
    <3> QED
      BY <3>1, <3>2 DEF AddRefundInstructionAccepted, MayAssign, MaySignFor, PayerFields
  <2>7. CASE action = "addPaymentAddress"
    <3>1. field = "paymentAddress"
      BY <2>2, <2>7 DEF AssignedFields
    <3>2. AddPaymentAddressAccepted(extAction, state, parties, signer)
      BY <2>4, <2>7 DEF UpdateAccepted, AddPaymentInstructionAccepted,
                AddRefundInstructionAccepted, AddDelegateAccepted,
                AddRefundAddressAccepted, AddFeeAccepted
    <3> QED
      BY <3>1, <3>2 DEF AddPaymentAddressAccepted, MayAssign, PayerFields
  <2>8. CASE action = "addRefundAddress"
    <3>1. field = "refundAddress"
      BY <2>2, <2>8 DEF AssignedFields
    <3>2. AddRefundAddressAccepted(extAction, state, parties, signer)
      BY <2>4, <2>8 DEF UpdateAccepted, AddPaymentInstructionAccepted,
                AddRefundInstructionAccepted, AddDelegateAccepted,
                AddPaymentAddressAccepted, AddFeeAccepted
    <3> QED
      BY <3>1, <3>2 DEF AddRefundAddressAccepted, MayAssign, PayerFields
  <2>9. CASE action = "addFee"
    <3>1. field \in {"feeAddress", "feeAmount"}
      BY <2>2, <2>9 DEF AssignedFields
    <3>2. AddFeeAccepted(extAction, state, parties, signer)
      BY <2>4, <2>9 DEF UpdateAccepted, AddPaymentInstructionAccepted,
                AddRefundInstructionAccepted, AddDelegateAccepted,
                AddPaymentAddressAccepted, AddRefundAddressAccepted
    <3> QED
      BY <3>1, <3>2 DEF AddFeeAccepted, MayAssign, PayerFields
  <2> QED
    BY <2>3, <2>5, <2>6, <2>7, <2>8, <2>9
<1> QED
  BY <1>2, <1>3

(***************************************************************************)
(* What a step keeps of a network: its history, declared amounts that only *)
(* grow, and everything assigned, but for what the signer may assign.      *)
(***************************************************************************)
NetworkKept(old, new, parties, signer) ==
    /\ ExtensionKept(old, new, parties, signer)
    /\ DOMAIN new.declared = DOMAIN old.declared

LEMMA UpdateKeepsNetwork ==
    ASSUME NEW extAction, NEW state, IsNetworkState(state), NEW parties, NEW signer,
           UpdateAccepted(extAction, state, parties, signer)
    PROVE  LET new == UpdatedExtension(extAction, state, parties, signer)
           IN  NetworkKept(state, new, parties, signer) /\ IsNetworkState(new)
                   /\ new.subs = state.subs
<1> DEFINE new == UpdatedExtension(extAction, state, parties, signer)
           event == ExtensionEvent(extAction, Author(extAction.action, signer))
<1>1. /\ new.declared = [d \in DOMAIN state.declared |->
             state.declared[d]
                 + (IF d = extAction.action THEN extAction.amount ELSE 0)]
      /\ new.values = Assigned(state.values, extAction, parties, signer)
      /\ new.events = Append(state.events, event)
  BY NetworkUpdated
<1>2. /\ new.subs = state.subs
      /\ new = [id |-> new.id, declared |-> new.declared, values |-> new.values,
                subs |-> new.subs, events |-> new.events]
  <2> DEFINE D == [d \in DOMAIN state.declared |-> state.declared[d]
                      + (IF d = extAction.action THEN extAction.amount ELSE 0)]
             V == Assigned(state.values, extAction, parties, signer)
             E == Append(state.events, event)
  <2>1. new = [state EXCEPT !.declared = D, !.values = V, !.events = E]
    BY DEF UpdatedExtension
  <2> HIDE DEF D, V, E, new
  <2>2. state = [id |-> state.id, declared |-> state.declared,
                 values |-> state.values, subs |-> state.subs,
                 events |-> state.events]
    BY DEF IsNetworkState
  <2>3. new = [id |-> state.id, declared |-> D, values |-> V,
               subs |-> state.subs, events |-> E]
    BY <2>1, <2>2
  <2> QED
    BY <2>3
<1>3. extAction.action \in DOMAIN state.declared => extAction.amount \in Nat
  BY DEF UpdateAccepted, DeclarationAccepted, IsNetworkState, DeclareActions,
         IsValidAmount, AddPaymentInstructionAccepted, AddRefundInstructionAccepted,
         AddDelegateAccepted, AddPaymentAddressAccepted, AddRefundAddressAccepted,
         AddFeeAccepted
<1>4. new.values = [field \in DOMAIN NothingGiven |-> new.values[field]]
  <2>1. state.values = [field \in DOMAIN NothingGiven |-> state.values[field]]
    BY DEF IsNetworkState
  <2>2. DOMAIN Assigned(state.values, extAction, parties, signer) = DOMAIN NothingGiven
        /\ Assigned(state.values, extAction, parties, signer)
             = [field \in DOMAIN NothingGiven |->
                    Assigned(state.values, extAction, parties, signer)[field]]
    BY <2>1 DEF Assigned
  <2> HIDE DEF new
  <2> QED
    BY <1>1, <2>2
<1> HIDE DEF new, event
<1>5. IsPrefix(state.events, new.events) /\ \E Events : new.events \in Seq(Events)
  <2>1. PICK Events : state.events \in Seq(Events)
    BY DEF IsNetworkState
  <2>2. Append(state.events, event) \in Seq(Events \cup {event})
    BY <2>1
  <2> QED
    BY <1>1, <2>1, <2>2, AppendedPrefix
<1>6. /\ new.declared \in [DOMAIN state.declared -> Int]
      /\ \A d \in DOMAIN state.declared : new.declared[d] >= state.declared[d]
  <2>1. ASSUME NEW d \in DOMAIN state.declared
        PROVE  new.declared[d] \in Int /\ new.declared[d] >= state.declared[d]
    BY <1>1, <1>3 DEF IsNetworkState
  <2> QED
    BY <1>1, <2>1
<1>7. DOMAIN new.declared = DOMAIN state.declared
  BY <1>1
<1>8. ASSUME NEW field \in DOMAIN state.values, new.values[field] # state.values[field]
      PROVE  state.values[field] = None /\ MayAssign(field, state, parties, signer)
  BY <1>1, <1>8, AssignedOnce
<1>9. IsNetworkState(new)
  BY <1>2, <1>4, <1>5, <1>6, <1>7 DEF IsNetworkState
<1> QED
  BY <1>2, <1>5, <1>6, <1>7, <1>8, <1>9 DEF NetworkKept, ExtensionKept, new

LEMMA NothingIsKept ==
    ASSUME NEW state, IsNetworkState(state), NEW parties, NEW signer
    PROVE  NetworkKept(state, state, parties, signer)
<1>1. IsPrefix(state.events, state.events)
  BY PrefixReflexive DEF IsNetworkState
<1> QED
  BY <1>1 DEF NetworkKept, ExtensionKept, IsNetworkState

(* The right to sign for a side is not lost, and only that side gives it.  *)
LEMMA RightKept ==
    ASSUME NEW old, NEW new, IsNetworkState(old), NEW parties, NEW signer,
           NetworkKept(old, new, parties, signer), NEW role \in {"payee", "payer"}
    PROVE  /\ \A who : MaySignFor(role, old, parties, who)
                           => MaySignFor(role, new, parties, who)
           /\ MaySignFor(role, new, parties, signer)
                  => MaySignFor(role, old, parties, signer)
<1> DEFINE field == IF role = "payee" THEN "payeeDelegate" ELSE "payerDelegate"
<1>1. field \in DOMAIN old.values
  BY DEF IsNetworkState, NothingGiven
<1>2. new.values[field] # old.values[field] =>
          old.values[field] = None /\ MayAssign(field, old, parties, signer)
  BY <1>1 DEF NetworkKept, ExtensionKept
<1>3. CASE role = "payee"
  BY <1>2, <1>3 DEF MaySignFor, MayAssign, AreEqualIdentities, PayerFields
<1>4. CASE role = "payer"
  BY <1>2, <1>4 DEF MaySignFor, MayAssign, AreEqualIdentities, PayerFields
<1> QED
  BY <1>3, <1>4

LEMMA KeptTransitive ==
    ASSUME NEW old, NEW mid, NEW new, IsNetworkState(old), IsNetworkState(mid),
           IsNetworkState(new), NEW parties, NEW signer,
           NetworkKept(old, mid, parties, signer), NetworkKept(mid, new, parties, signer)
    PROVE  NetworkKept(old, new, parties, signer)
<1>1. IsPrefix(old.events, new.events)
  <2>1. PICK A : old.events \in Seq(A)
    BY DEF IsNetworkState
  <2>2. PICK B : mid.events \in Seq(B)
    BY DEF IsNetworkState
  <2>3. PICK C : new.events \in Seq(C)
    BY DEF IsNetworkState
  <2>4. IsPrefix(old.events, mid.events) /\ IsPrefix(mid.events, new.events)
    BY DEF NetworkKept, ExtensionKept
  <2> QED
    BY <2>1, <2>2, <2>3, <2>4, PrefixTransitive
<1>2. /\ DOMAIN new.declared = DOMAIN old.declared
      /\ \A d \in DOMAIN old.declared : new.declared[d] >= old.declared[d]
  <2>1. DOMAIN mid.declared = DOMAIN old.declared /\ DOMAIN new.declared = DOMAIN mid.declared
    BY DEF NetworkKept
  <2>2. ASSUME NEW d \in DOMAIN old.declared PROVE new.declared[d] >= old.declared[d]
    <3>1. mid.declared[d] >= old.declared[d] /\ new.declared[d] >= mid.declared[d]
      BY <2>1 DEF NetworkKept, ExtensionKept
    <3>2. old.declared[d] \in Int /\ mid.declared[d] \in Int /\ new.declared[d] \in Int
      BY <2>1 DEF IsNetworkState
    <3> QED
      BY <3>1, <3>2
  <2> QED
    BY <2>1, <2>2
<1>3. ASSUME NEW field \in DOMAIN old.values, new.values[field] # old.values[field]
      PROVE  old.values[field] = None /\ MayAssign(field, old, parties, signer)
  <2>1. field \in DOMAIN mid.values
    BY DEF IsNetworkState
  <2>2. CASE mid.values[field] # old.values[field]
    BY <2>2 DEF NetworkKept, ExtensionKept
  <2>3. CASE mid.values[field] = old.values[field]
    <3>1. old.values[field] = None /\ MayAssign(field, mid, parties, signer)
      BY <1>3, <2>1, <2>3 DEF NetworkKept, ExtensionKept
    <3>2. MaySignFor("payee", mid, parties, signer) => MaySignFor("payee", old, parties, signer)
      BY RightKept
    <3>3. MaySignFor("payer", mid, parties, signer) => MaySignFor("payer", old, parties, signer)
      BY RightKept
    <3>4. MayAssign(field, old, parties, signer)
      BY <3>1, <3>2, <3>3 DEF MayAssign
    <3> QED
      BY <3>1, <3>4
  <2> QED
    BY <2>2, <2>3
<1> QED
  BY <1>1, <1>2, <1>3 DEF NetworkKept, ExtensionKept

(***************************************************************************)
(* A sound network: its amounts are explained by its history, and every    *)
(* declaration in it was signed for the side it is one of.                 *)
(***************************************************************************)
DeclaredIsSum(state) ==
    \A d \in DOMAIN state.declared :
        state.declared[d] = Declarations!Fold(d, d, 0, state.events)

DeclarationsSigned(state, parties) ==
    \A i \in DOMAIN state.events :
        LET event == state.events[i]
        IN  event.name \in DOMAIN state.declared =>
                MaySignFor(DeclarationRole(event.name), state, parties, event.from)

NetworkSound(state, parties) ==
    /\ IsNetworkState(state)
    /\ DeclaredIsSum(state)
    /\ DeclarationsSigned(state, parties)

ExtensionSound(state, parties) ==
    /\ NetworkSound(state, parties)
    /\ \A salt \in DOMAIN state.subs : NetworkSound(state.subs[salt], parties)

LEMMA UpdateExplained ==
    ASSUME NEW extAction, NEW state, IsNetworkState(state), NEW parties, NEW signer,
           DeclaredIsSum(state)
    PROVE  DeclaredIsSum(UpdatedExtension(extAction, state, parties, signer))
<1> DEFINE new == UpdatedExtension(extAction, state, parties, signer)
           event == ExtensionEvent(extAction, Author(extAction.action, signer))
<1>1. /\ new.declared = [d \in DOMAIN state.declared |->
             state.declared[d]
                 + (IF d = extAction.action THEN extAction.amount ELSE 0)]
      /\ new.events = Append(state.events, event)
  BY NetworkUpdated
<1>2. event.name = extAction.action /\ event.amount = extAction.amount
  BY DEF ExtensionEvent
<1> HIDE DEF new, event
<1>3. PICK Events : state.events \in Seq(Events)
  BY DEF IsNetworkState
<1> DEFINE S == Events \cup {event}
<1>4. state.events \in Seq(S) /\ event \in S
  BY <1>3
<1> HIDE DEF S
<1>5. ASSUME NEW d \in DOMAIN state.declared
      PROVE  new.declared[d] = Declarations!Fold(d, d, 0, new.events)
  <2>1. Declarations!Fold(d, d, 0, new.events)
            = AddDeclared(d, Declarations!Fold(d, d, 0, state.events), event)
    <3>1. Declarations!Fold(d, d, 0, Append(state.events, event))
              = DeclarationStep(d, d, Declarations!Fold(d, d, 0, state.events), event)
      BY <1>4, Declarations!FoldAppend
    <3> QED
      BY <1>1, <3>1 DEF DeclarationStep
  <2>2. Declarations!Fold(d, d, 0, state.events) = state.declared[d]
    BY DEF DeclaredIsSum
  <2>3. state.declared[d] \in Int
    BY DEF IsNetworkState
  <2> QED
    BY <1>1, <1>2, <2>1, <2>2, <2>3 DEF AddDeclared
<1>6. DOMAIN new.declared = DOMAIN state.declared
  BY <1>1
<1> QED
  BY <1>5, <1>6 DEF DeclaredIsSum, new

(***************************************************************************)
(* An update keeps every declaration signed: the new one is, and no update *)
(* takes the right to sign from a delegate who has used it.                *)
(***************************************************************************)
LEMMA DeclarationsStaySigned ==
    ASSUME NEW extAction, NEW state, IsNetworkState(state), NEW parties, NEW signer,
           UpdateAccepted(extAction, state, parties, signer),
           DeclarationsSigned(state, parties)
    PROVE  DeclarationsSigned(UpdatedExtension(extAction, state, parties, signer),
                              parties)
<1> DEFINE new   == UpdatedExtension(extAction, state, parties, signer)
           event == ExtensionEvent(extAction, Author(extAction.action, signer))
<1>1. new.events = Append(state.events, event)
  <2>1. /\ new.declared = [d \in DOMAIN state.declared |->
               state.declared[d]
                   + (IF d = extAction.action THEN extAction.amount ELSE 0)]
        /\ new.values = Assigned(state.values, extAction, parties, signer)
        /\ new.events = Append(state.events, event)
    BY NetworkUpdated
  <2> QED
    BY <2>1
<1>2. NetworkKept(state, new, parties, signer)
  BY UpdateKeepsNetwork
<1>3. event.name \in DOMAIN state.declared =>
          MaySignFor(DeclarationRole(event.name), state, parties, event.from)
  <2> SUFFICES ASSUME extAction.action \in DOMAIN state.declared
               PROVE  MaySignFor(DeclarationRole(extAction.action), state, parties, signer)
    <3>1. /\ event.name = extAction.action
          /\ extAction.action \in DOMAIN state.declared => event.from = signer
      BY DEF ExtensionEvent, Author, IsNetworkState, DeclareActions
    <3> QED
      BY <3>1
  <2> QED
    BY DEF UpdateAccepted, DeclarationAccepted, IsNetworkState, DeclareActions,
           AddPaymentInstructionAccepted, AddRefundInstructionAccepted,
           AddDelegateAccepted, AddPaymentAddressAccepted,
           AddRefundAddressAccepted, AddFeeAccepted
<1> HIDE DEF new, event
<1>4. \A i \in DOMAIN new.events :
          \/ i \in DOMAIN state.events /\ new.events[i] = state.events[i]
          \/ new.events[i] = event
  <2>1. PICK Events : state.events \in Seq(Events)
    BY DEF IsNetworkState
  <2>2. /\ DOMAIN new.events = 1 .. Len(state.events) + 1
        /\ DOMAIN state.events = 1 .. Len(state.events) /\ Len(state.events) \in Nat
        /\ \A i \in 1 .. Len(state.events) + 1 :
               new.events[i] = IF i = Len(state.events) + 1 THEN event ELSE state.events[i]
    BY <1>1, <2>1
  <2> QED
    BY <2>2
<1>5. ASSUME NEW i \in DOMAIN new.events, new.events[i].name \in DOMAIN new.declared
      PROVE  MaySignFor(DeclarationRole(new.events[i].name), new, parties,
                        new.events[i].from)
  <2>1. DOMAIN new.declared = DOMAIN state.declared
    BY <1>2 DEF NetworkKept
  <2>2. MaySignFor(DeclarationRole(new.events[i].name), state, parties,
                   new.events[i].from)
    BY <1>3, <1>4, <1>5, <2>1 DEF DeclarationsSigned
  <2>3. DeclarationRole(new.events[i].name) \in {"payee", "payer"}
    BY DEF DeclarationRole
  <2> QED
    BY <1>2, <2>2, <2>3, RightKept
<1> QED
  BY <1>5 DEF DeclarationsSigned, new

LEMMA UpdateKeepsSound ==
    ASSUME NEW extAction, NEW state, NEW parties, NetworkSound(state, parties),
           NEW signer, UpdateAccepted(extAction, state, parties, signer)
    PROVE  NetworkSound(UpdatedExtension(extAction, state, parties, signer), parties)
  BY UpdateKeepsNetwork, UpdateExplained, DeclarationsStaySigned DEF NetworkSound

(* A network starts sound, whatever its creation says.                     *)
LEMMA CreatedSound ==
    ASSUME NEW extAction, NEW parties
    PROVE  /\ NetworkSound(CreatedExtension(extAction), parties)
           /\ CreatedExtension(extAction).subs = << >>
<1> DEFINE new == CreatedExtension(extAction)
           event == [name |-> "create", from |-> None, amount |-> 0]
<1>1. /\ new.declared = [d \in DOMAIN new.declared |-> 0]
      /\ DOMAIN new.declared \subseteq DeclareActions
      /\ new.values = [field \in DOMAIN NothingGiven |-> new.values[field]]
      /\ new.events \in {<< >>, << event >>}
      /\ new.subs = << >>
      /\ new = [id |-> new.id, declared |-> new.declared, values |-> new.values,
                subs |-> new.subs, events |-> new.events]
  BY DEF CreatedExtension
<1> HIDE DEF new
<1>2. event.name = "create"
  OBVIOUS
<1> HIDE DEF event
<1>3. IsNetworkState(new)
  <2>1. << >> \in Seq({event}) /\ << event >> \in Seq({event})
    OBVIOUS
  <2>2. new.events \in Seq({event})
    BY <1>1, <2>1
  <2> QED
    BY <1>1, <2>2 DEF IsNetworkState
<1>4. ASSUME NEW d \in DOMAIN new.declared
      PROVE  Declarations!Fold(d, d, 0, new.events) = 0
  <2>1. Declarations!Fold(d, d, 0, << >>) = 0
    BY Declarations!FoldEmpty
  <2>2. Declarations!Fold(d, d, 0, << event >>) = AddDeclared(d, 0, event)
    BY Declarations!FoldOne DEF DeclarationStep
  <2>3. AddDeclared(d, 0, event) = 0
    BY <1>1, <1>2 DEF AddDeclared, DeclareActions
  <2> QED
    BY <1>1, <2>1, <2>2, <2>3
<1>5. DeclaredIsSum(new)
  BY <1>1, <1>4 DEF DeclaredIsSum
<1>6. DeclarationsSigned(new, parties)
  <2>1. \A i \in DOMAIN new.events : new.events[i] = event
    BY <1>1
  <2> QED
    BY <1>1, <1>2, <2>1 DEF DeclarationsSigned, DeclareActions
<1> QED
  BY <1>1, <1>3, <1>5, <1>6 DEF NetworkSound, new

LEMMA CreateAllSound ==
    ASSUME NEW extAction, NEW parties
    PROVE  ExtensionSound(CreateAll(extAction), parties)
<1> DEFINE new == CreatedExtension(extAction)
<1>1. NetworkSound(new, parties) /\ new.subs = << >>
  BY CreatedSound
<1> HIDE DEF new
<1>2. CASE extAction.id \in MetaIds
  <2> DEFINE all == [new EXCEPT !.subs = CreatedSubs(extAction)]
  <2>1. CreateAll(extAction) = all
    BY <1>2 DEF CreateAll, new
  <2>2. /\ all.subs = CreatedSubs(extAction)
        /\ all.declared = new.declared /\ all.values = new.values
        /\ all.events = new.events
        /\ all = [id |-> all.id, declared |-> all.declared, values |-> all.values,
                  subs |-> all.subs, events |-> all.events]
    <3>1. new = [id |-> new.id, declared |-> new.declared, values |-> new.values,
                 subs |-> new.subs, events |-> new.events]
      BY <1>1 DEF NetworkSound, IsNetworkState
    <3>2. all = [id |-> new.id, declared |-> new.declared, values |-> new.values,
                 subs |-> CreatedSubs(extAction), events |-> new.events]
      BY <3>1
    <3> HIDE DEF all
    <3> QED
      BY <3>2
  <2> HIDE DEF all
  <2>3. NetworkSound(all, parties)
    BY <1>1, <2>2 DEF NetworkSound, IsNetworkState, DeclaredIsSum,
                      DeclarationsSigned, MaySignFor
  <2>4. ASSUME NEW salt \in DOMAIN all.subs PROVE NetworkSound(all.subs[salt], parties)
    BY <2>2, CreatedSound DEF CreatedSubs
  <2> QED
    BY <2>1, <2>3, <2>4 DEF ExtensionSound
<1>3. CASE extAction.id \notin MetaIds
  <2>1. CreateAll(extAction) = new
    BY <1>3 DEF CreateAll, new
  <2> QED
    BY <1>1, <2>1 DEF ExtensionSound
<1> QED
  BY <1>2, <1>3

(***************************************************************************)
(* One extension action accepted by a fold that started from the           *)
(* extensions of `parties`: what it leaves in the extension it is for is   *)
(* sound, and kept unless the fold itself created it.                      *)
(***************************************************************************)
AllSound(extensions, parties) ==
    \A id \in DOMAIN extensions : ExtensionSound(extensions[id], parties)

SubsKept(old, new, parties, signer) ==
    /\ DOMAIN new.subs = DOMAIN old.subs
    /\ \A salt \in DOMAIN old.subs :
           NetworkKept(old.subs[salt], new.subs[salt], parties, signer)

AllKept(old, new, parties, signer) ==
    \A id \in DOMAIN old :
        /\ id \in DOMAIN new
        /\ NetworkKept(old[id], new[id], parties, signer)
        /\ SubsKept(old[id], new[id], parties, signer)

LEMMA ApplyToPnSound ==
    ASSUME NEW extAction, NEW state, NEW parties, NEW signer,
           ExtensionSound(state, parties),
           extAction.action = "applyActionToPn",
           extAction.subs[1].salt \in DOMAIN state.subs,
           UpdateAccepted(ActionOnSub(extAction, state),
                          state.subs[extAction.subs[1].salt], parties, signer)
    PROVE  LET new == ApplyActionToPn(extAction, state, parties, signer)
           IN  /\ ExtensionSound(new, parties)
               /\ NetworkKept(state, new, parties, signer)
               /\ SubsKept(state, new, parties, signer)
<1> DEFINE salt  == extAction.subs[1].salt
           event == ExtensionEvent(extAction, signer)
           sub   == UpdatedExtension(ActionOnSub(extAction, state), state.subs[salt],
                                     parties, signer)
           subs  == [state.subs EXCEPT ![salt] = sub]
           events == Append(state.events, event)
           new   == ApplyActionToPn(extAction, state, parties, signer)
<1>1. IsNetworkState(state)
  BY DEF ExtensionSound, NetworkSound
<1>2. new = [state EXCEPT !.subs = subs, !.events = events]
  BY DEF ApplyActionToPn
<1>3. NetworkSound(state.subs[salt], parties)
  BY DEF ExtensionSound
<1>4. NetworkSound(sub, parties) /\ NetworkKept(state.subs[salt], sub, parties, signer)
  BY <1>3, UpdateKeepsSound, UpdateKeepsNetwork DEF NetworkSound
<1>5. event.name = "applyActionToPn"
  BY DEF ExtensionEvent
<1> HIDE DEF sub, new, event
<1>6. /\ DOMAIN subs = DOMAIN state.subs
      /\ \A other \in DOMAIN state.subs :
             subs[other] = IF other = salt THEN sub ELSE state.subs[other]
  OBVIOUS
<1> HIDE DEF subs
<1>7. /\ new.declared = state.declared /\ new.values = state.values
      /\ new.subs = subs /\ new.events = events
      /\ new = [id |-> new.id, declared |-> new.declared, values |-> new.values,
                subs |-> new.subs, events |-> new.events]
  <2>1. state = [id |-> state.id, declared |-> state.declared,
                 values |-> state.values, subs |-> state.subs,
                 events |-> state.events]
    BY <1>1 DEF IsNetworkState
  <2> HIDE DEF events
  <2>2. new = [id |-> state.id, declared |-> state.declared, values |-> state.values,
               subs |-> subs, events |-> events]
    BY <1>2, <2>1
  <2> QED
    BY <2>2
<1>8. PICK Events : state.events \in Seq(Events)
  BY <1>1 DEF IsNetworkState
<1> DEFINE S == Events \cup {event}
<1>9. state.events \in Seq(S) /\ event \in S /\ events \in Seq(S)
  BY <1>8
<1> HIDE DEF S
<1>10. IsNetworkState(new)
  BY <1>1, <1>7, <1>9 DEF IsNetworkState
<1>11. DeclaredIsSum(new)
  <2>1. ASSUME NEW d \in DOMAIN state.declared
        PROVE  state.declared[d] = Declarations!Fold(d, d, 0, events)
    <3>1. Declarations!Fold(d, d, 0, events)
              = DeclarationStep(d, d, Declarations!Fold(d, d, 0, state.events), event)
      BY <1>9, Declarations!FoldAppend
    <3>2. d # event.name
      BY <1>1, <1>5 DEF IsNetworkState, DeclareActions
    <3>3. state.declared[d] = Declarations!Fold(d, d, 0, state.events)
      BY DEF ExtensionSound, NetworkSound, DeclaredIsSum
    <3> QED
      BY <3>1, <3>2, <3>3 DEF DeclarationStep, AddDeclared
  <2> HIDE DEF events
  <2> QED
    BY <1>7, <2>1 DEF DeclaredIsSum
<1>12. DeclarationsSigned(new, parties)
  <2>1. ASSUME NEW i \in DOMAIN events, events[i].name \in DOMAIN state.declared
        PROVE  i \in DOMAIN state.events /\ events[i] = state.events[i]
    <3>1. events[i] # event
      BY <1>1, <1>5, <2>1 DEF IsNetworkState, DeclareActions
    <3> QED
      BY <1>9, <3>1
  <2>2. DeclarationsSigned(state, parties)
    BY DEF ExtensionSound, NetworkSound
  <2> HIDE DEF events
  <2> QED
    BY <1>7, <2>1, <2>2 DEF DeclarationsSigned, MaySignFor
<1>13. ExtensionSound(new, parties)
  <2>1. ASSUME NEW other \in DOMAIN new.subs PROVE NetworkSound(new.subs[other], parties)
    BY <1>4, <1>6, <1>7 DEF ExtensionSound
  <2> QED
    BY <1>10, <1>11, <1>12, <2>1 DEF ExtensionSound, NetworkSound
<1>14. NetworkKept(state, new, parties, signer)
  <2>1. IsPrefix(state.events, events)
    BY <1>8, AppendedPrefix
  <2>2. NetworkKept(state, state, parties, signer)
    BY <1>1, NothingIsKept
  <2> HIDE DEF events
  <2> QED
    BY <1>7, <2>1, <2>2 DEF NetworkKept, ExtensionKept
<1>15. SubsKept(state, new, parties, signer)
  <2>1. ASSUME NEW other \in DOMAIN state.subs
        PROVE  NetworkKept(state.subs[other], new.subs[other], parties, signer)
    <3>1. CASE other = salt
      BY <1>4, <1>6, <1>7, <3>1
    <3>2. CASE other # salt
      <4>1. IsNetworkState(state.subs[other])
        BY DEF ExtensionSound, NetworkSound
      <4> QED
        BY <1>6, <1>7, <3>2, <4>1, NothingIsKept
    <3> QED
      BY <3>1, <3>2
  <2> QED
    BY <1>6, <1>7, <2>1 DEF SubsKept
<1> QED
  BY <1>13, <1>14, <1>15 DEF new

LEMMA StepSound ==
    ASSUME NEW extensions, NEW extAction, NEW parties, NEW signer,
           AllSound(extensions, parties),
           \A id \in DOMAIN parties.extensions :
               /\ id \in DOMAIN extensions
               /\ SubsKept(parties.extensions[id], extensions[id], parties, signer),
           StepAccepted(extensions, extAction, parties, signer)
    PROVE  LET new == Step(extensions, extAction, parties, signer)
           IN  /\ ExtensionSound(new, parties)
               /\ extAction.id \in DOMAIN parties.extensions =>
                      /\ NetworkKept(extensions[extAction.id], new, parties, signer)
                      /\ SubsKept(extensions[extAction.id], new, parties, signer)
<1> DEFINE state == extensions[extAction.id]
           new   == Step(extensions, extAction, parties, signer)
<1>1. CASE extAction.action = "create"
  <2>1. new = CreateAll(extAction)
    BY <1>1 DEF Step
  <2>2. CreateAllAccepted(extAction, parties)
    BY <1>1 DEF StepAccepted
  <2>3. extAction.id \notin DOMAIN parties.extensions
    BY <2>2 DEF CreateAllAccepted, CreationAccepted
  <2> HIDE DEF new
  <2> QED
    BY <2>1, <2>3, CreateAllSound DEF new
<1>2. CASE extAction.action # "create"
  <2>1. /\ extAction.id \in DOMAIN extensions
        /\ \/ UpdateAccepted(extAction, state, parties, signer)
           \/ ApplyActionToPnAccepted(extAction, state, parties, signer)
    BY <1>2 DEF StepAccepted
  <2>2. ExtensionSound(state, parties) /\ IsNetworkState(state)
    BY <2>1 DEF AllSound, ExtensionSound, NetworkSound
  <2>3. CASE UpdateAccepted(extAction, state, parties, signer)
    <3>1. extAction.action # "applyActionToPn"
      BY <2>2, <2>3
         DEF UpdateAccepted, DeclarationAccepted, IsNetworkState, DeclareActions,
             AddPaymentInstructionAccepted, AddRefundInstructionAccepted,
             AddDelegateAccepted, AddPaymentAddressAccepted,
             AddRefundAddressAccepted, AddFeeAccepted
    <3>2. new = UpdatedExtension(extAction, state, parties, signer)
      BY <1>2, <3>1 DEF Step
    <3> HIDE DEF new, state
    <3>3. /\ NetworkKept(state, new, parties, signer)
          /\ IsNetworkState(new) /\ new.subs = state.subs
      BY <2>2, <2>3, <3>2, UpdateKeepsNetwork
    <3>4. NetworkSound(new, parties)
      BY <2>2, <2>3, <3>2, UpdateKeepsSound DEF ExtensionSound
    <3>5. ExtensionSound(new, parties)
      BY <2>2, <3>3, <3>4 DEF ExtensionSound
    <3>6. SubsKept(state, new, parties, signer)
      <4>1. ASSUME NEW salt \in DOMAIN state.subs
            PROVE  NetworkKept(state.subs[salt], new.subs[salt], parties, signer)
        <5>1. IsNetworkState(state.subs[salt])
          BY <2>2 DEF ExtensionSound, NetworkSound
        <5> QED
          BY <3>3, <5>1, NothingIsKept
      <4> QED
        BY <3>3, <4>1 DEF SubsKept
    <3> QED
      BY <3>3, <3>5, <3>6 DEF new, state
  <2>4. CASE ApplyActionToPnAccepted(extAction, state, parties, signer)
    <3>1. /\ extAction.action = "applyActionToPn"
          /\ extAction.subs[1].salt \in DOMAIN state.subs
          /\ UpdateAccepted(ActionOnSub(extAction, state),
                            state.subs[extAction.subs[1].salt], parties, signer)
      BY <2>4 DEF ApplyActionToPnAccepted, SubsKept
    <3>2. new = ApplyActionToPn(extAction, state, parties, signer)
      BY <1>2, <3>1 DEF Step
    <3> HIDE DEF new, state
    <3> QED
      BY <2>2, <3>1, <3>2, ApplyToPnSound DEF new, state
  <2> QED
    BY <2>1, <2>3, <2>4
<1> QED
  BY <1>1, <1>2

(***************************************************************************)
(* The fold of applyActionToRequest, started on sound extensions.          *)
(***************************************************************************)
ReduceStep(parties, signer, acc, extAction) ==
    ApplyActionToExtensions(acc, extAction, parties, signer)

Reduce == INSTANCE SequenceFolds WITH Op <- ReduceStep

LEMMA ReduceIsFold ==
    ASSUME NEW data, NEW parties, NEW signer
    PROVE  ReduceExtensions(data, parties, signer) =
               Reduce!Fold(parties, signer,
                           [ok |-> TRUE, extensions |-> parties.extensions], data)
  BY DEF ReduceExtensions, ReduceStep, Reduce!Fold, FoldLeft, Reduce!FoldLeft,
         MapThenFoldSet, Reduce!MapThenFoldSet, Max, Reduce!Max

Good(acc, parties, signer) ==
    /\ acc = [ok |-> acc.ok, extensions |-> acc.extensions]
    /\ acc.ok => /\ AllSound(acc.extensions, parties)
                 /\ AllKept(parties.extensions, acc.extensions, parties, signer)

LEMMA StepGood ==
    ASSUME NEW parties, NEW signer, AllSound(parties.extensions, parties),
           NEW acc, Good(acc, parties, signer), NEW extAction
    PROVE  Good(ReduceStep(parties, signer, acc, extAction), parties, signer)
<1> DEFINE old == parties.extensions
           mid == acc.extensions
           id  == extAction.id
           step == Step(mid, extAction, parties, signer)
<1>1. CASE acc.ok /\ StepAccepted(mid, extAction, parties, signer)
  <2> DEFINE new == [other \in DOMAIN mid \cup {id} |->
                        IF other = id THEN step ELSE mid[other]]
  <2>1. ReduceStep(parties, signer, acc, extAction) = [acc EXCEPT !.extensions = new]
    BY <1>1 DEF ReduceStep, ApplyActionToExtensions
  <2>2. AllSound(mid, parties) /\ AllKept(old, mid, parties, signer)
    BY <1>1 DEF Good
  <2>3. /\ ExtensionSound(step, parties)
        /\ id \in DOMAIN old => /\ NetworkKept(mid[id], step, parties, signer)
                                /\ SubsKept(mid[id], step, parties, signer)
    BY <1>1, <2>2, StepSound DEF AllKept
  <2>4. /\ DOMAIN new = {id} \cup DOMAIN mid
        /\ new[id] = step
        /\ \A other \in DOMAIN mid : other # id => new[other] = mid[other]
    OBVIOUS
  <2> HIDE DEF new, step
  <2>5. AllSound(new, parties)
    BY <2>2, <2>3, <2>4 DEF AllSound
  <2>6. AllKept(old, new, parties, signer)
    <3>1. ASSUME NEW other \in DOMAIN old, other = id
          PROVE  /\ NetworkKept(old[id], new[id], parties, signer)
                 /\ SubsKept(old[id], new[id], parties, signer)
      <4>1. /\ NetworkKept(old[id], mid[id], parties, signer)
            /\ SubsKept(old[id], mid[id], parties, signer)
            /\ id \in DOMAIN mid
        BY <2>2, <3>1 DEF AllKept
      <4>2. ExtensionSound(old[id], parties) /\ ExtensionSound(mid[id], parties)
        BY <2>2, <3>1, <4>1 DEF AllSound
      <4>3. NetworkKept(old[id], step, parties, signer)
        BY <2>3, <3>1, <4>1, <4>2, KeptTransitive DEF ExtensionSound, NetworkSound
      <4>4. ASSUME NEW salt \in DOMAIN old[id].subs
            PROVE  NetworkKept(old[id].subs[salt], step.subs[salt], parties, signer)
        <5>1. /\ NetworkKept(old[id].subs[salt], mid[id].subs[salt], parties, signer)
              /\ salt \in DOMAIN mid[id].subs
              /\ NetworkKept(mid[id].subs[salt], step.subs[salt], parties, signer)
              /\ salt \in DOMAIN step.subs
          BY <2>3, <3>1, <4>1 DEF SubsKept
        <5>2. /\ IsNetworkState(old[id].subs[salt])
              /\ IsNetworkState(mid[id].subs[salt])
              /\ IsNetworkState(step.subs[salt])
          BY <2>3, <4>2, <5>1 DEF ExtensionSound, NetworkSound
        <5> QED
          BY <5>1, <5>2, KeptTransitive
      <4>5. SubsKept(old[id], step, parties, signer)
        BY <2>3, <3>1, <4>1, <4>4 DEF SubsKept
      <4> QED
        BY <2>4, <4>3, <4>5
    <3>2. ASSUME NEW other \in DOMAIN old
          PROVE  other \in DOMAIN new
                 /\ NetworkKept(old[other], new[other], parties, signer)
                 /\ SubsKept(old[other], new[other], parties, signer)
      BY <2>2, <2>4, <3>1 DEF AllKept
    <3> QED
      BY <3>2 DEF AllKept
  <2>7. Good([acc EXCEPT !.extensions = new], parties, signer)
    <3>1. [acc EXCEPT !.extensions = new] = [ok |-> acc.ok, extensions |-> new]
      BY DEF Good
    <3> QED
      BY <2>5, <2>6, <3>1 DEF Good
  <2> QED
    BY <2>1, <2>7
<1>2. CASE ~(acc.ok /\ StepAccepted(mid, extAction, parties, signer))
  <2>1. ReduceStep(parties, signer, acc, extAction) = [acc EXCEPT !.ok = FALSE]
    BY <1>2 DEF ReduceStep, ApplyActionToExtensions
  <2>2. PICK k, e : acc = [ok |-> k, extensions |-> e]
    BY DEF Good
  <2>3. ASSUME NEW b
        PROVE  [acc EXCEPT !.ok = b] = [ok |-> b, extensions |-> e]
    BY <2>2
  <2>4. [acc EXCEPT !.ok = FALSE] = [ok |-> FALSE, extensions |-> e]
    BY <2>3
  <2> QED
    BY <2>1, <2>4 DEF Good
<1> QED
  BY <1>1, <1>2

LEMMA NothingResets ==
    ASSUME NEW extensions, NEW parties, NEW signer, AllSound(extensions, parties)
    PROVE  AllKept(extensions, extensions, parties, signer)
<1>1. ASSUME NEW id \in DOMAIN extensions
      PROVE  LET state == extensions[id]
             IN  /\ NetworkKept(state, state, parties, signer)
                 /\ SubsKept(state, state, parties, signer)
  <2> DEFINE state == extensions[id]
  <2>1. ExtensionSound(state, parties)
    BY DEF AllSound
  <2> HIDE DEF state
  <2>2. NetworkKept(state, state, parties, signer)
    BY <2>1, NothingIsKept DEF ExtensionSound, NetworkSound
  <2>3. \A salt \in DOMAIN state.subs :
            NetworkKept(state.subs[salt], state.subs[salt], parties, signer)
    BY <2>1, NothingIsKept DEF ExtensionSound, NetworkSound
  <2> QED
    BY <2>2, <2>3 DEF SubsKept, state
<1> QED
  BY <1>1 DEF AllKept

LEMMA ReduceGood ==
    ASSUME NEW S, NEW data \in Seq(S), NEW parties, NEW signer,
           AllSound(parties.extensions, parties)
    PROVE  Good(ReduceExtensions(data, parties, signer), parties, signer)
<1> DEFINE base == [ok |-> TRUE, extensions |-> parties.extensions]
           N    == Len(data)
<1>1. PICK f : /\ Reduce!IsTrace(parties, signer, f, base, data)
               /\ Reduce!Fold(parties, signer, base, data) = f[N]
  BY Reduce!FoldTrace
<1>2. N \in Nat
  OBVIOUS
<1> DEFINE Reached == {n \in Nat : n <= N => Good(f[n], parties, signer)}
<1>3. 0 \in Reached
  <2>1. f[0] = base
    BY <1>1 DEF Reduce!IsTrace
  <2>2. AllKept(parties.extensions, parties.extensions, parties, signer)
    BY NothingResets
  <2>3. Good(base, parties, signer)
    BY <2>2 DEF Good
  <2> QED
    BY <2>1, <2>3
<1>4. ASSUME NEW n \in Nat, n \in Reached PROVE n + 1 \in Reached
  <2>1. SUFFICES ASSUME n + 1 <= N PROVE Good(f[n + 1], parties, signer)
    OBVIOUS
  <2>2. n + 1 \in 1 .. N /\ (n + 1) - 1 = n
    BY <1>2, <2>1
  <2>3. f[n + 1] = ReduceStep(parties, signer, f[n], data[n + 1])
    BY <1>1, <2>2 DEF Reduce!IsTrace
  <2>4. Good(f[n], parties, signer)
    BY <1>2, <1>4, <2>1
  <2> QED
    BY <2>3, <2>4, StepGood
<1> HIDE DEF Reached
<1>5. \A n \in Nat : n \in Reached
  BY <1>3, <1>4, Reduce!NatInductive
<1>6. Good(f[N], parties, signer)
  BY <1>2, <1>5 DEF Reached
<1> QED
  BY <1>1, <1>6, ReduceIsFold

(* Only the parties of a request count, not the rest of it.                *)
LEMMA SameParties ==
    ASSUME NEW p, NEW q, p.payee = q.payee, p.payer = q.payer, NEW signer
    PROVE  /\ \A extensions : AllSound(extensions, p) => AllSound(extensions, q)
           /\ \A old, new : AllKept(old, new, p, signer) => AllKept(old, new, q, signer)
<1>1. \A role, state, who :
          MaySignFor(role, state, p, who) <=> MaySignFor(role, state, q, who)
  BY DEF MaySignFor
<1>2. \A field, state : MayAssign(field, state, p, signer)
                            <=> MayAssign(field, state, q, signer)
  BY <1>1 DEF MayAssign
<1>3. \A state : NetworkSound(state, p) => NetworkSound(state, q)
  BY <1>1 DEF NetworkSound, DeclarationsSigned
<1>4. \A old, new : NetworkKept(old, new, p, signer) => NetworkKept(old, new, q, signer)
  BY <1>2 DEF NetworkKept, ExtensionKept
<1> QED
  BY <1>3, <1>4 DEF AllSound, ExtensionSound, AllKept, SubsKept


-----------------------------------------------------------------------------

(* The ledger is a fold over the history.                                  *)
LedgerStep(p, q, sum, event) == AddSigned(sum, event)

Ledger == INSTANCE SequenceFolds WITH Op <- LedgerStep

LEMMA LedgerIsFold ==
    \A base, events :
        FoldLeft(AddSigned, base, events) = Ledger!Fold(0, 0, base, events)
  BY DEF LedgerStep, Ledger!Fold, FoldLeft, Ledger!FoldLeft, MapThenFoldSet,
         Ledger!MapThenFoldSet, Max, Ledger!Max

-----------------------------------------------------------------------------
(***************************************************************************)
(* The event of a well-typed action that is not unknown is well typed.     *)
(***************************************************************************)
LEMMA EventType ==
    ASSUME NEW a \in Action, a.name \in ActionNames
    PROVE  Event(a) \in RequestEvent
  BY DEF Action, Event, RequestEvent

(***************************************************************************)
(* A creation that is accepted makes a well-typed request whose history is *)
(* that one creation.                                                      *)
(***************************************************************************)
LEMMA CreatedFields ==
    ASSUME NEW a \in Action, CreateAccepted(a), NEW r,
           r = Applied(None, a)
    PROVE  /\ r \in RequestOf(r.extensions)
           /\ r.payee = a.payee /\ r.payer = a.payer /\ r.creator = a.signer
           /\ r.state = IF GetRole(a.signer, a) = "payee"
                        THEN "created" ELSE "accepted"
           /\ r.expectedAmount = a.amount /\ a.amount \in Nat
           /\ r.events = << Event(a) >>
           /\ CoreApplied(None, a) \in RequestOf(<< >>)
           /\ CoreApplied(None, a).payee = a.payee
           /\ CoreApplied(None, a).payer = a.payer
  <1>1. Event(a) \in RequestEvent
    BY EventType DEF CreateAccepted, ActionNames
  <1>2. CreatedRequest(a) \in RequestOf(<< >>)
    BY <1>1 DEF CreatedRequest, RequestOf, Action, CreateAccepted,
                IsValidAmount, States
  <1>3. CoreApplied(None, a) = CreatedRequest(a)
    BY DEF CoreApplied
  <1>4. \E e : r = [CreatedRequest(a) EXCEPT !.extensions = e]
    <2>1. CASE HasAdvancedLogic
      BY <1>3, <2>1 DEF Applied
    <2>2. CASE ~HasAdvancedLogic
      <3>1. CreatedRequest(a) = [CreatedRequest(a) EXCEPT !.extensions = << >>]
        BY DEF CreatedRequest
      <3> QED  BY <1>3, <2>2, <3>1 DEF Applied
    <2> QED  BY <2>1, <2>2
  <1>5. PICK e : r = [CreatedRequest(a) EXCEPT !.extensions = e]
    BY <1>4
  <1>6. r \in RequestOf(e) /\ r.extensions = e
    BY <1>2, <1>5 DEF RequestOf
  <1>7. /\ CreatedRequest(a).payee = a.payee
        /\ CreatedRequest(a).payer = a.payer
    BY DEF CreatedRequest
  <1>8. /\ r.payee = a.payee /\ r.payer = a.payer /\ r.creator = a.signer
        /\ r.state = IF GetRole(a.signer, a) = "payee"
                     THEN "created" ELSE "accepted"
        /\ r.expectedAmount = a.amount /\ a.amount \in Nat
        /\ r.events = << Event(a) >>
    BY <1>5, <1>6 DEF CreatedRequest, CreateAccepted, IsValidAmount
  <1> QED
    BY <1>2, <1>3, <1>6, <1>7, <1>8

(***************************************************************************)
(* An accepted update keeps the request well typed and its parties as they *)
(* are, adds its event at the end of the history and sets the state that   *)
(* its name calls for.                                                     *)
(***************************************************************************)
LEMMA UpdatedFields ==
    ASSUME NEW q, q # None, NEW exts, q \in RequestOf(exts),
           NEW a \in Action, UpdateRequestAccepted(q, a),
           NEW r, r = Applied(q, a)
    PROVE  /\ r \in RequestOf(r.extensions)
           /\ r.payee = q.payee /\ r.payer = q.payer /\ r.creator = q.creator
           /\ r.state = NextState(q, a)
           /\ r.expectedAmount = NextAmount(q, a)
           /\ r.events = Append(q.events, Event(a))
           /\ a.name \in UpdateNames
           /\ CoreApplied(q, a) \in RequestOf(exts)
           /\ CoreApplied(q, a).payee = q.payee
           /\ CoreApplied(q, a).payer = q.payer
  <1>1. a.name \in UpdateNames
    BY DEF UpdateRequestAccepted, AcceptAccepted, CancelAccepted,
           IncreaseAccepted, ReduceAccepted, AddStakeholdersAccepted,
           AddExtensionsDataAccepted, UpdateNames
  <1>2. Event(a) \in RequestEvent
    BY <1>1, EventType DEF ActionNames
  <1>3. NextAmount(q, a) \in Nat
    BY DEF NextAmount, UpdateRequestAccepted, AcceptAccepted, CancelAccepted,
           IncreaseAccepted, ReduceAccepted, AddStakeholdersAccepted,
           AddExtensionsDataAccepted, IsValidAmount, RequestOf, Action
  <1>4. NextState(q, a) \in States
    BY DEF NextState, RequestOf, States
  <1>5. /\ q.extensionsData \o a.extensionsData \in Seq(ExtensionAction)
        /\ Append(q.events, Event(a)) \in Seq(RequestEvent)
    BY <1>2 DEF RequestOf, Action
  <1>6. UpdatedRequest(q, a) \in RequestOf(exts)
    BY <1>3, <1>4, <1>5 DEF UpdatedRequest, Recorded, RequestOf
  <1>7. /\ UpdatedRequest(q, a).payee = q.payee
        /\ UpdatedRequest(q, a).payer = q.payer
        /\ UpdatedRequest(q, a).creator = q.creator
        /\ UpdatedRequest(q, a).state = NextState(q, a)
        /\ UpdatedRequest(q, a).expectedAmount = NextAmount(q, a)
        /\ UpdatedRequest(q, a).events = Append(q.events, Event(a))
    BY DEF UpdatedRequest, Recorded, RequestOf
  <1>8. CoreApplied(q, a) = UpdatedRequest(q, a)
    BY DEF CoreApplied
  <1>9. \E e : r = [UpdatedRequest(q, a) EXCEPT !.extensions = e]
    <2>1. CASE HasAdvancedLogic
      BY <1>8, <2>1 DEF Applied
    <2>2. CASE ~HasAdvancedLogic
      <3>1. UpdatedRequest(q, a) =
                [UpdatedRequest(q, a) EXCEPT !.extensions = exts]
        BY <1>6 DEF RequestOf
      <3> QED  BY <1>8, <2>2, <3>1 DEF Applied
    <2> QED  BY <2>1, <2>2
  <1>10. PICK e : r = [UpdatedRequest(q, a) EXCEPT !.extensions = e]
    BY <1>9
  <1>11. r \in RequestOf(e) /\ r.extensions = e
    BY <1>6, <1>10 DEF RequestOf
  <1>12. /\ r.payee = UpdatedRequest(q, a).payee
         /\ r.payer = UpdatedRequest(q, a).payer
         /\ r.creator = UpdatedRequest(q, a).creator
         /\ r.state = UpdatedRequest(q, a).state
         /\ r.expectedAmount = UpdatedRequest(q, a).expectedAmount
         /\ r.events = UpdatedRequest(q, a).events
    BY <1>6, <1>10 DEF RequestOf
  <1> QED
    BY <1>1, <1>6, <1>7, <1>8, <1>11, <1>12

(***************************************************************************)
(* A step of the specification is the creation, or an update accepted by   *)
(* the request as it stands.                                               *)
(***************************************************************************)
LEMMA StepCases ==
    ASSUME Next
    PROVE  \E a \in Action :
               /\ request' = Applied(request, a)
               /\ HasAdvancedLogic => ExtensionsReduced(request, a).ok
               /\ \/ request = None /\ CreateAccepted(a)
                  \/ request # None /\ UpdateRequestAccepted(request, a)
  BY ActionsAssumption
     DEF Next, Create, Update, Accept, Cancel, IncreaseExpectedAmount,
         ReduceExpectedAmount, AddStakeholders, AddExtensionsData,
         Accepts, CoreAccepts

(***************************************************************************)
(* The extensions of an applied action are those its fold leaves.          *)
(***************************************************************************)
LEMMA AppliedExtensions ==
    ASSUME NEW q, NEW a \in Action, NEW exts, CoreApplied(q, a) \in RequestOf(exts),
           HasAdvancedLogic => ExtensionsReduced(q, a).ok,
           AllSound(CoreApplied(q, a).extensions, CoreApplied(q, a))
    PROVE  LET core == CoreApplied(q, a)
               new  == Applied(q, a).extensions
           IN  AllSound(new, core) /\ AllKept(core.extensions, new, core, a.signer)
<1> DEFINE core == CoreApplied(q, a)
<1>1. CASE HasAdvancedLogic
  <2> DEFINE reduced == ReduceExtensions(a.extensionsData, core, a.signer)
  <2>1. ExtensionsReduced(q, a) = reduced
    BY DEF ExtensionsReduced
  <2>2. a.extensionsData \in Seq(ExtensionAction)
    BY DEF Action
  <2>3. Good(reduced, core, a.signer)
    BY <2>2, ReduceGood
  <2> HIDE DEF core, reduced
  <2>4. Applied(q, a) = [core EXCEPT !.extensions = reduced.extensions]
    BY <1>1, <2>1 DEF Applied, core
  <2>5. Applied(q, a).extensions = reduced.extensions
    BY <2>4 DEF RequestOf, core
  <2> QED
    BY <1>1, <2>1, <2>3, <2>5 DEF Good, core
<1>2. CASE ~HasAdvancedLogic
  <2>1. Applied(q, a) = core
    BY <1>2 DEF Applied
  <2> QED
    BY <2>1, NothingResets
<1> QED
  BY <1>1, <1>2

-----------------------------------------------------------------------------
(* Every network is sound at the parties of the request.                   *)
ExtensionsSound ==
    request # None => AllSound(request.extensions, request)

(***************************************************************************)
(* The inductive invariant.  The state is explained by the history only    *)
(* because the history starts with its one creation, and the cancel and    *)
(* accept events are where the guards allow them only because the state is *)
(* explained by the history: the parts are proved together.                *)
(***************************************************************************)
IInv == /\ TypeOK
        /\ OneCreation
        /\ StateExplainedByEvents
        /\ EventsAuthorised
        /\ CancelIsFinal
        /\ AmountExplainedByEvents
        /\ ExtensionsSound

LEMMA InitIInv == Init => IInv
  BY DEF Init, IInv, TypeOK, OneCreation, StateExplainedByEvents,
         EventsAuthorised, CancelIsFinal, AmountExplainedByEvents,
         ExtensionsSound

(***************************************************************************)
(* The creation establishes every part: its history is one create event.   *)
(***************************************************************************)
LEMMA CreateIInv ==
    ASSUME NEW a \in Action, CreateAccepted(a), request' = Applied(None, a),
           HasAdvancedLogic => ExtensionsReduced(None, a).ok
    PROVE  IInv'
  <1>1. /\ request' \in RequestOf(request'.extensions)
        /\ request'.payee = a.payee /\ request'.payer = a.payer
        /\ request'.creator = a.signer
        /\ request'.state = IF GetRole(a.signer, a) = "payee"
                            THEN "created" ELSE "accepted"
        /\ request'.expectedAmount = a.amount /\ a.amount \in Nat
        /\ request'.events = << Event(a) >>
        /\ CoreApplied(None, a) \in RequestOf(<< >>)
        /\ CoreApplied(None, a).payee = a.payee
        /\ CoreApplied(None, a).payer = a.payer
    BY CreatedFields
  <1>2. /\ (Indices)' = {1}
        /\ EventAt(1)'.name = "create"
        /\ EventAt(1)'.actionSigner = a.signer
    BY <1>1 DEF Indices, EventAt, Event, CreateAccepted
  <1>3. GetRole(request'.creator, request') = GetRole(a.signer, a)
    BY <1>1 DEF GetRole
  <1>4. GetRole(a.signer, a) # "third-party"
    BY DEF CreateAccepted
  <1>5. TypeOK'
    BY <1>1 DEF TypeOK
  <1>6. OneCreation'
    BY <1>1, <1>2, <1>3, <1>4 DEF OneCreation, Indices, EventAt
  <1>7. StateExplainedByEvents'
    BY <1>1, <1>2, <1>3 DEF StateExplainedByEvents, Happened, CreatedByPayee,
                            Indices, EventAt
  <1>8. EventsAuthorised'
    BY <1>2 DEF EventsAuthorised, Indices, EventAt
  <1>9. CancelIsFinal'
    BY <1>2 DEF CancelIsFinal, Indices, EventAt
  <1>10. AmountExplainedByEvents'
    <2>1. SignedAmount(Event(a)) = a.amount
      BY DEF SignedAmount, Event, CreateAccepted
    <2>2. Ledger!Fold(0, 0, 0, << Event(a) >>) = AddSigned(0, Event(a))
      BY Ledger!FoldOne DEF LedgerStep
    <2>3. Ledger!Fold(0, 0, 0, << Event(a) >>) = a.amount
      BY <1>1, <2>1, <2>2 DEF AddSigned
    <2> QED
      BY <1>1, <2>3, LedgerIsFold DEF AmountExplainedByEvents
  <1>11. ExtensionsSound'
    <2>1. AllSound(CoreApplied(None, a).extensions, CoreApplied(None, a))
      BY <1>1 DEF RequestOf, AllSound
    <2>2. AllSound(request'.extensions, CoreApplied(None, a))
      BY <1>1, <2>1, AppliedExtensions
    <2>3. AllSound(request'.extensions, request')
      BY <1>1, <2>2, SameParties
    <2> QED
      BY <2>3 DEF ExtensionsSound
  <1> QED
    BY <1>5, <1>6, <1>7, <1>8, <1>9, <1>10, <1>11 DEF IInv

(***************************************************************************)
(* An update adds one event at the end: what the invariant says of the     *)
(* earlier events is kept, and the guard of the update says what is needed *)
(* of the new one.                                                         *)
(***************************************************************************)
LEMMA UpdateIInv ==
    ASSUME IInv, request # None, NEW a \in Action,
           UpdateRequestAccepted(request, a), request' = Applied(request, a),
           HasAdvancedLogic => ExtensionsReduced(request, a).ok
    PROVE  IInv'
           /\ AllKept(request.extensions, request'.extensions, request, a.signer)
           /\ Last(request'.events).actionSigner = a.signer
  <1> DEFINE n == Len(request.events)
  <1>1. request \in RequestOf(request.extensions)
    BY DEF IInv, TypeOK
  <1>2. /\ request' \in RequestOf(request'.extensions)
        /\ request'.payee = request.payee /\ request'.payer = request.payer
        /\ request'.creator = request.creator
        /\ request'.state = NextState(request, a)
        /\ request'.expectedAmount = NextAmount(request, a)
        /\ request'.events = Append(request.events, Event(a))
        /\ a.name \in UpdateNames
        /\ CoreApplied(request, a) \in RequestOf(request.extensions)
        /\ CoreApplied(request, a).payee = request.payee
        /\ CoreApplied(request, a).payer = request.payer
    BY <1>1, UpdatedFields
  <1>3. request.events \in Seq(RequestEvent) /\ n \in Nat
    BY <1>1 DEF RequestOf
  <1>4. Indices = 1..n /\ (Indices)' = 1..(n+1)
    BY <1>2, <1>3 DEF Indices
  <1>5. \A i \in 1..n : request'.events[i] = request.events[i]
    BY <1>2, <1>3
  <1>6. request'.events[n+1] = Event(a)
    BY <1>2, <1>3
  <1>7. \A s : GetRole(s, request') = GetRole(s, request)
    BY <1>2 DEF GetRole
  <1>8. /\ Event(a).name = a.name
        /\ Event(a).actionSigner = a.signer
    BY DEF Event
  <1>9. \A name : (\E i \in 1..(n+1) : request'.events[i].name = name)
                 <=> (name = a.name \/ \E i \in 1..n : request.events[i].name = name)
    <2> DEFINE new == request'.events
    <2>1. \A i \in 1..(n+1) : i = n + 1 \/ i \in 1..n
      BY <1>3
    <2>2. n + 1 \in 1..(n+1) /\ \A i \in 1..n : i \in 1..(n+1)
      BY <1>3
    <2>3. new[n+1].name = a.name
      BY <1>6, <1>8
    <2> HIDE DEF new, n
    <2> QED
      BY <1>5, <2>1, <2>2, <2>3 DEF new
  <1>10. TypeOK'
    BY <1>2 DEF TypeOK
  <1>11. OneCreation'
    BY <1>2, <1>3, <1>4, <1>5, <1>6, <1>7, <1>8
       DEF IInv, OneCreation, EventAt, UpdateNames
  <1>12. StateExplainedByEvents'
    <2>1. request'.state =
              IF \E i \in 1..(n+1) : request'.events[i].name = "cancel" THEN "canceled"
              ELSE IF (\E i \in 1..(n+1) : request'.events[i].name = "accept")
                      \/ ~(GetRole(request.creator, request) = "payee")
              THEN "accepted" ELSE "created"
      <3>1. a.name = "accept" => request.state = "created"
        BY DEF UpdateRequestAccepted, AcceptAccepted, CancelAccepted,
               IncreaseAccepted, ReduceAccepted, AddStakeholdersAccepted,
               AddExtensionsDataAccepted
      <3>2. request.state =
                IF \E i \in 1..n : request.events[i].name = "cancel" THEN "canceled"
                ELSE IF (\E i \in 1..n : request.events[i].name = "accept")
                        \/ ~(GetRole(request.creator, request) = "payee")
                THEN "accepted" ELSE "created"
        BY <1>4 DEF IInv, StateExplainedByEvents, Happened, CreatedByPayee, EventAt
      <3>3. CASE a.name = "accept"
        BY <1>2, <1>9, <3>1, <3>2, <3>3 DEF NextState
      <3>4. CASE a.name = "cancel"
        BY <1>2, <1>9, <3>4 DEF NextState
      <3>5. CASE a.name \notin {"accept", "cancel"}
        BY <1>2, <1>9, <3>2, <3>5 DEF NextState
      <3> QED  BY <3>3, <3>4, <3>5
    <2> QED
      BY <1>2, <1>4, <1>7, <2>1
         DEF StateExplainedByEvents, Happened, CreatedByPayee, EventAt
  <1>13. EventsAuthorised'
    BY <1>2, <1>3, <1>4, <1>5, <1>6, <1>7, <1>8, <1>9
       DEF IInv, EventsAuthorised, StateExplainedByEvents, Happened,
           CreatedByPayee, EventAt, UpdateRequestAccepted, AcceptAccepted,
           CancelAccepted, IncreaseAccepted, ReduceAccepted,
           AddStakeholdersAccepted, AddExtensionsDataAccepted
  <1>14. CancelIsFinal'
    BY <1>2, <1>3, <1>4, <1>5, <1>6, <1>7, <1>8, <1>9
       DEF IInv, CancelIsFinal, StateExplainedByEvents, Happened,
           CreatedByPayee, EventAt, UpdateRequestAccepted, AcceptAccepted,
           CancelAccepted, IncreaseAccepted, ReduceAccepted,
           AddStakeholdersAccepted, AddExtensionsDataAccepted
  <1>15. AmountExplainedByEvents'
    <2>1. Event(a) \in RequestEvent
      BY <1>2, EventType DEF ActionNames
    <2>2. Ledger!Fold(0, 0, 0, Append(request.events, Event(a)))
              = AddSigned(Ledger!Fold(0, 0, 0, request.events), Event(a))
      BY <1>3, <2>1, Ledger!FoldAppend DEF LedgerStep
    <2>3. Ledger!Fold(0, 0, 0, request.events) = request.expectedAmount
      BY LedgerIsFold DEF IInv, AmountExplainedByEvents
    <2>4. NextAmount(request, a) = request.expectedAmount + SignedAmount(Event(a))
      <3>1. request.expectedAmount \in Nat /\ a.amount \in Int
        BY <1>1 DEF RequestOf, Action
      <3>2. Event(a).name = a.name /\ Event(a).amount = a.amount
        BY DEF Event
      <3> QED
        BY <1>2, <3>1, <3>2 DEF NextAmount, SignedAmount, UpdateNames
    <2>5. Ledger!Fold(0, 0, 0, request'.events) = request'.expectedAmount
      BY <1>2, <2>2, <2>3, <2>4 DEF AddSigned
    <2> QED
      BY <2>5, LedgerIsFold DEF AmountExplainedByEvents
  <1>16. /\ ExtensionsSound'
         /\ AllKept(request.extensions, request'.extensions, request, a.signer)
    <2> DEFINE core == CoreApplied(request, a)
    <2>1. core.extensions = request.extensions
      BY <1>2 DEF RequestOf
    <2>2. AllSound(core.extensions, core)
      BY <1>2, <2>1, SameParties DEF IInv, ExtensionsSound
    <2>3. /\ AllSound(request'.extensions, core)
          /\ AllKept(core.extensions, request'.extensions, core, a.signer)
      BY <1>2, <2>2, AppliedExtensions
    <2> HIDE DEF core
    <2>4. core.payee = request.payee /\ core.payer = request.payer
      BY <1>2 DEF core
    <2>5. AllSound(request'.extensions, request')
      BY <1>2, <2>3, <2>4, SameParties
    <2>6. AllKept(request.extensions, request'.extensions, request, a.signer)
      BY <2>1, <2>3, <2>4, SameParties
    <2> QED
      BY <2>5, <2>6 DEF ExtensionsSound
  <1>17. Last(request'.events).actionSigner = a.signer
    BY <1>2, <1>3, <1>6, <1>8 DEF Last
  <1> QED
    BY <1>10, <1>11, <1>12, <1>13, <1>14, <1>15, <1>16, <1>17 DEF IInv

LEMMA NextIInv == IInv /\ [Next]_request => IInv'
  <1> SUFFICES ASSUME IInv, [Next]_request PROVE IInv'
    OBVIOUS
  <1>1. CASE Next
    <2>1. PICK a \in Action :
              /\ request' = Applied(request, a)
              /\ HasAdvancedLogic => ExtensionsReduced(request, a).ok
              /\ \/ request = None /\ CreateAccepted(a)
                 \/ request # None /\ UpdateRequestAccepted(request, a)
      BY <1>1, StepCases
    <2>2. CASE request = None
      BY <2>1, <2>2, CreateIInv
    <2>3. CASE request # None
      BY <2>1, <2>3, UpdateIInv
    <2> QED  BY <2>2, <2>3
  <1>2. CASE UNCHANGED request
    BY <1>2 DEF IInv, TypeOK, OneCreation, StateExplainedByEvents,
                EventsAuthorised, CancelIsFinal, Indices, EventAt, Happened,
                CreatedByPayee, AmountExplainedByEvents, ExtensionsSound
  <1> QED  BY <1>1, <1>2

(***************************************************************************)
(* The inductive invariant holds in every state, for every set of signed   *)
(* actions and any length of the history.                                  *)
(***************************************************************************)
THEOREM Invariance == Spec => []IInv
  BY InitIInv, NextIInv, PTL DEF Spec

(* Every field of an interpreted request keeps its type.                   *)
THEOREM TypeCorrect == Spec => []TypeOK
  BY Invariance, PTL DEF IInv

(* The state of a request is a function of the names in its history.       *)
THEOREM StateExplained == Spec => []StateExplainedByEvents
  BY Invariance, PTL DEF IInv

(* No event was applied that its signer was not entitled to.               *)
THEOREM Authorised == Spec => []EventsAuthorised
  BY Invariance, PTL DEF IInv

(* Nothing but stakeholders and extension data follows a cancellation, and *)
(* a request is accepted at most once.                                     *)
THEOREM CancellationFinal == Spec => []CancelIsFinal
  BY Invariance, PTL DEF IInv

(* The expected amount is the sum of what the history says of it.          *)
THEOREM AmountExplained == Spec => []AmountExplainedByEvents
  BY Invariance, PTL DEF IInv

(***************************************************************************)
(* Every declared amount is the sum of the declarations in its network's   *)
(* history, all signed for the side concerned, in a meta network too.      *)
(***************************************************************************)
THEOREM DeclaredExplained == Spec => []DeclaredExplainedByEvents
<1>1. IInv => DeclaredExplainedByEvents
  <2> SUFFICES ASSUME ExtensionsSound, request # None,
                      NEW state \in NetworkStates(request.extensions),
                      NEW d \in DOMAIN state.declared
               PROVE  /\ state.declared[d] =
                             FoldLeft(LAMBDA sum, event : AddDeclared(d, sum, event),
                                      0, state.events)
                      /\ \A i \in DOMAIN state.events :
                             state.events[i].name = d =>
                                 MaySignFor(DeclarationRole(d), state, request,
                                            state.events[i].from)
    BY DEF IInv, DeclaredExplainedByEvents, DeclarationRole
  <2>1. NetworkSound(state, request)
    BY DEF NetworkStates, Range, ExtensionsSound, AllSound, ExtensionSound
  <2>2. state.declared[d] = Declarations!Fold(d, d, 0, state.events)
    BY <2>1 DEF NetworkSound, DeclaredIsSum
  <2>3. \A i \in DOMAIN state.events :
            state.events[i].name = d =>
                MaySignFor(DeclarationRole(d), state, request, state.events[i].from)
    BY <2>1 DEF NetworkSound, DeclarationsSigned
  <2> QED
    BY <2>2, <2>3, DeclarationsAreFold
<1> QED
  BY <1>1, Invariance, PTL

(***************************************************************************)
(* No step resets an extension, whatever extension actions it applies.     *)
(***************************************************************************)
THEOREM NeverReset == Spec => ExtensionsNeverReset
<1> DEFINE NR == request # None =>
                  LET signer == Last(request'.events).actionSigner
                  IN  \A id \in DOMAIN request.extensions :
                          LET old == request.extensions[id]
                              new == request'.extensions[id]
                          IN  /\ id \in DOMAIN request'.extensions
                              /\ ExtensionKept(old, new, request, signer)
                              /\ \A salt \in DOMAIN old.subs :
                                     ExtensionKept(old.subs[salt], new.subs[salt],
                                                   request, signer)
<1>1. IInv /\ [Next]_request => [NR]_request
  <2> SUFFICES ASSUME IInv, Next, request # None PROVE NR
    OBVIOUS
  <2>1. PICK a \in Action :
            /\ request' = Applied(request, a)
            /\ HasAdvancedLogic => ExtensionsReduced(request, a).ok
            /\ \/ request = None /\ CreateAccepted(a)
               \/ request # None /\ UpdateRequestAccepted(request, a)
    BY StepCases
  <2>2. /\ AllKept(request.extensions, request'.extensions, request, a.signer)
        /\ Last(request'.events).actionSigner = a.signer
    BY <2>1, UpdateIInv
  <2> QED
    BY <2>2 DEF AllKept, SubsKept, NetworkKept
<1> QED
  BY <1>1, Invariance, PTL DEF Spec, ExtensionsNeverReset
=============================================================================
