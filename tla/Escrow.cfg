SPECIFICATION Spec
CONSTANTS
    alice = alice
    bob = bob
    Escrow = Escrow
    None = None
    Refs = {ref1, ref2}
    Tokens = {token}
    Users = {alice, bob}
    Owner = bob
    Amounts = {0, 1}
    Periods = {0, 1, 9}
    Supply <- SupplyOf
    MinPeriod = 1
    EmergencyClaimPeriod = 2
    FrozenPeriod = 3
    MaxUint = 10
    MaxTime = 3
CHECK_DEADLOCK FALSE
INVARIANTS Solvent RequestsWellFormed NeverStuck
PROPERTIES ClosesAsAgreed TermsKept WaitingPeriodsKept
