SPECIFICATION Spec
CONSTANTS
    Attempts = {a1, a2}
    Requests = {r1, r2}
    Caps = {c1, c2}
    MaxChanges = 3
    MaxGrants = 1
SYMMETRY Identities
INVARIANTS
    WireHasEvidence
    OneUnresolvedAttempt
    FailedWasNotSent
    OutcomeHasEvidence
PROPERTIES
    DecisionIsFinal
CHECK_DEADLOCK FALSE
