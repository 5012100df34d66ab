SPECIFICATION Spec
CONSTANT Gone = Gone
CHECK_DEADLOCK FALSE
INVARIANTS TextKept ReferencesAgree OutcomeTrue
PROPERTIES NothingTakenAway
