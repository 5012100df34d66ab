SPECIFICATION Spec
CHECK_DEADLOCK FALSE
INVARIANTS NoPartLost RequestsFit
