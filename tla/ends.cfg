SPECIFICATION Spec
CONSTANT NoValue = NoValue
CHECK_DEADLOCK FALSE
PROPERTIES EverythingEnds
