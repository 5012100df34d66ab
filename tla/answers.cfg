SPECIFICATION Spec
CONSTANT NoPage = NoPage
CHECK_DEADLOCK FALSE
INVARIANTS RetrievalSound AnswerTrue
PROPERTIES NothingStale
