CONSTANTS
  t1 = t1
  t2 = t2
  Terminal = {t1, t2}
  Plans <- AllPlans
  Stems = {"model"}
  MaxConversions = 2
  CaseSensitive = FALSE
  UserMkdir = TRUE
SPECIFICATION Spec
INVARIANT TypeOK
INVARIANT LibraryUniform
INVARIANT SuccessDelivers
PROPERTY LibraryFromItsRun
PROPERTY ParallelUndisturbed
