CONSTANTS
  t1 = t1
  t2 = t2
  Terminal = {t1}
  Plans <- RetryPlans
  Stems = {"model"}
  MaxConversions = 3
  CaseSensitive = FALSE
  UserMkdir = TRUE
SPECIFICATION FairSpec
PROPERTY RetrySucceeds
