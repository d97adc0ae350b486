CONSTANTS
  t1 = t1
  t2 = t2
  Terminal = {t1, t2}
  Plans <- ConvertPlan
  Stems = {"model", "other"}
  MaxConversions = 2
  CaseSensitive = FALSE
  UserMkdir = FALSE
SPECIFICATION Spec
CHECK_DEADLOCK FALSE
INVARIANT ConvertSerializesItsModel
