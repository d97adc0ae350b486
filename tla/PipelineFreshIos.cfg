CONSTANTS
  t1 = t1
  t2 = t2
  Terminal = {t1, t2}
  Plans <- IosPlan
  Stems = {"model"}
  MaxConversions = 1
  CaseSensitive = FALSE
  UserMkdir = FALSE
SPECIFICATION Spec
PROPERTY BuildIosWorks
