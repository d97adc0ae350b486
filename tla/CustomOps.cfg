CONSTANTS
  Thread = {t1, t2}
  Level <- Levels
  Length <- Lengths
  MaxLength = 3
  Node = {n1, n2}
  NONE = NONE
SPECIFICATION Spec
INVARIANT TypeOK
INVARIANT DispatchDefined
INVARIANT ReadsAllOrNothing
INVARIANT MessagesAccountedFor
SYMMETRY Symmetry
