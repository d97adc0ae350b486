CONSTANTS
  OpName <- PlainNames
  ConfigKeys <- PlainKeys
  Value <- Values
  Reader = {r1}
  MaxChanges = 3
  NONE = NONE
SPECIFICATION Spec
INVARIANT TypeOK
INVARIANT ConfigReachesItsOp
PROPERTY ImplementsConfigStore
