CONSTANTS
  OpName <- PlainNames
  ConfigKeys <- PlainKeys
  Value <- TwoValues
  Reader = {r1}
  MaxChanges = 2
  NONE = NONE
SPECIFICATION Spec
INVARIANT FlattenedAsDocumented
