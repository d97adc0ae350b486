CONSTANTS
  Ptr = {q1, q2, q3, q4}
  Slot = {s1, s2, s3}
  NULL = NULL
  App = App
  Thrower = Thrower
  AllowSelfMove = FALSE
  Block = {b1, b2}
  Var = {x1, x2}
  Nobody = Nobody
SPECIFICATION MemorySpec
SYMMETRY Symmetry
INVARIANT TypeOK
INVARIANT Ownership
INVARIANT MemoryTypeOK
INVARIANT FreedAtHome
PROPERTY FailureIsContained
PROPERTY ImplementsOwnership
PROPERTY FreesThroughLive
PROPERTY BlocksImplementOwnership
