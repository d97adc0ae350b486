CONSTANTS
  Starts <- EdgeStarts
  Deltas <- NoDeltas
SPECIFICATION Spec
INVARIANT EqualsLikeFloats
