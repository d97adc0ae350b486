CONSTANTS
  Starts <- AllStarts
  Deltas <- EdgeDeltas
SPECIFICATION Spec
INVARIANT TypeOK
INVARIANT RoundTrip
INVARIANT RoundsToNearest
INVARIANT LessLikeFloats
INVARIANT ClassifiedByValue
