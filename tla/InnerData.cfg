SPECIFICATION Spec
CONSTANTS
  Tapes <- InnerDataTapes
  WordBits = 4
  FunnelMin = 2
  MinChain = 2
  MaxChain = 3
  MinWords = 4
INVARIANTS
  GathersInBounds
