SPECIFICATION Spec
CONSTANTS
  Tapes <- AdderTapes
  WordBits = 4
  FunnelMin = 2
  MinChain = 2
  MaxChain = 3
  MinWords = 4
INVARIANTS
  ChainsBeforeLevel
