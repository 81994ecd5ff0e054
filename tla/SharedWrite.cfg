SPECIFICATION Spec
CONSTANTS
  Tapes <- SharedWriteTapes
  WordBits = 4
  FunnelMin = 2
  MinChain = 2
  MaxChain = 3
  MinWords = 4
INVARIANTS
  WriteMuxLatchedOnce
