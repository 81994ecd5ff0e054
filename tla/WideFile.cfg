SPECIFICATION Spec
CONSTANTS
  Tapes <- WideFileTapes
  WordBits = 2
  FunnelMin = 2
  MinChain = 1
  MaxChain = 1
  MinWords = 4
PROPERTIES
  ImplementsSync
