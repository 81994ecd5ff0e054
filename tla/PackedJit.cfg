SPECIFICATION JitSpec
CONSTANTS
  Tapes <- JitTapes
  WordBits = 4
  FunnelMin = 2
  MinChain = 2
  MaxChain = 3
  MinWords = 4
  Chunk = 2
INVARIANTS
  CacheCoherent
PROPERTIES
  ImplementsSync
