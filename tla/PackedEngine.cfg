SPECIFICATION Spec
CONSTANTS
  Tapes <- PackedTapes
  WordBits = 4
  FunnelMin = 2
  MinChain = 2
  MaxChain = 3
  MinWords = 4
INVARIANTS
  TypeOK
  ReadsOnlySignals
  GathersInBounds
  PatchesOwnCells
  WrittenBeforeRead
  SettledAtCapture
  PlanSound
PROPERTIES
  ImplementsSync
  TickCompletes
