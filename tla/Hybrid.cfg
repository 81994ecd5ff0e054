SPECIFICATION Spec
CONSTANTS
  Tapes <- HandTapes
  Candidates = 4
  Warmup = 2
  Group = 2
  Budget = 8
  MaxTicks = 4
  Steps = {0, 4, 8}
INVARIANTS
  FastestWins
PROPERTIES
  ImplementsSync
  RaceEnds
