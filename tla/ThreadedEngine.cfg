SPECIFICATION Spec
CONSTANTS
  Tapes <- HandTapes
  Thresholds = {0, 2, 9}
  Workers = {w1, w2}
INVARIANTS
  TypeOK
  DataRaceFree
  LoadedStaysFresh
  LevelsBehindSettled
  IInv
PROPERTIES
  ImplementsSync
  TickCompletes
