SPECIFICATION Spec
CONSTANT Tapes <- AllTapes
INVARIANTS
  TypeOK
  QueueExact
  CleanGatesSettled
  SweepAscends
  EvaluatedOnce
  IInv
PROPERTIES
  ImplementsSync
  TickCompletes
