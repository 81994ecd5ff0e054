SPECIFICATION Spec
CONSTANTS
  Ops = {"Not", "Buf", "And", "Nor", "Mux"}
  Initials = {TRUE}
  Constants = {TRUE}
  MaxSources = 2
  MaxGates = 2
  MaxOutputs = 1
  DebugAssertions = FALSE
CHECK_DEADLOCK FALSE
INVARIANTS
  TypeOK
  InterfaceKept
  OptimizerPreserves
  OptimizerNormalForm
  OptimizerIdempotent
  CompilerContract
  ScheduleGrouped
  CompiledAgrees
