SPECIFICATION Spec
CONSTANTS
  RamWords = 2
  MaxRetired = 9
INVARIANTS
  DecodesSource
PROPERTIES
  MirrorsEmulator
CHECK_DEADLOCK FALSE
