SPECIFICATION Spec
CONSTANTS
  LongMax = 511
  IntMax = 255
  Unit = 4
  PidsMax = 240
  Lines <- MCLines
INVARIANTS
  TypeOK
  OptionsAsGiven
  CommandAfterOptions
  MemExact
  PidsExact
  CpuExact
