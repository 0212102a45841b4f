CONSTANTS
  LineCount = 3
  MEMBUS_WORDS = 2
  WordBytes = 2
  Data <- MCData
  Fill = "cafebabe"
  ImageWords = 3
  Image <- MCImage
  Id = {1, 2}
  None = None
  HalfRange = 4
  SleepTimes = {7, 15}
  MAX_CYCLES = 14
  ResetCycles = 2
  IntRange = 4
  Cmds <- MCCmds
SPECIFICATION Spec
INVARIANTS
  SimulationTypeOK
  VerdictIsRight
  CountersAreNotTorn
PROPERTIES
  ImplementsMemory
  SleepsLongEnough
