SPECIFICATION Spec
INVARIANTS
  SearchesExact
  EveryIntPrints
  BufferCalls
  FormatsStandard
  ScanComplete
  TablesRead
  InterruptsRouted
  DrawingExact
  SourcesAgree
  InitHandsOver
  BackgroundRestored
  SleepNotEarly
  TreeShape
  LockFree
  MountedFound
PROPERTIES
  SleepEnds
CHECK_DEADLOCK FALSE
CONSTANTS
  IntMax = 127
  PRINT_INTEGER_BUFFER_SIZE = 32
  NumDev = 2
  NumFunc = 2
  frm_width = 4
  frm_height = 3
  Bytes <- MCBytes
  Byte = 4
  Written <- MCWritten
  StampSide = 2
  StampRadius = 1
  MouseBytes = 11
  Hours = 2
  Minutes = 2
  Seconds = 3
  Longest = 5
  ElapsedCap = 30
  PerUs = 1000
  PageBits = 8
  Names <- MCNames
  Paths <- MCPaths
  MaxNodes = 5
