SPECIFICATION Spec
CONSTANTS
  Names = {"", "a", "b"}
  Paths <- OneSlash
  MaxNodes = 5
INVARIANT EntersNamedDirectory
CHECK_DEADLOCK FALSE
