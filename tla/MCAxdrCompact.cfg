SPECIFICATION Spec
CONSTANTS
  Nodes <- MCNodes
  CompactArrays <- MCCompact
  DstSize = 300
  MaxNodes = 1
  Cuts = {}
CHECK_DEADLOCK FALSE
INVARIANTS
  CompactUnderstood
