SPECIFICATION Spec
CONSTANTS
  Nodes <- MCNodes
  CompactArrays <- MCCompact
  DstSize = 300
  MaxNodes = 3
  Cuts <- MCCuts
CHECK_DEADLOCK FALSE
INVARIANTS
  TypeOK
  ReadBack
  CutNoticed
