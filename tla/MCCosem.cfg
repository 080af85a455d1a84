SPECIFICATION Spec
CONSTANTS
  s1 = s1
  s2 = s2
  Slots = {s1, s2}
  Assignments <- MCAssignments
  Names = {n1, n2}
  Buffers = {b1}
  Contents = {0, 1}
  None = None
  MaxObjects = 2
  MaxWrites <- MCMaxWrites
SYMMETRY MCSymmetry
INVARIANTS
  TypeOK
  ReadsKept
  ReadYourWrites
PROPERTIES
  LookupStable
  ImplementsDirectory
