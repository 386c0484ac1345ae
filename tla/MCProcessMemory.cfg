CONSTANTS
  TABLE_TOTAL <- MCTableTotal
  WORD <- MCWord
  OS_MAX_PROGRAM_ALLOCATIONS = 2
  Process = {p1, p2}
  Sizes <- MCSizes
SPECIFICATION Spec
SYMMETRY Symmetry
INVARIANTS TypeOK MemoryIsOwned Accounted
