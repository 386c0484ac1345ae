CONSTANTS
  PAGING_PAGE_SIZE = 8
  PAGING_TOTAL_ENTRIES_PER_TABLE = 7
  HEAP_ADDRESS = 72
  TABLE_TOTAL = 33
  Process = {p1, p2}
  KERNEL = KERNEL
  ImageOf <- MCImageOf
  Sizes <- MCSizes
  OS_MAX_PROGRAM_ALLOCATIONS = 1
  OS_PROGRAM_VIRTUAL_ADDRESS = 40
  OS_USER_PROGRAM_VIRTUAL_STACK_ADDRESS_END = 16
  OS_USER_PROGRAM_VIRTUAL_STACK_SIZE = 8
  KernelPages <- MCKernelPages
  MAX_LOADS = 3
SPECIFICATION Spec
SYMMETRY Symmetry
INVARIANTS TypeOK NoStaleTranslation SeesOwnImage WritableIsOwn KernelReachable
PROPERTY ImplementsPageMap
