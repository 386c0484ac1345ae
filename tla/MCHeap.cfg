CONSTANTS
  HEAP_BLOCK_SIZE <- MCBlockSize
  HEAP_ADDRESS <- MCHeapAddress
  TABLE_TOTAL <- MCTableTotal
  WORD <- MCWord
  Sizes <- MCSizes
SPECIFICATION ScanSpec
INVARIANTS TypeOK NoOverlap TableMatchesLiveBetweenCalls
PROPERTIES ImplementsAllocator ImplementsHeap CallsReturn
