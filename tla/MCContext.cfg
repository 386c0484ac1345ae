CONSTANTS
  Task = {t1, t2, t3}
  KERNEL = KERNEL
  TOTAL_INTERRUPTS = 512
  OS_MAX_ISR80H_COMMANDS = 1024
  Vectors <- MCVectors
  Commands <- MCCommands
SPECIFICATION Spec
SYMMETRY Symmetry
INVARIANTS TypeOK ResumesWhereItLeft OwnAddressSpace SavedWhileWaiting
