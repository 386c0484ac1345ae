CONSTANTS
  OS_MAX_FILE_DESCRIPTORS = 3
  WORD = 4
  EMPTY = EMPTY
  nameA = nameA
  nameB = nameB
  nameC = nameC
  nameDir = nameDir
  nameOld = nameOld
  Directory <- MCDirectory
  Paths <- MCPaths
  Offsets <- MCOffsets
  Volumes <- MCVolumes
  Programs <- MCPrograms
  ElfNames <- MCElfNames
  Memory = 11
SPECIFICATION LoaderSpec
INVARIANTS TypeOK OwnMemory Accounted OpensNamedFile LoadsEndClean
