CONSTANTS
  SECTOR_SIZE = 4
  sectors_per_cluster = 2
  reserved_sectors = 2
  fat_sectors = 4
  root_dir_size = 8
  Files <- MCFiles
  Sizes <- MCSizes
  Members <- MCMembers
  Positions <- MCPositions
  Strays <- MCStrays
SPECIFICATION Spec
INVARIANT FileIsRead
