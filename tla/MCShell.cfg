CONSTANTS
  VGA_WIDTH = 7
  VGA_HEIGHT = 4
  UINT16 = 32
  Letter <- MCLetter
  BUFF_SIZE = 5
  ARGUMENT_SIZE = 4
  OS_MAX_PROGRAM_ALLOCATIONS = 2
  MAX_KEYS = 6
  MAX_AHEAD = 1
  MAX_PRINTS = 1
SPECIFICATION Spec
INVARIANTS EchoMatchesLine StartsWhatWasTyped
PROPERTY KeysAreRead
