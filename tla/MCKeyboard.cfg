CONSTANTS
  OS_KEYBOARD_BUFFER_SIZE <- MCBufferSize
  INT_RANGE <- MCIntRange
  Process = {p1, p2}
  MaxKeys = 5
SPECIFICATION FairSpec
INVARIANTS TypeOK NeverForgedOrTwice
PROPERTIES ImplementsKeyQueue KeysArrive
