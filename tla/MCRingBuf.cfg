CONSTANTS
  Size = 3
  MaxHead = 8
  MaxSession = 2
  client = client
  Blank = Blank
  Readers <- MCReaders
SPECIFICATION Spec
INVARIANTS WindowIntact OnePushSafe
PROPERTY ImplementsLog
