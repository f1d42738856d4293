CONSTANTS
  Base = 4
  LenBytes = 2
  Frames <- SmallFrames
  BufLen = 3
  MaxWire = 3
  MaxDue = 2
  Media = {"tcp", "to_host", "to_nano"}
  None = None
SPECIFICATION FairSpec
INVARIANTS
  TypeOK
  InStep
PROPERTIES
  ImplementsFrameQueue
  WriterNeverStuck
