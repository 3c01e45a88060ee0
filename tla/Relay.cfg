SPECIFICATION Spec
CONSTANTS
  Transports = {TRUE, FALSE}
  BufSize = 2
  RawSize = 3
  MaxLoops = 2
  Limit = 2
  MaxFrames = 2
  HeaderLen = 2
  CtlLen = 2
  Prefix = 1
  MaxSends = 2
  MaxLen = 2
  MaxOut = 2
  Heads <- MCHeads
CONSTRAINT Traffic
INVARIANTS
  Fifo
  FramesWhole
  NothingStalls
PROPERTIES
  EndsComplete
