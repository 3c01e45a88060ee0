SPECIFICATION FairSpec
CONSTANTS
  s1 = s1
  s2 = s2
  Streams = {s1, s2}
  NoStream = NoStream
  Cool = FALSE
  Socks5 = TRUE
  MaxStreams = 2
  MaxRecv = 1
  MaxBuf = 1
  MaxFrame = 1
  BufSize = 1
  ReqLen = 1
  MaxLoops = 1
  Budget = 1
  MaxData = 2
INVARIANTS
  FinNotForgotten
PROPERTIES
  ClosingEnds
  Unblocks
