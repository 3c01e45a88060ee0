SPECIFICATION Spec
CONSTANTS
  s1 = s1
  s2 = s2
  Streams = {s1, s2}
  NoStream = NoStream
  Cool = TRUE
  Socks5 = FALSE
  MaxStreams = 2
  MaxRecv = 3
  MaxBuf = 2
  MaxFrame = 2
  BufSize = 1
  ReqLen = 1
  MaxLoops = 1
  Budget = 1
  MaxData = 4
SYMMETRY Symmetry
CONSTRAINT Traffic
INVARIANTS
  CoolPayloads
