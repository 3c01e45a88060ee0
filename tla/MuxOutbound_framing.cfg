SPECIFICATION Spec
CONSTANTS
  s1 = s1
  s2 = s2
  Streams = {s1, s2}
  NoStream = NoStream
  Versions = {1}
  Partial = TRUE
  HeaderLen = 2
  UpdLen = 2
  MaxFrame = 2
  Cap = 2
  Limit = 5
  PeerWindow = 2
  Threshold = 2
  Modulus = 5
  ReqLen = 1
  Opens <- OpensTwo
  MaxOut <- MaxOutTwo
  MaxIn = 1
SYMMETRY Symmetry
INVARIANTS
  WireFramed
