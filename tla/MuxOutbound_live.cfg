SPECIFICATION FairSpec
CONSTANTS
  s1 = s1
  Streams = {s1}
  NoStream = NoStream
  Versions = {2}
  Partial = FALSE
  HeaderLen = 1
  UpdLen = 1
  MaxFrame = 1
  Cap = 1
  Limit = 3
  PeerWindow = 1
  Threshold = 1
  Modulus = 3
  ReqLen = 1
  Opens <- OpensOne
  MaxOut <- MaxOutOne
  MaxIn = 1
PROPERTIES
  Drains
