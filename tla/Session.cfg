SPECIFICATION FairSpec
CONSTANTS
  Kinds = {"trojan", "socks5", "http"}
  Outbounds = {"direct", "socks5"}
  Lookups = {"none", "resolver", "doh"}
  MaxAddrs = 2
  Data <- MCData
  MaxUp = 2
INVARIANTS
  OneReply
  Tunnel
  Honest
PROPERTIES
  StaysEnded
  AttemptEnds
CHECK_DEADLOCK FALSE
