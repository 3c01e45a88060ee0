SPECIFICATION Spec
CONSTANTS
  Inbounds = {"trojan", "socks5"}
  Scripts <- MCScripts
  MaxReplies = 3
  Limit = 2
INVARIANTS Accounted FramesWhole NoStall
CHECK_DEADLOCK FALSE
