SPECIFICATION OneSpec
CONSTANTS
  Ids = {1, 2, 3, 4, 5}
  Empty = Empty
  Tombstone = Tombstone
  MaxStreams = 4
  Size = 8
  Keys = {k1, k2, k3}
  Ways = 2
  Wrap = 6
  MaxTtl = 2
  NegTtl = 1
  MaxLag = 2
  MaxAsked = 2
SYMMETRY Symmetry
INVARIANTS
  ProbesEnd
  HitsNewestLive
PROPERTIES
  ImplementsDirectory
  PositivesStay
