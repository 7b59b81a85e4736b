SPECIFICATION FairSpec
CONSTANTS
  MaxLen = 4
  Room = 2
  MaxSignals = 2
INVARIANTS
  InPlace
  OkMeansAllTaken
PROPERTY
  ReturnsOrWaits
\* tcpsocket_snd returns, or waits for its peer.
CHECK_DEADLOCK FALSE
