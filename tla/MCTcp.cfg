CONSTANTS
  MaxAddrs = 3
  MaxSockets = 4
SPECIFICATION FairSpec
INVARIANTS
  ListReleased
  StreamUsable
  ClientExclusive
  LentMemoryKept
  NoLostConnection
PROPERTIES
  AllTried
  ConnectReturns
CHECK_DEADLOCK FALSE
