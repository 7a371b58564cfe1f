SPECIFICATION FairSpec
CONSTANTS
  a1 = a1
  a2 = a2
  Alerts  <- MCAlerts
  Lasting <- MCLasting
  Slots   <- MCSlots
  Message <- MCMessage
  PageSize   = 1
  MaxBadge   = 2
  MaxWire    = 1
  MaxFaults  = 1
  MaxMoves   = 1
INVARIANTS
  TypeOK
  SocketSafe
  
PROPERTIES
  Reconnects
  BadgeConverges
  ListConverges
CHECK_DEADLOCK FALSE
