\* No user touches an alert: one alert, raised and resolved by the engine alone.
SPECIFICATION Spec
CONSTANTS
  a1 = a1
  a2 = a2
  Alerts  <- MCAlerts
  Lasting <- MCLasting
  Slots   <- MCSlots
  Message <- MCMessage
  PageSize   = 1
  MaxBadge   = 2
  MaxWire    = 1
  MaxFaults  = 0
  MaxMoves   = 0
PROPERTIES
  OneResolutionEmail
CHECK_DEADLOCK FALSE
