CONSTANTS
  own = own
  other = other
  none = none
  Keys <- MCKeys
  Own = own
  Arrivals <- MCArrivals
  Contents <- MCContents
  MaxAge = 4
  MaxAgeDiff = 1
  Refresh = 2
  InitialSeq = 1
  MaxSeq = 3
  MaxTicks = 4
  MaxArrivals = 2
  MaxChanges = 1
SPECIFICATION Spec
INVARIANTS
  TypeOK
  PanicsOnlyDying
  StaleBound
PROPERTIES
  Forward
  Restored
  Expires
CHECK_DEADLOCK FALSE
