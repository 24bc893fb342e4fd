CONSTANTS
  narrow = narrow
  wide = wide
  border = border
  all = all
  zero = zero
  network = network
  inside = inside
  zeros = zeros
  left = left
  right = right
  direct = direct
  none = none
  Nets = {narrow, wide, all, zero}
  Borders = {border}
  Self = none
  Addresses = {network, inside, zeros}
  Base <- MCBase
  Length <- MCLength
  Hops = {left, right}
  Direct = direct
  Views <- MCViews
  Infinity = 3
  MaxCalculations = 3
  MaxFaults = 2
SPECIFICATION Spec
INVARIANTS
  TypeOK
  Mirrored
  BestType
  ExternalHops
PROPERTIES
  Undisturbed
CHECK_DEADLOCK FALSE
