SPECIFICATION Spec
CONSTANTS
  Entries = {e1, e2, e3}
  NoEntry = NoEntry
  Requests = {r1}
  Barbers = {b1}
  NoBarber = NoBarber
  Priorities <- TwoPriorities
  Targets <- Statuses
  OneCallerPerEntry = FALSE
  MaxFailures = 0
  KeysMayLapse = FALSE
INVARIANTS TypeOK PositionsRanked ToastsAfterTheirBroadcast
SYMMETRY Symmetry
VIEW ViewWithoutHistory
CHECK_DEADLOCK FALSE
