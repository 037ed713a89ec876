SPECIFICATION Spec
CONSTANTS
  Entries = {e1, e2}
  NoEntry = NoEntry
  Requests = {r1}
  Barbers = {}
  NoBarber = NoBarber
  Priorities <- OnePriority
  Targets <- CallAndServe
  OneCallerPerEntry = FALSE
  MaxFailures = 0
  KeysMayLapse = FALSE
INVARIANT JoinNumbersItsRow
CHECK_DEADLOCK FALSE
