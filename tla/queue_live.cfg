SPECIFICATION FairSpec
CONSTANTS
  Entries = {e1, e2}
  NoEntry = NoEntry
  Requests = {r1, r2}
  Barbers = {}
  NoBarber = NoBarber
  Priorities <- OnePriority
  Targets <- CallServeOrWait
  OneCallerPerEntry = TRUE
  MaxFailures = 1
  KeysMayLapse = FALSE
PROPERTIES LifecyclePromise JoinersAreNumbered
CHECK_DEADLOCK FALSE
