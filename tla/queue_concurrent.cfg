SPECIFICATION Spec
CONSTANTS
  Entries = {e1, e2}
  NoEntry = NoEntry
  Requests = {r1, r2}
  Barbers = {}
  NoBarber = NoBarber
  Priorities <- TwoPriorities
  Targets <- CallServeOrReopen
  OneCallerPerEntry = FALSE
  MaxFailures = 0
  KeysMayLapse = TRUE
INVARIANTS UnnumberedOnlyWhileJoining NextInLineOnceWhileWaiting
PROPERTIES NeverBackToWaiting OnlyMetCallersOverwrite
SYMMETRY Symmetry
VIEW ViewWithoutLists
CHECK_DEADLOCK FALSE
