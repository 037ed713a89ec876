SPECIFICATION Spec
CONSTANTS
  LeftChair = LeftChair
  NoBarber = NoBarber
  Barber <- TwoChairs
  Priority <- Alike
  LastEntry = 2
  Me = 2
  Targets <- Devices
  MaxLosses = 1
  MaxInbox = 5
INVARIANTS
  RestingScreenIsCurrent
  ToastsMatchScreen
PROPERTIES
  TrackerMovesForward
  CallsInTurn
CHECK_DEADLOCK FALSE
