SPECIFICATION FairSpec
CONSTANTS
  LeftChair = LeftChair
  NoBarber = NoBarber
  Barber <- OneChair
  Priority <- Alike
  LastEntry = 1
  Me = 1
  Targets <- OneTracker
  MaxLosses = 0
  MaxInbox = 5
PROPERTY TrackerSeesServed
CHECK_DEADLOCK FALSE
