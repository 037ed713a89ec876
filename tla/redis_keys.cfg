SPECIFICATION KeysSpec
CONSTANTS
  Joins = {j1, j2, j3}
  Appointments = {a1}
  NoAppointment = NoAppointment
  LastDay = 4
  MaxFailures = 1
  Users = {u1}
  Calls = {c1, c2}
  Roles = {customer, owner}
  Customer = customer
  ShopOwner = owner
  MaxAttempts = 3
  Names = {salon}
  LastSuffix = 2
  LastSecond = 1
  Stories <- ThreeStories
  Nobody = Nobody
  NoToken = NoToken
INVARIANTS
  TicketsUnique OnlyFailuresLoseExpiry
  AccountsTypeOK LoggedOutStaysOut NoMoreThanOverlaps SlugsWithoutGaps
PROPERTIES LockedByWrongAnswers TicketPromise
SYMMETRY Symmetry
CHECK_DEADLOCK FALSE
