SPECIFICATION Spec
CONSTANTS
  Barbers <- DemoBarbers
  Services <- DemoServices
  People <- DemoPeople
  Asked <- OneOfEach
  Guests <- OneGuest
  Strangers <- AnOwnerABarberACustomer
  Calls = {c1, c2}
  MaxEntries = 1
  MaxBookings = 1
  LastDay = 2
  MaxRuns = 2
  Nobody = Nobody
INVARIANT StatsAreOfTheWhile
PROPERTIES PlacedWhereOffered FinishedSeedIsComplete SeedStopsBeforeTheWipe
SYMMETRY Symmetry
VIEW ViewOfCounts
CHECK_DEADLOCK FALSE
