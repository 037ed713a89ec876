SPECIFICATION Spec
CONSTANTS
  Texts = {"t1", "t2"}
  Photos = {"p1"}
  Blank = Blank
  NoPhoto = NoPhoto
  Listed = 1
  MaxNew = 1
  Slugs = {"demo", "salon"}
  DemoShop = "demo"
  UuidShops = {"salon"}
  BranchesOf <- Listing
  BarbersOf <- Chairs
  Services = {"cut"}
  Nothing = Nothing
  MaxSent = 2
  EntryShop <- Visits
  Staff <- Colleagues
  NoEntry = NoEntry
  Users = {"ann", "bob", "cal", "adi"}
  Shops = {"s1", "s2"}
  ShopOf <- Employer
  Owner <- OwnerOf
  RolesOf <- Roles
  Nobody = Nobody
  NoShop = NoShop
  Unasked = Unasked
  MaxUnderWay = 2
CHECK_DEADLOCK FALSE
INVARIANTS TypeOK AddsOncePerDialog NoUnansweredDouble
  LastCallerIsServed OrphansHaveCause OfficePageKeepsSocket NamesAreOwn
PROPERTIES UndisturbedSavesLand BookingsRefusedForCause
VIEW ViewWithoutShown
