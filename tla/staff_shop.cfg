SPECIFICATION StaffSpec
CONSTANTS
  Users = {"ann", "bob", "cal", "adi"}
  Shops = {"s1", "s2"}
  ShopOf <- Employer
  Owner <- OwnerOf
  RolesOf <- Roles
  Nobody = Nobody
  NoShop = NoShop
  Unasked = Unasked
  MaxUnderWay = 2
CHECK_DEADLOCK FALSE
INVARIANT ShowsMyShop
