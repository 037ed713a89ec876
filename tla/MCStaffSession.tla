--------------------------- MODULE MCStaffSession ---------------------------
(***************************************************************************)
(* A small instance of the dashboard's session: two owners, an employee of *)
(* one of them, and a customer take turns in one tab.                      *)
(***************************************************************************)
EXTENDS StaffSession

\* ann and bob own shops, adi works in ann's, cal has only a customer's role.
Employer ==
  [u \in Users |-> CASE u \in {"ann", "adi"} -> "s1" [] u = "bob" -> "s2" [] OTHER -> NoShop]

OwnerOf == [s \in Shops |-> IF s = "s1" THEN "ann" ELSE "bob"]

Roles ==
  [u \in Users |-> CASE u = "cal" -> {"CUSTOMER"} [] u = "adi" -> {"ADMIN"} [] OTHER -> {"OWNER"}]
=============================================================================
