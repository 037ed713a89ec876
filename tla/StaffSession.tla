---------------------------- MODULE StaffSession ----------------------------
(***************************************************************************)
(* One browser tab of the admin dashboard: signing in and out              *)
(* (auth.service.ts, login.page.ts, the guards), and which shop its pages  *)
(* work on: the token's, the one in tenant-context.service.ts, or the one  *)
(* that shop.service.ts asks for and Apollo caches.  Neither the tenant    *)
(* nor the cache is cleared when a user signs out.  A name of a shop is    *)
(* known by where it comes from: the shop itself, or the user who typed it. *)
(***************************************************************************)
EXTENDS Integers, FiniteSets

CONSTANTS
  Users,
  Shops,
  Owner,      \* the owner of each shop
  ShopOf,     \* the first shop in the token of each user, or NoShop
  RolesOf,    \* the roles in the token of each user
  Nobody,
  NoShop,
  Unasked,
  MaxUnderWay \* bound: logins and saves under way

ASSUME StaffSessionAssumption ==
  /\ Owner \in [Shops -> Users]
  /\ \A s, t \in Shops : Owner[s] = Owner[t] => s = t
  /\ MaxUnderWay \in Nat
  /\ ShopOf \in [Users -> Shops \cup {NoShop}]
  /\ NoShop \notin Shops /\ Unasked \notin Shops \cup {NoShop} /\ Nobody \notin Users
  /\ Users \cap Shops = {}

VARIABLES
  token,      \* whose token is in localStorage
  tenant,     \* shopId$ of TenantContextService
  cached,     \* what Apollo's cache answers to myShop
  read,       \* the names of shops in Apollo's cache
  names,      \* the names in the database
  logins,     \* logins under way: whose, and whether their page still waits
  asked,      \* the myShop query under way: whose, and who waits for it
  saves,      \* updateShop requests: by whom, of which shop, and where they are
  page,       \* the page that is open
  shop,       \* its shopId
  shown,      \* the shop whose profile it shows
  form,       \* the name in the profile form of the settings
  busy        \* its loading or saving flag

apollo == <<cached, read, asked>>
open == <<page, shop, shown, form, busy>>
staffVars == <<token, tenant, apollo, names, logins, saves, open>>

\* A name that was in a form when a login put another user before it.
Mixed == "mixed"

Names == Shops \cup Users \cup {Mixed}

NoName == "none"

Guarded == {"settings", "bookings"}

Pages == {"login", "dashboard", "customers"} \cup Guarded

NoQuery == [as |-> Nobody, waiters |-> {}]

UnderWay == Cardinality(logins) + Cardinality(saves)

\* findByOwner of the API.
MyShop(u) == IF \E s \in Shops : Owner[s] = u THEN CHOOSE s \in Shops : Owner[s] = u ELSE NoShop

\* getShopId: the first shop in the payload of the token.
TokenShop(u) == IF u = Nobody THEN NoShop ELSE ShopOf[u]

Either(a, b) == IF a # NoShop THEN a ELSE b

\* hasAnyRole of RoleGuard, with the roles of app.routes.ts.
MayOpen(u, p) ==
  p \in Guarded => RolesOf[u] \cap (IF p = "bookings" THEN {"OWNER", "BARBER", "ADMIN"}
                                    ELSE {"OWNER", "ADMIN"}) # {}

-----------------------------------------------------------------------------
(* A page opens: ngOnInit.                                                 *)

\* Leaving the dashboard ends its subscription; nothing else does.
Remaining(waiters) ==
  {IF w = "settings" THEN "navbar" ELSE w : w \in waiters \ {"dashboard"}}

\* getMyShop, cache-first; a query under way is shared.
GetMyShop(u, waiters) ==
  IF cached # Unasked
    THEN asked' = [asked EXCEPT !.waiters = Remaining(@)]
    ELSE asked' = [as |-> IF asked = NoQuery THEN u ELSE asked.as,
                   waiters |-> Remaining(asked.waiters) \cup waiters]

InCache == cached \in Shops

\* The token's shop first, then what getMyShop has at hand.
OpenDashboard(u) ==
  LET own == TokenShop(u) IN
  /\ tenant' = IF InCache THEN cached ELSE Either(own, tenant)
  /\ shop' = Either(own, IF InCache THEN cached ELSE NoShop)
  /\ shown' = IF InCache THEN cached ELSE NoShop
  /\ form' = NoName

OpenSettings(u) ==
  /\ tenant' = IF InCache THEN cached ELSE tenant
  /\ shop' = IF InCache THEN cached ELSE Either(tenant, TokenShop(u))
  /\ shown' = IF InCache THEN cached ELSE NoShop
  /\ form' = IF InCache THEN read[cached] ELSE NoName

OpenCustomers ==
  /\ shop' = tenant
  /\ shown' = NoShop /\ form' = NoName
  /\ UNCHANGED tenant

OpenBookings(u) ==
  /\ shop' = Either(tenant, TokenShop(u))
  /\ shown' = NoShop /\ form' = NoName
  /\ UNCHANGED tenant

\* RoleGuard sends whoever may not open a page to the dashboard.
Landing(u, wish) == IF MayOpen(u, wish) THEN wish ELSE "dashboard"

Open(u, wish, waiters) ==
  LET p == Landing(u, wish) IN
  /\ page' = p /\ busy' = FALSE
  /\ CASE p = "dashboard" -> OpenDashboard(u) [] p = "settings" -> OpenSettings(u)
       [] p = "customers" -> OpenCustomers    [] p = "bookings" -> OpenBookings(u)
  /\ GetMyShop(u, waiters \cup (IF p \in {"dashboard", "settings"} THEN {p} ELSE {}))

\* What was sent from the page that is left is answered to nobody.
Left(requests) == {[r EXCEPT !.here = FALSE] : r \in requests}

\* The router ignores the way to the URL it is at.
GoTo(p) ==
  /\ token # Nobody /\ Landing(token, p) # page
  /\ Open(token, p, {})
  /\ saves' = Left(saves)
  /\ UNCHANGED <<token, cached, read, names, logins>>

-----------------------------------------------------------------------------
(* Signing in and out.                                                     *)

SendLogin(u) ==
  /\ page = "login" /\ ~busy /\ UnderWay < MaxUnderWay
  /\ logins' = logins \cup {[of |-> u, here |-> TRUE]}
  /\ busy' = TRUE
  /\ UNCHANGED <<token, tenant, apollo, names, saves, page, shop, shown, form>>

\* The other login page: the one left still waits for its answer.
ChangeLoginPage ==
  /\ page = "login"
  /\ busy' = FALSE
  /\ logins' = Left(logins)
  /\ UNCHANGED <<token, tenant, apollo, names, saves, page, shop, shown, form>>

\* The tokens are stored, and the redirect of the URL, or the dashboard, is
\* opened inside the layout, whose navbar asks for the shop, too.
LoginOpens(l, p) ==
  /\ Open(l.of, p, IF page = "login" THEN {"navbar"} ELSE {})
  /\ saves' = Left(saves)

\* A late answer may lead to the page that is in front: it stays as it is,
\* with what another user has typed.
LoginStays ==
  /\ form' = IF form \in {NoName, shop, token'} THEN form ELSE Mixed
  /\ UNCHANGED <<tenant, asked, saves, page, shop, shown, busy>>

LoginAnswered(l, p) ==
  /\ token' = l.of
  /\ logins' = Left(logins \ {l})
  /\ IF Landing(l.of, p) = page THEN LoginStays ELSE LoginOpens(l, p)
  /\ UNCHANGED <<cached, read, names>>

LoginFails(l) ==
  /\ logins' = logins \ {l}
  /\ busy' = (busy /\ ~l.here)
  /\ UNCHANGED <<token, tenant, apollo, names, saves, page, shop, shown, form>>

\* The tokens are removed, and nothing else.
Logout ==
  /\ page # "login"
  /\ token' = Nobody
  /\ page' = "login" /\ busy' = FALSE
  /\ shop' = NoShop /\ shown' = NoShop /\ form' = NoName
  /\ asked' = [asked EXCEPT !.waiters = Remaining(@)]
  /\ saves' = Left(saves)
  /\ UNCHANGED <<tenant, cached, read, names, logins>>

-----------------------------------------------------------------------------
(* The shop.                                                               *)

\* myShop answers the shop of whoever asked, or null, which the tap of
\* getMyShop takes as an error; the cache keeps either.
MyShopAnswered ==
  LET s == MyShop(asked.as)
      waits(w) == w \in asked.waiters /\ s # NoShop
  IN /\ asked # NoQuery
     /\ asked' = NoQuery
     /\ cached' = s
     /\ read' = IF s = NoShop THEN read ELSE [read EXCEPT ![s] = names[s]]
     /\ tenant' = IF s # NoShop /\ asked.waiters # {} THEN s ELSE tenant
     /\ shop' = IF waits("settings") THEN s ELSE IF waits("dashboard") THEN Either(shop, s) ELSE shop
     /\ shown' = IF waits("settings") \/ waits("dashboard") THEN s ELSE shown
     /\ form' = IF waits("settings") THEN names[s] ELSE form
     /\ UNCHANGED <<token, names, logins, saves, page, busy>>

MyShopFails ==
  /\ asked # NoQuery
  /\ asked' = NoQuery
  /\ UNCHANGED <<token, tenant, cached, read, names, logins, saves, open>>

TypeName ==
  /\ page = "settings"
  /\ form' = token
  /\ UNCHANGED <<token, tenant, apollo, names, logins, saves, page, shop, shown, busy>>

\* saveShopProfile; the interceptor adds the token that there is now.
SaveProfile ==
  /\ page = "settings" /\ ~busy /\ UnderWay < MaxUnderWay
  /\ shop # NoShop /\ form # NoName
  /\ saves' = saves \cup {[as |-> token, shop |-> shop, name |-> form, at |-> "sent", here |-> TRUE]}
  /\ busy' = TRUE
  /\ UNCHANGED <<token, tenant, apollo, names, logins, page, shop, shown, form>>

\* Every user of the shop.
AssertMember(s) == ShopOf[s.as] = s.shop

AssertOwner(s) == Owner[s.shop] = s.as

\* updateShop at the API: TenantGuard looks at the shop in the token, the
\* service at its owner.
UpdateShop(s) ==
  LET may == ShopOf[s.as] = s.shop /\ AssertOwner(s) IN
  /\ s.at = "sent"
  /\ names' = IF may THEN [names EXCEPT ![s.shop] = s.name] ELSE names
  /\ saves' = (saves \ {s}) \cup {[s EXCEPT !.at = IF may THEN "saved" ELSE "refused"]}
  /\ UNCHANGED <<token, tenant, apollo, logins, open>>

\* The answer goes into Apollo's cache, and into the form if it is still there.
SaveAnswered(s) ==
  /\ s.at # "sent"
  /\ saves' = saves \ {s}
  /\ read' = IF s.at = "saved" THEN [read EXCEPT ![s.shop] = s.name] ELSE read
  /\ form' = IF s.at = "saved" /\ s.here THEN IF s.as = token THEN s.name ELSE Mixed ELSE form
  /\ busy' = (busy /\ ~s.here)
  /\ UNCHANGED <<token, tenant, cached, asked, names, logins, page, shop, shown>>

\* The request or its answer is lost.
SaveLost(s) ==
  /\ saves' = saves \ {s}
  /\ busy' = (busy /\ ~s.here)
  /\ UNCHANGED <<token, tenant, apollo, names, logins, page, shop, shown, form>>

-----------------------------------------------------------------------------

StaffInit ==
  /\ token = Nobody /\ tenant = NoShop
  /\ cached = Unasked /\ read = [s \in Shops |-> s] /\ asked = NoQuery
  /\ names = [s \in Shops |-> s]
  /\ logins = {} /\ saves = {}
  /\ page = "login" /\ shop = NoShop /\ shown = NoShop /\ form = NoName /\ busy = FALSE

StaffNext ==
  \/ \E p \in Pages \ {"login"} : GoTo(p) \/ \E l \in logins : LoginAnswered(l, p)
  \/ \E u \in Users : SendLogin(u)
  \/ \E l \in logins : LoginFails(l)
  \/ ChangeLoginPage \/ Logout
  \/ MyShopAnswered \/ MyShopFails
  \/ TypeName \/ SaveProfile
  \/ \E s \in saves : UpdateShop(s) \/ SaveAnswered(s) \/ SaveLost(s)

StaffSpec == StaffInit /\ [][StaffNext]_staffVars

-----------------------------------------------------------------------------
(* Properties.                                                             *)

SaveType ==
  [as : Users, shop : Shops, name : Names, at : {"sent", "saved", "refused"}, here : BOOLEAN]

StaffTypeOK ==
  /\ token \in Users \cup {Nobody} /\ tenant \in Shops \cup {NoShop}
  /\ cached \in Shops \cup {NoShop, Unasked}
  /\ read \in [Shops -> Names] /\ names \in [Shops -> Names]
  /\ asked \in [as : Users \cup {Nobody}, waiters : SUBSET {"dashboard", "settings", "navbar"}]
  /\ logins \subseteq [of : Users, here : BOOLEAN] /\ saves \subseteq SaveType
  /\ page \in Pages /\ shop \in Shops \cup {NoShop} /\ shown \in Shops \cup {NoShop}
  /\ form \in Names \cup {NoName} /\ busy \in BOOLEAN

\* A shop keeps its name until its own user types another one: the settings
\* page of the next user in the tab may come up with the shop of the one
\* before, but the API does not save it (settings.page.ts, updateShop).  The
\* exception has one cause: the name stood in a form that stayed open while a
\* late login gave the tab another user's token (login.page.ts).
NamesAreOwn ==
  \A s \in Shops : names[s] \in {s, Owner[s], Mixed}

\* Whatever getMyShop brings to a page is "the current user's shop"
\* (shop.service.ts:63).  The code does not keep this.
ShowsMyShop == shown # NoShop => shown = MyShop(token)

-----------------------------------------------------------------------------
(* The inductive invariant behind NamesAreOwn.                             *)

OwnNames(table) == \A s \in Shops : table[s] \in {s, Owner[s], Mixed}

\* Who waits for myShop is the page that is open.
WaitersHere ==
  /\ "dashboard" \in asked.waiters => page = "dashboard"
  /\ "settings" \in asked.waiters => page = "settings"

\* A form over one's own shop holds its name, or what was typed here.
FormIsOwn ==
  /\ page # "settings" => form = NoName
  /\ form # NoName /\ shop # NoShop /\ Owner[shop] = token =>
       form \in {shop, token, Mixed}

\* So does a save by the owner; what is answered to this page was sent from it.
SavesAreOwn ==
  \A s \in saves :
    /\ Owner[s.shop] = s.as => s.name \in {s.shop, s.as, Mixed}
    /\ s.at = "saved" => Owner[s.shop] = s.as
    /\ s.here => page = "settings"

StaffInv ==
  /\ StaffTypeOK
  /\ page # "login" => token # Nobody
  /\ OwnNames(names) /\ OwnNames(read)
  /\ WaitersHere /\ FormIsOwn /\ SavesAreOwn
=============================================================================
