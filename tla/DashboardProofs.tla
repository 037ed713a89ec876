--------------------------- MODULE DashboardProofs ---------------------------
(***************************************************************************)
(* Theorems about the admin dashboard: StaffSession, for any users, shops  *)
(* and roles, RowDialogs, for any rows, forms and pictures, and            *)
(* SharedSocket, for any entries that are tracked and any shops.           *)
(***************************************************************************)
EXTENDS StaffSession, RowDialogs, SharedSocket, FiniteSetTheorems, TLAPS

LEMMA OwnShop == \A u : MyShop(u) = NoShop \/ (MyShop(u) \in Shops /\ Owner[MyShop(u)] = u)
  BY DEF MyShop

LEMMA StaffInvInit == StaffInit => StaffInv
<1> SUFFICES ASSUME StaffInit
             PROVE  StaffInv
  OBVIOUS
<1>1. OwnNames(names) /\ OwnNames(read) /\ names \in [Shops -> Names] /\ read \in [Shops -> Names]
  BY DEF StaffInit, OwnNames, Names
<1>2. asked \in [as : Users \cup {Nobody}, waiters : SUBSET {"dashboard", "settings", "navbar"}]
  BY DEF StaffInit, NoQuery
<1>3. WaitersHere /\ FormIsOwn /\ SavesAreOwn
  BY DEF StaffInit, WaitersHere, FormIsOwn, SavesAreOwn, NoQuery
<1>4. QED
  BY <1>1, <1>2, <1>3 DEF StaffInv, StaffTypeOK, StaffInit, Pages

(* What was sent from a page that is left is the same but for its page.    *)
LEMMA LeftSaves ==
  ASSUME StaffTypeOK, SavesAreOwn, saves' = Left(saves)
  PROVE  saves' \subseteq SaveType /\ SavesAreOwn'
<1>1. \A r \in saves : LET n == [r EXCEPT !.here = FALSE]
                       IN n \in SaveType /\ n.shop = r.shop /\ n.as = r.as /\ n.name = r.name
                          /\ n.at = r.at /\ n.here = FALSE
  BY DEF StaffTypeOK, SaveType
<1>2. \A n \in saves' : \E r \in saves :
        n \in SaveType /\ n.shop = r.shop /\ n.as = r.as /\ n.name = r.name /\ n.at = r.at /\ n.here = FALSE
  BY <1>1 DEF Left
<1>3. QED
  BY <1>2 DEF SavesAreOwn

LEMMA LeftLogins ==
  ASSUME NEW S, S \subseteq [of : Users, here : BOOLEAN]
  PROVE  Left(S) \subseteq [of : Users, here : BOOLEAN]
  BY DEF Left

(* A page that opens has a form only if it is the settings, and then over  *)
(* the shop whose name Apollo has.                                         *)
LEMMA OpenedPage ==
  ASSUME StaffTypeOK, OwnNames(read), WaitersHere,
         NEW u \in Users, NEW wish \in Pages \ {"login"}, NEW waiters \in SUBSET {"navbar"},
         Open(u, wish, waiters), token' = u
  PROVE  /\ page' \in Pages \ {"login"} /\ busy' = FALSE
         /\ tenant' \in Shops \cup {NoShop} /\ shop' \in Shops \cup {NoShop}
         /\ shown' \in Shops \cup {NoShop} /\ form' \in Names \cup {NoName}
         /\ asked' \in [as : Users \cup {Nobody}, waiters : SUBSET {"dashboard", "settings", "navbar"}]
         /\ FormIsOwn' /\ WaitersHere'
<1> DEFINE p == Landing(u, wish)
<1>t. /\ tenant \in Shops \cup {NoShop} /\ cached \in Shops \cup {NoShop, Unasked}
      /\ read \in [Shops -> Names] /\ TokenShop(u) \in Shops \cup {NoShop}
      /\ asked \in [as : Users \cup {Nobody}, waiters : SUBSET {"dashboard", "settings", "navbar"}]
      /\ asked.as \in Users \cup {Nobody} /\ asked.waiters \subseteq {"dashboard", "settings", "navbar"}
  BY StaffSessionAssumption DEF StaffTypeOK, TokenShop
<1>p. p \in {"dashboard", "settings", "customers", "bookings"} /\ page' = p /\ busy' = FALSE
  BY DEF Open, Landing, Pages, Guarded
<1>1. /\ tenant' \in Shops \cup {NoShop} /\ shop' \in Shops \cup {NoShop} /\ shown' \in Shops \cup {NoShop}
      /\ \/ form' = NoName
         \/ page' = "settings" /\ shop' \in Shops /\ form' = read[shop']
  <2>1. CASE p = "dashboard"
    BY <2>1, <1>t DEF Open, OpenDashboard, Either, InCache
  <2>2. CASE p = "settings"
    BY <2>2, <1>t DEF Open, OpenSettings, Either, InCache
  <2>3. CASE p = "customers"
    BY <2>3, <1>t DEF Open, OpenCustomers
  <2>4. CASE p = "bookings"
    BY <2>4, <1>t DEF Open, OpenBookings, Either
  <2>5. QED
    BY <2>1, <2>2, <2>3, <2>4, <1>p
<1>2. form' \in Names \cup {NoName} /\ FormIsOwn'
  BY <1>1, <1>t, <1>p DEF FormIsOwn, OwnNames
<1> DEFINE own == IF p \in {"dashboard", "settings"} THEN {p} ELSE {}
<1>3. Remaining(asked.waiters) \subseteq {"navbar"}
  BY <1>t DEF Remaining
<1>4. GetMyShop(u, waiters \cup own)
  BY DEF Open
<1>5. \E as \in Users \cup {Nobody}, ws \in SUBSET ({"navbar"} \cup own) : asked' = [as |-> as, waiters |-> ws]
  <2>1. CASE cached # Unasked
    <3>1. asked' = [asked EXCEPT !.waiters = Remaining(asked.waiters)]
      BY <2>1, <1>4 DEF GetMyShop
    <3>2. asked' = [as |-> asked.as, waiters |-> Remaining(asked.waiters)]
      BY <3>1, <1>t
    <3>3. QED
      BY <3>2, <1>3, <1>t
  <2>2. CASE cached = Unasked
    <3>1. asked' = [as |-> IF asked = NoQuery THEN u ELSE asked.as,
                    waiters |-> Remaining(asked.waiters) \cup (waiters \cup own)]
      BY <2>2, <1>4 DEF GetMyShop
    <3>2. QED
      BY <3>1, <1>3, <1>t
  <2>3. QED
    BY <2>1, <2>2
<1>6. PICK as \in Users \cup {Nobody}, ws \in SUBSET ({"navbar"} \cup own) : asked' = [as |-> as, waiters |-> ws]
  BY <1>5
<1>7. /\ asked' \in [as : Users \cup {Nobody}, waiters : SUBSET {"dashboard", "settings", "navbar"}]
      /\ WaitersHere'
  BY <1>6, <1>p DEF WaitersHere
<1>8. QED
  BY <1>1, <1>2, <1>7, <1>p DEF Pages, Guarded

(* Every step keeps what the pages, the saves and the cache know of names. *)
LEMMA StaffInvNext == StaffInv /\ [StaffNext]_staffVars => StaffInv'
<1> SUFFICES ASSUME StaffInv, [StaffNext]_staffVars
             PROVE  StaffInv'
  OBVIOUS
<1> USE DEF StaffInv
<1>t. /\ token \in Users \cup {Nobody} /\ tenant \in Shops \cup {NoShop}
      /\ cached \in Shops \cup {NoShop, Unasked}
      /\ read \in [Shops -> Names] /\ names \in [Shops -> Names]
      /\ asked \in [as : Users \cup {Nobody}, waiters : SUBSET {"dashboard", "settings", "navbar"}]
      /\ logins \subseteq [of : Users, here : BOOLEAN] /\ saves \subseteq SaveType
      /\ page \in Pages /\ shop \in Shops \cup {NoShop} /\ shown \in Shops \cup {NoShop}
      /\ form \in Names \cup {NoName} /\ busy \in BOOLEAN
  BY DEF StaffTypeOK
<1>o. OwnNames(names) /\ OwnNames(read)
  OBVIOUS
<1>1. ASSUME NEW p \in Pages \ {"login"}, GoTo(p)
      PROVE  StaffInv'
  <2>1. token \in Users /\ Open(token, p, {}) /\ saves' = Left(saves)
        /\ UNCHANGED <<token, cached, read, names, logins>>
    BY <1>1, <1>t DEF GoTo
  <2>2. saves' \subseteq SaveType /\ SavesAreOwn'
    BY <2>1, LeftSaves
  <2>3. QED
    BY <2>1, <2>2, <1>t, <1>o, OpenedPage, StaffSessionAssumption DEF StaffTypeOK, OwnNames
<1>2. ASSUME NEW p \in Pages \ {"login"}, NEW l \in logins, LoginAnswered(l, p)
      PROVE  StaffInv'
  <2>1. /\ l.of \in Users /\ token' = l.of /\ logins' = Left(logins \ {l})
        /\ UNCHANGED <<cached, read, names>>
    BY <1>2, <1>t DEF LoginAnswered
  <2>2. logins' \subseteq [of : Users, here : BOOLEAN]
    BY <2>1, <1>t, LeftLogins
  <2>3. ASSUME LoginOpens(l, p)
        PROVE  StaffInv'
    <3>1. saves' \subseteq SaveType /\ SavesAreOwn'
      BY <2>3, LeftSaves DEF LoginOpens
    <3>2. PICK waiters \in SUBSET {"navbar"} : Open(l.of, p, waiters)
      BY <2>3 DEF LoginOpens
    <3>3. QED
      BY <2>1, <2>2, <3>1, <3>2, <1>t, <1>o, OpenedPage, StaffSessionAssumption DEF StaffTypeOK, OwnNames
  <2>4. ASSUME LoginStays, Landing(l.of, p) = page
        PROVE  StaffInv'
    <3>1. /\ UNCHANGED <<tenant, asked, saves, page, shop, shown, busy>>
          /\ form' = IF form \in {NoName, shop, token'} THEN form ELSE Mixed
      BY <2>4 DEF LoginStays
    <3>2. form' \in Names \cup {NoName} /\ FormIsOwn'
      BY <3>1, <1>t DEF FormIsOwn, Names
    <3>3. QED
      BY <2>1, <2>2, <3>1, <3>2, <1>t, <1>o, StaffSessionAssumption
         DEF StaffTypeOK, OwnNames, WaitersHere, SavesAreOwn
  <2>5. QED
    BY <1>2, <2>3, <2>4 DEF LoginAnswered
<1>3. CASE (\E u \in Users : SendLogin(u)) \/ (\E l \in logins : LoginFails(l)) \/ ChangeLoginPage
  <2>1. /\ UNCHANGED <<token, tenant, apollo, names, saves, page, shop, shown, form>>
        /\ busy' \in BOOLEAN
    BY <1>3, <1>t DEF SendLogin, LoginFails, ChangeLoginPage
  <2>2. logins' \subseteq [of : Users, here : BOOLEAN]
    <3>1. ASSUME NEW u \in Users, SendLogin(u)
          PROVE  logins' \subseteq [of : Users, here : BOOLEAN]
      <4>1. [of |-> u, here |-> TRUE] \in [of : Users, here : BOOLEAN]
        OBVIOUS
      <4>2. logins' = logins \cup {[of |-> u, here |-> TRUE]}
        BY <3>1 DEF SendLogin
      <4>3. QED
        BY <4>1, <4>2, <1>t
    <3>2. CASE \E l \in logins : LoginFails(l)
      BY <3>2, <1>t DEF LoginFails
    <3>3. CASE ChangeLoginPage
      BY <3>3, <1>t, LeftLogins DEF ChangeLoginPage
    <3>4. QED
      BY <1>3, <3>1, <3>2, <3>3
  <2>3. QED
    BY <2>1, <2>2, <1>t, <1>o DEF apollo, StaffTypeOK, OwnNames, WaitersHere, FormIsOwn, SavesAreOwn
<1>4. CASE Logout
  <2>1. saves' \subseteq SaveType /\ SavesAreOwn'
    BY <1>4, LeftSaves DEF Logout
  <2>2. Remaining(asked.waiters) \subseteq {"navbar"}
    BY <1>t DEF Remaining
  <2>3. asked' = [asked EXCEPT !.waiters = Remaining(asked.waiters)]
    BY <1>4 DEF Logout
  <2>4. /\ asked' \in [as : Users \cup {Nobody}, waiters : SUBSET {"dashboard", "settings", "navbar"}]
        /\ WaitersHere'
    BY <2>2, <2>3, <1>t DEF WaitersHere
  <2>5. QED
    BY <1>4, <2>1, <2>4, <1>t, <1>o DEF Logout, StaffTypeOK, OwnNames, FormIsOwn, Pages
<1>5. CASE MyShopAnswered
  <2> DEFINE s == MyShop(asked.as)
             waits(w) == w \in asked.waiters /\ s # NoShop
  <2>1. s \in Shops \cup {NoShop}
    BY OwnShop
  <2>2. /\ asked' = NoQuery /\ cached' = s
        /\ read' = IF s = NoShop THEN read ELSE [read EXCEPT ![s] = names[s]]
        /\ tenant' = IF s # NoShop /\ asked.waiters # {} THEN s ELSE tenant
        /\ shop' = IF waits("settings") THEN s ELSE IF waits("dashboard") THEN Either(shop, s) ELSE shop
        /\ shown' = IF waits("settings") \/ waits("dashboard") THEN s ELSE shown
        /\ form' = IF waits("settings") THEN names[s] ELSE form
        /\ UNCHANGED <<token, names, logins, saves, page, busy>>
    BY <1>5 DEF MyShopAnswered
  <2> HIDE DEF s
  <2>3. OwnNames(names)' /\ OwnNames(read)' /\ read' \in [Shops -> Names]
    BY <2>1, <2>2, <1>t, <1>o DEF OwnNames
  <2>4. FormIsOwn'
    BY <2>1, <2>2, <1>t, <1>o DEF FormIsOwn, WaitersHere, OwnNames, Either
  <2>5. /\ asked' \in [as : Users \cup {Nobody}, waiters : SUBSET {"dashboard", "settings", "navbar"}]
        /\ WaitersHere'
    BY <2>2 DEF NoQuery, WaitersHere
  <2>6. /\ tenant' \in Shops \cup {NoShop} /\ shop' \in Shops \cup {NoShop} /\ shown' \in Shops \cup {NoShop}
        /\ form' \in Names \cup {NoName}
    BY <2>1, <2>2, <1>t DEF Either
  <2>7. QED
    BY <2>1, <2>2, <2>3, <2>4, <2>5, <2>6, <1>t DEF StaffTypeOK, SavesAreOwn
<1>6. CASE MyShopFails
  <2>1. /\ asked' \in [as : Users \cup {Nobody}, waiters : SUBSET {"dashboard", "settings", "navbar"}]
        /\ WaitersHere'
    BY <1>6 DEF MyShopFails, NoQuery, WaitersHere
  <2>2. QED
    BY <1>6, <2>1, <1>t, <1>o DEF MyShopFails, open, StaffTypeOK, OwnNames, FormIsOwn, SavesAreOwn
<1>7. CASE TypeName
  BY <1>7, <1>t, <1>o DEF TypeName, apollo, StaffTypeOK, OwnNames, WaitersHere, FormIsOwn, SavesAreOwn, Names
<1>8. CASE SaveProfile
  <2> DEFINE n == [as |-> token, shop |-> shop, name |-> form, at |-> "sent", here |-> TRUE]
  <2>1. n \in SaveType /\ (Owner[n.shop] = n.as => n.name \in {n.shop, n.as, Mixed})
    BY <1>8, <1>t DEF SaveProfile, SaveType, FormIsOwn
  <2>2. saves' = saves \cup {n} /\ page = "settings" /\ n.as = token /\ n.at = "sent"
    BY <1>8 DEF SaveProfile
  <2>3. UNCHANGED <<token, page>>
    BY <1>8 DEF SaveProfile
  <2> HIDE DEF n
  <2>4. saves' \subseteq SaveType /\ SavesAreOwn'
    BY <2>1, <2>2, <2>3, <1>t DEF SavesAreOwn
  <2>5. QED
    BY <1>8, <2>4, <1>t, <1>o DEF SaveProfile, apollo, StaffTypeOK, OwnNames, WaitersHere, FormIsOwn
<1>9. ASSUME NEW s \in saves, UpdateShop(s)
      PROVE  StaffInv'
  <2> DEFINE may == ShopOf[s.as] = s.shop /\ AssertOwner(s)
             n == [s EXCEPT !.at = IF may THEN "saved" ELSE "refused"]
  <2>1. s \in SaveType /\ (may => Owner[s.shop] = s.as)
    BY <1>t DEF AssertOwner
  <2>2. /\ n \in SaveType /\ n.as = s.as /\ n.shop = s.shop /\ n.name = s.name /\ n.here = s.here
        /\ n.at = "saved" => Owner[n.shop] = n.as
    BY <2>1 DEF SaveType
  <2>3. /\ saves' = (saves \ {s}) \cup {n} /\ UNCHANGED <<token, tenant, apollo, logins, open>>
        /\ names' = IF may THEN [names EXCEPT ![s.shop] = s.name] ELSE names
    BY <1>9 DEF UpdateShop
  <2>4. names' \in [Shops -> Names] /\ OwnNames(names)'
    BY <2>1, <2>3, <1>t, <1>o DEF OwnNames, SaveType, SavesAreOwn
  <2> HIDE DEF n, may
  <2>5. saves' \subseteq SaveType /\ SavesAreOwn'
    BY <2>2, <2>3, <1>t DEF SavesAreOwn, open
  <2>6. QED
    BY <2>3, <2>4, <2>5, <1>t, <1>o DEF apollo, open, StaffTypeOK, OwnNames, WaitersHere, FormIsOwn
<1>10. ASSUME NEW s \in saves, SaveAnswered(s)
       PROVE  StaffInv'
  <2>1. s \in SaveType /\ s.shop \in Shops /\ s.name \in Names
    BY <1>t DEF SaveType
  <2>2. /\ saves' = saves \ {s} /\ s.at \in {"saved", "refused"}
        /\ read' = IF s.at = "saved" THEN [read EXCEPT ![s.shop] = s.name] ELSE read
        /\ form' = IF s.at = "saved" /\ s.here THEN IF s.as = token THEN s.name ELSE Mixed ELSE form
        /\ busy' \in BOOLEAN
        /\ UNCHANGED <<token, tenant, cached, asked, names, logins, page, shop, shown>>
    BY <2>1, <1>10, <1>t DEF SaveAnswered, SaveType
  <2>3. read' \in [Shops -> Names] /\ OwnNames(read)'
    BY <2>1, <2>2, <1>t, <1>o DEF OwnNames, SavesAreOwn
  <2>4. FormIsOwn' /\ form' \in Names \cup {NoName}
    BY <2>1, <2>2, <1>t, StaffSessionAssumption DEF FormIsOwn, SavesAreOwn, Names
  <2>5. QED
    BY <2>1, <2>2, <2>3, <2>4, <1>t, <1>o DEF StaffTypeOK, OwnNames, WaitersHere, SavesAreOwn
<1>11. ASSUME NEW s \in saves, SaveLost(s)
       PROVE  StaffInv'
  <2>1. busy' \in BOOLEAN
    BY <1>11, <1>t DEF SaveLost, SaveType
  <2>2. QED
    BY <1>11, <2>1, <1>t, <1>o DEF SaveLost, apollo, StaffTypeOK, OwnNames, WaitersHere, FormIsOwn, SavesAreOwn
<1>12. CASE UNCHANGED staffVars
  BY <1>12, <1>t, <1>o
     DEF staffVars, apollo, open, StaffTypeOK, OwnNames, WaitersHere, FormIsOwn, SavesAreOwn
<1>13. QED
  BY <1>1, <1>2, <1>3, <1>4, <1>5, <1>6, <1>7, <1>8, <1>9, <1>10, <1>11, <1>12 DEF StaffNext

(* StaffSession: every variable keeps its type, whoever takes turns in the *)
(* tab and whatever is answered late.                                      *)
THEOREM StaffTyped == StaffSpec => []StaffTypeOK
<1>1. StaffInv => StaffTypeOK
  BY DEF StaffInv
<1>2. QED
  BY <1>1, StaffInvInit, StaffInvNext, PTL DEF StaffSpec

(* Whoever takes turns in the tab, a shop has its own name, one that its   *)
(* owner typed, or one that stood in a form which was kept while a late    *)
(* login put another user's token into the tab.                            *)
THEOREM OnlyOwnersRename == StaffSpec => []NamesAreOwn
<1>1. StaffInv => NamesAreOwn
  BY DEF StaffInv, OwnNames, NamesAreOwn
<1>2. QED
  BY <1>1, StaffInvInit, StaffInvNext, PTL DEF StaffSpec

-----------------------------------------------------------------------------
(* The dialogs.                                                            *)

LEMMA RowIsRow ==
  ASSUME NEW old \in Rows, NEW early \in Texts, NEW f \in Fields
  PROVE  /\ RowOf(old, early, f) \in Rows
         /\ RowOf(old, early, f).active = old.active
         /\ RowOf(old, early, f).photo = f.photo
         /\ RowOf(old, early, f).late = f.text
         /\ RowOf(old, early, f).early = IF tab \in WithPhotos THEN early ELSE f.text
  BY DEF RowOf, Rows, Fields

LEMMA ListsOfRows ==
  /\ FirstRow \in Rows /\ FirstRow.active /\ [FirstRow EXCEPT !.active = TRUE] = FirstRow
  /\ DOMAIN FirstRows = 1..Listed /\ \A i \in DOMAIN FirstRows : FirstRows[i] \in Rows
  /\ EmptyForm \in Fields /\ EmptyForm.text = Blank
<1>1. FirstRow \in Rows /\ FirstRow.active
  BY RowDialogsAssumption DEF FirstRow, Rows
<1>2. [FirstRow EXCEPT !.active = TRUE] = FirstRow
  BY <1>1 DEF Rows
<1>3. QED
  BY <1>1, <1>2 DEF FirstRows, EmptyForm, Fields

LEMMA DialogInvInit == DialogInit => DialogInv
<1> SUFFICES ASSUME DialogInit
             PROVE  DialogInv
  OBVIOUS
<1>1. DOMAIN rows \subseteq 1..lastId /\ \A i \in DOMAIN rows : rows[i] \in Rows
  BY ListsOfRows DEF DialogInit
<1>2. wanted \in [row : Nat, form : Fields] /\ fields \in Fields
  BY ListsOfRows DEF DialogInit, NothingWanted
<1>3. due = <<>> /\ due \in Seq(Texts) /\ saving = FALSE
  BY DEF DialogInit
<1>b. loading \in BOOLEAN /\ visible \in BOOLEAN /\ disturbed \in BOOLEAN
  BY DEF DialogInit
<1>n. /\ lastId \in Nat /\ editing \in 0..lastId /\ opener \in 0..lastId /\ opened \in 0..MaxNew
      /\ tab \in Tabs /\ reading \subseteq Photos
  BY RowDialogsAssumption DEF DialogInit
<1>4. DialogTypeOK
  BY <1>1, <1>2, <1>3, <1>b, <1>n DEF DialogTypeOK
<1>5. OneTimer /\ AddsToCome /\ SavesWhatWasWanted
  BY <1>3, RowDialogsAssumption DEF DialogInit, OneTimer, AddsToCome, SavesWhatWasWanted
<1>6. QED
  BY <1>4, <1>5 DEF DialogInv

(* The list: entering a page, its rows, and the buttons of a row.          *)
LEMMA ListSteps ==
  ASSUME DialogInv,
         \/ LoadRows \/ \E p \in Tabs : Enter(p)
         \/ \E i \in DOMAIN rows : ToggleStatus(i) \/ DeleteRow(i)
  PROVE  DialogInv'
<1> USE DEF DialogInv
<1>1. CASE \E p \in Tabs : Enter(p)
  <2>1. DOMAIN rows' \subseteq 1..lastId' /\ \A i \in DOMAIN rows' : rows'[i] \in Rows
    BY <1>1, ListsOfRows DEF Enter
  <2>2. wanted' \in [row : Nat, form : Fields] /\ fields' \in Fields
    BY <1>1, ListsOfRows DEF Enter, NothingWanted
  <2>3. due' = <<>> /\ due' \in Seq(Texts) /\ saving' = FALSE
    BY <1>1 DEF Enter
  <2>b. loading' \in BOOLEAN /\ visible' \in BOOLEAN /\ disturbed' \in BOOLEAN
    BY <1>1 DEF Enter
  <2>n. /\ lastId' \in Nat /\ editing' \in 0..lastId' /\ opener' \in 0..lastId' /\ opened' \in 0..MaxNew
        /\ tab' \in Tabs /\ reading' \subseteq Photos
    BY <1>1, RowDialogsAssumption DEF Enter
  <2>4. DialogTypeOK'
    BY <2>1, <2>2, <2>3, <2>b, <2>n DEF DialogTypeOK
  <2>5. OneTimer' /\ AddsToCome' /\ SavesWhatWasWanted'
    BY <1>1, <2>3, RowDialogsAssumption DEF Enter, OneTimer, AddsToCome, SavesWhatWasWanted
  <2>6. QED
    BY <2>4, <2>5
<1>2. CASE LoadRows \/ \E i \in DOMAIN rows : ToggleStatus(i) \/ DeleteRow(i)
  <2>1. DOMAIN rows' \subseteq 1..lastId /\ \A i \in DOMAIN rows' : rows'[i] \in Rows
    <3>1. CASE LoadRows
      BY <3>1, ListsOfRows, RowDialogsAssumption DEF LoadRows, DialogTypeOK, AddsToCome
    <3>2. CASE \E i \in DOMAIN rows : ToggleStatus(i)
      <4>1. PICK i \in DOMAIN rows : ToggleStatus(i)
        BY <3>2
      <4> DEFINE on == ~rows[i].active /\ tab # "bookings"
      <4>2. on \in BOOLEAN /\ rows[i] \in Rows
        BY DEF DialogTypeOK
      <4>3. rows' = [rows EXCEPT ![i] = [rows[i] EXCEPT !.active = on]]
        BY <4>1 DEF ToggleStatus
      <4> HIDE DEF on
      <4>4. [rows[i] EXCEPT !.active = on] \in Rows
        BY <4>2 DEF Rows
      <4>5. QED
        BY <4>3, <4>4 DEF DialogTypeOK
    <3>3. CASE \E i \in DOMAIN rows : DeleteRow(i)
      BY <3>3 DEF DeleteRow, DialogTypeOK
    <3>4. QED
      BY <1>2, <3>1, <3>2, <3>3
  <2>2. loading' \in BOOLEAN /\ UNCHANGED <<tab, lastId, dialog, timers, disturbed>>
    BY <1>2 DEF LoadRows, ToggleStatus, DeleteRow, DialogTypeOK
  <2>3. QED
    BY <2>1, <2>2 DEF dialog, timers, DialogTypeOK, OneTimer, AddsToCome, SavesWhatWasWanted
<1>3. QED
  BY <1>1, <1>2

(* The dialog: opened, closed and filled in.                               *)
LEMMA DialogSteps ==
  ASSUME DialogInv,
         \/ OpenNew \/ Close \/ RemovePhoto
         \/ \E i \in DOMAIN rows : Edit(i)
         \/ \E t \in Texts \cup {Blank} : Type(t)
         \/ \E p \in Photos : PickPhoto(p)
         \/ \E p \in reading : PhotoRead(p)
  PROVE  DialogInv'
<1> USE DEF DialogInv
<1>t. /\ DialogTypeOK /\ OneTimer /\ AddsToCome /\ SavesWhatWasWanted
      /\ fields \in Fields /\ saving \in BOOLEAN /\ disturbed \in BOOLEAN /\ opened \in Nat /\ lastId \in Nat
      /\ MaxNew \in Nat /\ Listed \in Nat
  BY RowDialogsAssumption DEF DialogTypeOK
<1>1. CASE OpenNew
  <2>1. fields' \in Fields /\ opened' \in 0..MaxNew /\ disturbed' \in BOOLEAN
    BY <1>1, <1>t, ListsOfRows DEF OpenNew, Disturb
  <2>2. AddsToCome'
    BY <1>1, <1>t DEF OpenNew, AddsToCome, timers
  <2>3. SavesWhatWasWanted'
    BY <1>1, <1>t DEF OpenNew, SavesWhatWasWanted, Disturb, timers
  <2>4. QED
    BY <1>1, <1>t, <2>1, <2>2, <2>3 DEF OpenNew, timers, DialogTypeOK, OneTimer
<1>2. CASE \E i \in DOMAIN rows : Edit(i)
  <2>1. PICK i \in DOMAIN rows : Edit(i)
    BY <1>2
  <2>2. i \in 1..lastId /\ rows[i] \in Rows
    BY <1>t DEF DialogTypeOK
  <2>3. fields' \in Fields /\ editing' \in 1..lastId /\ opener' = editing' /\ disturbed' \in BOOLEAN
    BY <2>1, <2>2, <1>t DEF Edit, Fields, Rows, Disturb
  <2>4. AddsToCome'
    BY <2>1, <2>3, <1>t DEF Edit, AddsToCome, timers
  <2>5. SavesWhatWasWanted'
    BY <2>1, <2>3, <1>t DEF Edit, SavesWhatWasWanted, Disturb, timers
  <2>6. QED
    BY <2>1, <2>3, <2>4, <2>5, <1>t DEF Edit, timers, DialogTypeOK, OneTimer
<1>3. CASE RemovePhoto \/ (\E t \in Texts \cup {Blank} : Type(t)) \/ (\E p \in reading : PhotoRead(p))
  <2>1. fields' \in Fields /\ reading' \subseteq Photos /\ disturbed' = (disturbed \/ saving)
    BY <1>3, <1>t DEF RemovePhoto, Type, PhotoRead, Fields, timers, DialogTypeOK, Disturb
  <2>2. UNCHANGED <<tab, loading, rows, lastId, saving, due, wanted, visible, editing, opener, opened>>
    BY <1>3 DEF RemovePhoto, Type, PhotoRead, timers
  <2>3. QED
    BY <2>1, <2>2, <1>t DEF DialogTypeOK, OneTimer, AddsToCome, SavesWhatWasWanted
<1>4. CASE Close \/ \E p \in Photos : PickPhoto(p)
  <2>1. visible' \in BOOLEAN /\ (visible' => visible) /\ reading' \subseteq Photos
    BY <1>4, <1>t DEF Close, PickPhoto, dialog, timers, DialogTypeOK
  <2>2. UNCHANGED <<tab, loading, rows, lastId, saving, due, wanted, editing, fields, opener, opened, disturbed>>
    BY <1>4 DEF Close, PickPhoto, dialog, timers
  <2>3. DialogTypeOK'
    BY <2>1, <2>2, <1>t DEF DialogTypeOK
  <2>4. OneTimer' /\ AddsToCome' /\ SavesWhatWasWanted'
    BY <2>1, <2>2, <1>t DEF DialogTypeOK, OneTimer, AddsToCome, SavesWhatWasWanted
  <2>5. QED
    BY <2>3, <2>4
<1>5. QED
  BY <1>1, <1>2, <1>3, <1>4

LEMMA SaveBegins ==
  ASSUME DialogInv, Save
  PROVE  DialogInv'
<1>t. fields \in Fields /\ fields.text \in Texts /\ opener \in Nat
  BY DEF Save, DialogInv, DialogTypeOK, Fields
<1>1. /\ visible /\ saving' = TRUE /\ due' = <<fields.text>>
      /\ wanted' = [row |-> opener, form |-> fields] /\ disturbed' = FALSE
      /\ UNCHANGED <<tab, loading, rows, lastId, visible, editing, fields, opener, opened, reading>>
  BY DEF Save, dialog
<1>2. due' \in Seq(Texts) /\ due' # <<>> /\ wanted' \in [row : Nat, form : Fields]
  BY <1>t, <1>1
<1>3. DialogTypeOK'
  BY <1>1, <1>2 DEF DialogInv, DialogTypeOK
<1>4. OneTimer' /\ AddsToCome' /\ SavesWhatWasWanted'
  BY <1>t, <1>1 DEF DialogInv, OneTimer, AddsToCome, SavesWhatWasWanted
<1>5. QED
  BY <1>3, <1>4 DEF DialogInv

LEMMA SaveEnds ==
  ASSUME DialogInv, SaveFires
  PROVE  DialogInv'
<1>1. PICK text \in Texts : due = <<text>>
  BY DEF DialogInv, OneTimer, SaveFires
<1>2. Head(due) = text /\ Tail(due) = <<>>
  BY <1>1
<1>s. saving
  BY DEF SaveFires, DialogInv, DialogTypeOK
<1>3. /\ due' = <<>> /\ saving' = FALSE /\ visible' = FALSE
      /\ wanted' = NothingWanted /\ disturbed' = FALSE
      /\ UNCHANGED <<tab, loading, editing, fields, opener, opened, reading>>
  BY <1>1, <1>2 DEF SaveFires
<1>4. wanted' \in [row : Nat, form : Fields]
  BY <1>3, ListsOfRows DEF NothingWanted
<1>b. /\ saving' \in BOOLEAN /\ visible' \in BOOLEAN /\ disturbed' \in BOOLEAN
      /\ (saving' <=> due' # <<>>) /\ due' \in Seq(Texts)
  <2>1. saving' = FALSE /\ visible' = FALSE /\ disturbed' = FALSE /\ due' = <<>>
    BY <1>3
  <2>2. due' \in Seq(Texts) /\ ~(due' # <<>>)
    BY <2>1
  <2>3. QED
    BY <2>1, <2>2
<1>u. /\ tab' \in Tabs /\ loading' \in BOOLEAN /\ opener' \in 0..lastId /\ fields' \in Fields
      /\ opened' \in 0..MaxNew /\ reading' \subseteq Photos /\ editing' \in 0..lastId
  <2>1. /\ tab \in Tabs /\ loading \in BOOLEAN /\ opener \in 0..lastId /\ fields \in Fields
        /\ opened \in 0..MaxNew /\ reading \subseteq Photos /\ editing \in 0..lastId
    BY DEF DialogInv, DialogTypeOK
  <2>2. QED
    BY <1>3, <2>1
<1>t. /\ fields \in Fields /\ editing \in 0..lastId /\ lastId \in Nat /\ opened \in Nat /\ Listed \in Nat
      /\ DOMAIN rows \subseteq 1..lastId /\ \A i \in DOMAIN rows : rows[i] \in Rows
  BY RowDialogsAssumption DEF DialogInv, DialogTypeOK
<1>5. CASE AddRow
  <2> DEFINE new == RowOf([FirstRow EXCEPT !.active = TRUE], text, fields)
  <2>1. editing = 0 /\ lastId' = lastId + 1 /\ rows' = WithRow(lastId + 1, new)
    BY <1>2, <1>5 DEF AddRow
  <2>2. new \in Rows
    BY <1>t, ListsOfRows, RowIsRow
  <2> HIDE DEF new
  <2>3. DOMAIN rows' \subseteq 1..lastId' /\ \A i \in DOMAIN rows' : rows'[i] \in Rows
    BY <2>1, <2>2, <1>t DEF WithRow
  <2>4. lastId < Listed + opened /\ Listed <= lastId
    BY <1>s, <2>1 DEF DialogInv, AddsToCome
  <2>5. lastId' \in Nat /\ editing \in 0..lastId' /\ opener = editing
    BY <2>1, <1>t DEF DialogInv, SavesWhatWasWanted
  <2>6. DialogTypeOK'
    BY <1>4, <1>b, <1>u, <1>t, <2>1, <2>3 DEF DialogTypeOK
  <2>7. OneTimer' /\ AddsToCome' /\ SavesWhatWasWanted'
    BY <1>3, <1>t, <2>1, <2>4, <2>5 DEF OneTimer, AddsToCome, SavesWhatWasWanted
  <2>8. QED
    BY <2>6, <2>7 DEF DialogInv
<1>6. CASE ChangeRow
  <2> DEFINE new == RowOf(rows[editing], text, fields)
  <2>1. /\ UNCHANGED lastId /\ editing # 0
        /\ rows' = IF editing \in DOMAIN rows THEN WithRow(editing, new) ELSE rows
    BY <1>2, <1>6 DEF ChangeRow
  <2>2. editing \in DOMAIN rows => new \in Rows
    BY <1>t, RowIsRow
  <2> HIDE DEF new
  <2>3. DOMAIN rows' \subseteq 1..lastId /\ \A i \in DOMAIN rows' : rows'[i] \in Rows
    BY <2>1, <2>2, <1>t DEF WithRow
  <2>4. DialogTypeOK'
    BY <1>4, <1>b, <1>u, <1>t, <2>1, <2>3 DEF DialogTypeOK
  <2>5. OneTimer' /\ AddsToCome' /\ SavesWhatWasWanted'
    BY <1>3, <1>t, <2>1 DEF DialogInv, OneTimer, AddsToCome, SavesWhatWasWanted
  <2>6. QED
    BY <2>4, <2>5 DEF DialogInv
<1>7. QED
  BY <1>5, <1>6 DEF SaveFires

LEMMA DialogInvNext == DialogInv /\ [DialogNext]_dialogVars => DialogInv'
<1> SUFFICES ASSUME DialogInv, [DialogNext]_dialogVars
             PROVE  DialogInv'
  OBVIOUS
<1>1. CASE EditList \/ Photograph \/ \E p \in Tabs : Enter(p)
  BY <1>1, ListSteps, DialogSteps, SaveBegins, SaveEnds DEF EditList, Photograph
<1>2. CASE UNCHANGED dialogVars
  BY <1>2 DEF dialogVars, dialog, timers, DialogInv, DialogTypeOK, OneTimer, AddsToCome, SavesWhatWasWanted
<1>3. QED
  BY <1>1, <1>2 DEF DialogNext, BarbersPage, StaffPage, ServicesPage, BookingsPage

(* barbers.page.ts, services.page.ts, staff.page.ts, bookings.page.ts:     *)
(* although the timer of a save reads editingId when it fires, and the     *)
(* dialog may have been closed and opened again by then, no dialog for a   *)
(* new row ever adds two.                                                  *)
THEOREM DialogsAddOnce == DialogSpec => []AddsOncePerDialog
<1>1. DialogInv => AddsOncePerDialog
  BY DEF DialogInv, AddsToCome, AddsOncePerDialog
<1>2. QED
  BY <1>1, DialogInvInit, DialogInvNext, PTL DEF DialogSpec

(* saveBarber, saveService, saveMember, saveBooking: a save that nobody    *)
(* disturbs lands in the row its dialog was opened for, with the form as   *)
(* it was, although part of the form is taken when the save begins and     *)
(* part when its timer fires.                                              *)
THEOREM SavesLand == DialogSpec => UndisturbedSavesLand
<1>1. DialogInv /\ [DialogNext]_dialogVars =>
        [saving /\ ~saving' /\ tab' = tab /\ ~disturbed =>
           LET new == RowOf(FirstRow, wanted.form.text, wanted.form)
               i == wanted.row
           IN rows' = IF i = 0 THEN WithRow(lastId + 1, new)
                      ELSE IF i \in DOMAIN rows THEN WithRow(i, [new EXCEPT !.active = rows[i].active])
                      ELSE rows]_dialogVars
  <2> SUFFICES ASSUME DialogInv, [DialogNext]_dialogVars, saving, ~saving', tab' = tab, ~disturbed
               PROVE  rows' = IF wanted.row = 0
                                THEN WithRow(lastId + 1, RowOf(FirstRow, wanted.form.text, wanted.form))
                              ELSE IF wanted.row \in DOMAIN rows
                                THEN WithRow(wanted.row, [RowOf(FirstRow, wanted.form.text, wanted.form)
                                                            EXCEPT !.active = rows[wanted.row].active])
                              ELSE rows
    OBVIOUS
  <2>1. SaveFires
    BY DEF DialogNext, BarbersPage, StaffPage, ServicesPage, BookingsPage, EditList, Photograph, Enter, LoadRows,
           OpenNew, Close, Save, ToggleStatus, Edit, DeleteRow, Type, RemovePhoto, PickPhoto, PhotoRead, dialogVars,
           timers
  <2>2. wanted.row = editing /\ wanted.form = fields /\ Head(due) = fields.text
    BY DEF DialogInv, SavesWhatWasWanted
  <2>3. fields \in Fields /\ fields.text \in Texts
    BY <2>1 DEF DialogInv, DialogTypeOK, OneTimer, SavesWhatWasWanted, SaveFires
  <2>4. CASE AddRow
    BY <2>2, <2>4, ListsOfRows DEF AddRow
  <2>5. CASE ChangeRow
    <3>1. CASE editing \notin DOMAIN rows
      BY <2>2, <2>5, <3>1 DEF ChangeRow
    <3>2. CASE editing \in DOMAIN rows
      <4>1. rows[editing] \in Rows
        BY <3>2 DEF DialogInv, DialogTypeOK
      <4> DEFINE new == RowOf(FirstRow, fields.text, fields)
                 old == RowOf(rows[editing], fields.text, fields)
      <4>n. /\ new \in Rows /\ old \in Rows /\ old.active = rows[editing].active
            /\ old.photo = new.photo /\ old.late = new.late /\ old.early = new.early
        BY <4>1, <2>3, ListsOfRows, RowIsRow
      <4> HIDE DEF new, old
      <4>e. old = [new EXCEPT !.active = rows[editing].active]
        BY <4>1, <4>n DEF Rows
      <4>2. RowOf(rows[editing], fields.text, fields)
              = [RowOf(FirstRow, fields.text, fields) EXCEPT !.active = rows[editing].active]
        BY <4>e DEF new, old
      <4>3. QED
        BY <2>2, <2>5, <3>2, <4>2 DEF ChangeRow
    <3>3. QED
      BY <3>1, <3>2
  <2>6. QED
    BY <2>1, <2>4, <2>5 DEF SaveFires
<1>2. QED
  BY <1>1, DialogInvInit, DialogInvNext, PTL DEF DialogSpec, UndisturbedSavesLand

-----------------------------------------------------------------------------
(* The methods of the service, applied to any of its states.               *)
LEMMA NothingConnected == NoSocket \in Service /\ NoSocket.link = "none"
  BY DEF NoSocket, Service

LEMMA Connected ==
  ASSUME NEW s \in Service, NEW q \in QueueShops
  PROVE  /\ ConnectTo(s, q) \in Service
         /\ ConnectTo(s, q).shop = q /\ ConnectTo(s, q).link # "none"
<1> DEFINE n == [NoSocket EXCEPT !.shop = q, !.link = "connecting", !.entry = s.entry]
<1>1. s.entry \in Tracked \cup {NoEntry} /\ <<>> \in Seq(Tracked)
  BY DEF Service
<1>2. n \in Service /\ n.shop = q /\ n.link = "connecting"
  BY <1>1 DEF NoSocket, Service
<1>3. QED
  BY <1>2 DEF ConnectTo

LEMMA Closed ==
  ASSUME NEW s \in Service
  PROVE  TornDown(s) \in Service /\ TornDown(s).link = "none"
<1>1. s.entry \in Tracked \cup {NoEntry} /\ <<>> \in Seq(Tracked)
  BY DEF Service
<1>2. QED
  BY <1>1 DEF TornDown, NoSocket, Service

LEMMA Tracking ==
  ASSUME NEW s \in Service, NEW e \in Tracked
  PROVE  /\ JoinEntry(s, e) \in Service /\ LeaveEntry(s, e) \in Service
         /\ JoinEntry(s, e).shop = s.shop
<1>1. Append(s.sends, e) \in Seq(Tracked)
  BY DEF Service
<1>2. QED
  BY <1>1 DEF JoinEntry, LeaveEntry, Service

LEMMA Linked ==
  ASSUME NEW s \in Service, s.shop # NoEntry
  PROVE  RejoinOnConnect(s) \in Service /\ RejoinOnConnect(s).shop = s.shop
<1> DEFINE sends == IF s.entry = NoEntry THEN s.sends ELSE Append(s.sends, s.entry)
<1>1. sends \in Seq(Tracked)
  BY DEF Service
<1>2. {s.shop} \in SUBSET (Tracked \cup QueueShops)
  BY DEF Service
<1>3. RejoinOnConnect(s) = [s EXCEPT !.link = "up", !.rooms = {s.shop}, !.sends = sends]
  BY DEF RejoinOnConnect
<1> HIDE DEF sends
<1>4. QED
  BY <1>1, <1>2, <1>3 DEF Service

LEMMA ShopsAreShops == NoEntry \notin QueueShops /\ StaffShops \subseteq QueueShops
  BY SharedSocketAssumption DEF QueueShops, StaffShops

LEMMA SocketInvInit == SocketInit => SocketInv
<1> SUFFICES ASSUME SocketInit
             PROVE  SocketInv
  OBVIOUS
<1>1. svc \in Service /\ svc.link = "none"
  BY NothingConnected DEF SocketInit
<1>2. stack = <<>> /\ asks = {} /\ joined = {} /\ device \in {"phone", "office"}
  BY DEF SocketInit
<1>3. PhoneInv /\ OfficeInv /\ PageConnected
  BY <1>1, <1>2 DEF PhoneInv, OfficeInv, PageConnected
<1>4. PICK first, own :
        /\ first \in StaffShops \cup {NoEntry} /\ own \in StaffShops \cup {NoEntry}
        /\ known = [token |-> first, owns |-> own, tenant |-> NoEntry, page |-> NoEntry,
                    myShop |-> NotAsked, cached |-> FALSE]
        /\ seen = {first, own} \ {NoEntry}
  <2>1. \A u \in Staff : {u.token, u.owns} \subseteq StaffShops \cup {NoEntry}
    BY DEF StaffShops
  <2>2. PICK u \in (IF device = "office" THEN Staff ELSE {[token |-> NoEntry, owns |-> NoEntry]}) :
          /\ known = [token |-> u.token, owns |-> u.owns, tenant |-> NoEntry, page |-> NoEntry,
                      myShop |-> NotAsked, cached |-> FALSE]
          /\ seen = {u.token, u.owns} \ {NoEntry}
    BY DEF SocketInit
  <2>3. {u.token, u.owns} \subseteq StaffShops \cup {NoEntry}
    BY <2>1, <2>2
  <2>4. QED
    BY <2>2, <2>3
<1>5. known \in KnownType /\ seen \subseteq StaffShops
  BY <1>4 DEF KnownType
<1>6. ShopsMet
  <2>1. svc.shop = NoEntry
    BY DEF SocketInit, NoSocket
  <2>2. QED
    BY <1>4, <2>1 DEF ShopsMet
<1>7. QED
  BY <1>1, <1>2, <1>3, <1>5, <1>6 DEF SocketInv

(* What happens on the line touches neither the pages nor the shop.        *)
LEMMA OnTheLine ==
  ASSUME SocketInv, LinkUp \/ LinkFails \/ LinkLost \/ ServerJoinsEntry
  PROVE  SocketInv'
<1>1. /\ svc.link # "none" /\ svc \in Service /\ svc.shop # NoEntry
      /\ UNCHANGED <<device, stack, asks, known, seen, caller, joined>>
  BY DEF SocketInv, LinkUp, LinkFails, LinkLost, ServerJoinsEntry, office
<1>2. svc' \in Service /\ svc'.shop = svc.shop
  <2>1. CASE LinkUp
    BY <2>1, <1>1, Linked DEF LinkUp
  <2>2. CASE LinkFails \/ LinkLost
    <3>1. <<>> \in Seq(Tracked) /\ {} \in SUBSET (Tracked \cup QueueShops)
      OBVIOUS
    <3>2. CASE LinkFails
      <4>1. svc' = [svc EXCEPT !.link = "down"]
        BY <3>2 DEF LinkFails
      <4>2. QED
        BY <4>1, <1>1 DEF Service
    <3>3. CASE LinkLost
      <4>1. svc' = [svc EXCEPT !.link = "down", !.rooms = {}, !.sends = <<>>]
        BY <3>3 DEF LinkLost
      <4>2. QED
        BY <3>1, <4>1, <1>1 DEF Service
    <3>4. QED
      BY <2>2, <3>2, <3>3
  <2>3. CASE ServerJoinsEntry
    <3>1. svc.sends \in Seq(Tracked) /\ svc.sends # <<>>
      BY <2>3, <1>1 DEF ServerJoinsEntry, Service
    <3>2. Head(svc.sends) \in Tracked /\ Tail(svc.sends) \in Seq(Tracked)
      BY <3>1
    <3>3. svc' = [svc EXCEPT !.rooms = svc.rooms \cup {Head(svc.sends)}, !.sends = Tail(svc.sends)]
      BY <2>3 DEF ServerJoinsEntry
    <3>4. QED
      BY <3>2, <3>3, <1>1 DEF Service
  <2>4. QED
    BY <2>1, <2>2, <2>3
<1>3. PhoneInv'
  BY <1>1, <1>2 DEF SocketInv, PhoneInv, Opened
<1>4. OfficeInv'
  BY <1>1, <1>2 DEF SocketInv, OfficeInv, PageNow
<1>5. svc'.link # "none"
  <2>1. CASE LinkUp \/ LinkFails \/ LinkLost
    BY <2>1, <1>1 DEF LinkUp, RejoinOnConnect, LinkFails, LinkLost, Service
  <2>2. CASE ServerJoinsEntry
    BY <2>2, <1>1 DEF ServerJoinsEntry, Service
  <2>3. QED
    BY <2>1, <2>2
<1>6. ShopsMet' /\ PageConnected'
  BY <1>1, <1>2, <1>5 DEF SocketInv, ShopsMet, PageConnected
<1>7. QED
  BY <1>1, <1>2, <1>3, <1>4, <1>6 DEF SocketInv

(* The trackers of a phone.                                                *)
LEMMA OnThePhone ==
  ASSUME SocketInv, (\E e \in Tracked : OpenTracker(e)) \/ EntryLoaded \/ EntryNotLoaded \/ LeaveTracker
  PROVE  SocketInv'
<1>d. device = "phone" /\ device' = "phone" /\ UNCHANGED <<known, seen>>
  BY DEF OpenTracker, EntryLoaded, EntryNotLoaded, LeaveTracker, office
<1>t. /\ svc \in Service /\ asks \subseteq [view : Callers, here : BOOLEAN]
      /\ svc.link # "none" => svc.shop # NoEntry
      /\ stack \in Seq(Tracked) /\ joined \subseteq Tracked
      /\ \A a \in asks : a.view \in Tracked /\ (a.here => a.view \in Opened)
      /\ stack = <<>> /\ svc.link # "none" => caller.left
  BY <1>d DEF SocketInv, PhoneInv
<1>q. ASSUME svc' \in Service, svc'.link # "none" => svc'.shop # NoEntry,
             asks' \subseteq [view : Callers, here : BOOLEAN], PhoneInv'
      PROVE  SocketInv'
  <2>1. joined' \subseteq Tracked
    BY <1>q, <1>d DEF PhoneInv
  <2>2. OfficeInv' /\ PageConnected' /\ ShopsMet'
    BY <2>1, <1>d, SharedSocketAssumption DEF SocketInv, OfficeInv, PageConnected, ShopsMet, Office
  <2>3. QED
    BY <2>2, <1>q, <1>d DEF SocketInv
<1>1. ASSUME NEW e \in Tracked, OpenTracker(e)
      PROVE  SocketInv'
  <2>1. /\ stack' = Append(stack, e) /\ asks' = asks \cup {[view |-> e, here |-> TRUE]}
        /\ UNCHANGED <<svc, caller, joined>>
    BY <1>1 DEF OpenTracker
  <2>2. stack' \in Seq(Tracked) /\ stack' # <<>>
    BY <2>1, <1>t
  <2>3. Opened \cup {e} \subseteq Opened'
    BY <2>1, <1>t DEF Opened
  <2>4. asks' \subseteq [view : Callers, here : BOOLEAN]
    <3>1. [view |-> e, here |-> TRUE] \in [view : Callers, here : BOOLEAN]
      BY DEF Callers
    <3>2. QED
      BY <2>1, <3>1, <1>t
  <2>5. PhoneInv'
    BY <2>1, <2>2, <2>3, <1>t DEF PhoneInv
  <2>6. QED
    BY <2>1, <2>4, <2>5, <1>t, <1>q
<1>2. CASE EntryLoaded
  <2>1. PICK a \in asks :
          /\ asks' = asks \ {a}
          /\ svc' = JoinEntry(ConnectTo(svc, EntryShop[a.view]), a.view)
          /\ caller' = [view |-> a.view, shop |-> EntryShop[a.view], left |-> ~a.here]
          /\ joined' = IF a.here THEN joined \cup {a.view} ELSE joined
    BY <1>2 DEF EntryLoaded, Calls
  <2>2. a.view \in Tracked /\ EntryShop[a.view] \in QueueShops
    BY <1>t DEF QueueShops
  <2>3. svc' \in Service /\ svc'.shop \in QueueShops
    <3>1. /\ ConnectTo(svc, EntryShop[a.view]) \in Service
          /\ ConnectTo(svc, EntryShop[a.view]).shop = EntryShop[a.view]
      BY <2>2, <1>t, Connected
    <3>2. QED
      BY <2>1, <2>2, <3>1, Tracking
  <2>4. UNCHANGED stack /\ UNCHANGED Opened
    BY <1>2 DEF EntryLoaded, Opened
  <2>5. stack = <<>> => ~a.here
    BY <1>t DEF Opened
  <2>6. stack = <<>> => caller'.left
    BY <2>1, <2>5
  <2>7. PhoneInv'
    BY <2>1, <2>2, <2>4, <2>6, <1>t DEF PhoneInv
  <2>8. svc'.shop # NoEntry
    BY <2>3, ShopsAreShops
  <2>9. asks' \subseteq [view : Callers, here : BOOLEAN]
    BY <2>1, <1>t
  <2>10. QED
    BY <2>3, <2>7, <2>8, <2>9, <1>q
<1>3. CASE EntryNotLoaded
  <2>1. PhoneInv'
    BY <1>3, <1>t DEF EntryNotLoaded, PhoneInv, Opened
  <2>2. QED
    BY <1>3, <2>1, <1>t, <1>q DEF EntryNotLoaded
<1>4. CASE LeaveTracker
  <2> DEFINE e == stack[Len(stack)]
  <2>1. /\ stack # <<>> /\ stack' = SubSeq(stack, 1, Len(stack) - 1)
        /\ asks' = {IF a.view = e THEN [a EXCEPT !.here = FALSE] ELSE a : a \in asks}
        /\ svc' = StopWatching(svc, e) /\ joined' = joined \ {e}
    BY <1>4 DEF LeaveTracker
  <2>2. e \in Tracked /\ stack' \in Seq(Tracked)
    BY <2>1, <1>t
  <2>3. svc' \in Service /\ svc'.link = "none"
    BY <2>1, <2>2, <1>t, Tracking, Closed DEF StopWatching
  <2>4. \A v \in Opened : v # e => v \in Opened'
    <3>1. SUFFICES ASSUME NEW i \in DOMAIN stack, stack[i] # e
                   PROVE  \E k \in DOMAIN stack' : stack'[k] = stack[i]
      BY DEF Opened
    <3>2. i \in 1..(Len(stack) - 1) /\ Len(stack) \in Nat
      BY <3>1, <1>t
    <3>3. stack'[i] = stack[i] /\ i \in DOMAIN stack'
      BY <3>2, <2>1, <1>t
    <3>4. QED
      BY <3>3
  <2>5. \A a \in asks : LET n == [a EXCEPT !.here = FALSE]
                         IN n \in [view : Callers, here : BOOLEAN] /\ n.view = a.view /\ n.here = FALSE
    BY <1>t
  <2>6. \A n \in asks' :
          n \in [view : Callers, here : BOOLEAN] /\ n.view \in Tracked /\ (n.here => n.view \in Opened')
    BY <2>1, <2>4, <2>5, <1>t
  <2>7. PhoneInv'
    BY <2>1, <2>2, <2>3, <2>6, <1>t DEF PhoneInv
  <2>8. QED
    BY <2>3, <2>6, <2>7, <1>q
<1>5. QED
  BY <1>1, <1>2, <1>3, <1>4

(* The records of what the dashboard knows.                                *)
LEMMA KnownFields ==
  ASSUME NEW k \in KnownType
  PROVE  /\ k.token \in StaffShops \cup {NoEntry} /\ k.owns \in StaffShops \cup {NoEntry}
         /\ k.tenant \in StaffShops \cup {NoEntry} /\ k.page \in StaffShops \cup {NoEntry}
         /\ k.myShop \in StaffShops \cup {NoEntry, NotAsked} /\ k.cached \in BOOLEAN
  BY DEF KnownType

(* One page of the office takes the place of another.                      *)
LEMMA ShownPage ==
  ASSUME SocketInv, device = "office", NEW p \in OfficePages \cup {"elsewhere"}, NEW asking, Shows(p, asking)
  PROVE  /\ stack' = IF p \in OfficePages THEN <<"sidebar", p>> ELSE <<"sidebar">>
         /\ PageNow' = {p} \cap OfficePages
         /\ svc' \in Service /\ (svc'.link # "none" => svc'.shop # NoEntry)
         /\ known' \in KnownType /\ seen' \subseteq StaffShops
         /\ joined' \cap OfficePages \subseteq PageNow' /\ PageConnected' /\ ShopsMet'
         /\ PageNow' = {} /\ svc'.link # "none" => caller'.left \/ caller'.view = "sidebar"
<1>t. /\ svc \in Service /\ (svc.link # "none" => svc.shop # NoEntry)
      /\ stack \in {<<>>, <<"sidebar">>} \cup {<<"sidebar", q>> : q \in OfficePages}
      /\ joined \cap OfficePages \subseteq PageNow
      /\ PageNow = {} /\ svc.link # "none" => caller.left \/ caller.view = "sidebar"
      /\ known \in KnownType /\ seen \subseteq StaffShops /\ ShopsMet
  BY DEF SocketInv, OfficeInv
<1>k. Found(p) \in seen \cup {NoEntry} /\ Answering(asking) \in seen \cup {NoEntry, NotAsked}
  BY <1>t DEF ShopsMet, Found, Answering
<1>1. /\ stack' = IF p \in OfficePages THEN <<"sidebar", p>> ELSE <<"sidebar">>
      /\ svc' = PageOpens(PageCloses(svc), p)
      /\ joined' = (joined \ PageNow) \cup (IF Knows(p) THEN {p} ELSE {})
      /\ known' = [known EXCEPT !.page = Found(p), !.myShop = Answering(asking),
                                !.tenant = IF Knows(p) THEN Found(p) ELSE known.tenant]
      /\ UNCHANGED <<device, seen>>
  BY DEF Shows, PageChanges
<1>2. PageNow' = {p} \cap OfficePages
  BY <1>1 DEF PageNow
<1>3. /\ PageCloses(svc) \in Service
      /\ PageCloses(svc).link # "none" => PageNow = {} /\ PageCloses(svc) = svc
      /\ PageCloses(svc).shop \in {svc.shop, NoEntry}
  <2>1. TornDown(svc).shop = NoEntry
    BY DEF TornDown, NoSocket
  <2>2. QED
    BY <2>1, <1>t, Closed DEF PageCloses
<1>4. Knows(p) => p \in OfficePages
  BY DEF Knows, Found, OfficePages
<1>5. /\ svc' \in Service /\ (svc'.link # "none" => svc'.shop # NoEntry)
      /\ Knows(p) => svc'.shop = Found(p) /\ svc'.link # "none"
      /\ ~Knows(p) => svc' = PageCloses(svc)
  <2>1. CASE Knows(p)
    <3>1. Found(p) \in QueueShops /\ Found(p) # NoEntry
      BY <2>1, <1>k, <1>t, ShopsAreShops DEF Knows
    <3>2. QED
      BY <2>1, <3>1, <1>1, <1>3, Connected DEF PageOpens
  <2>2. CASE ~Knows(p)
    BY <2>2, <1>1, <1>3, <1>t DEF PageOpens
  <2>3. QED
    BY <2>1, <2>2
<1>6. known' \in KnownType /\ known'.page = Found(p) /\ known'.tenant \in seen \cup {NoEntry}
      /\ known'.myShop = Answering(asking) /\ known'.token = known.token /\ known'.owns = known.owns
  <2>1. Found(p) \in StaffShops \cup {NoEntry} /\ Answering(asking) \in StaffShops \cup {NoEntry, NotAsked}
    BY <1>k, <1>t
  <2>2. known.tenant \in seen \cup {NoEntry}
    BY <1>t DEF ShopsMet
  <2>3. QED
    BY <2>1, <2>2, <1>1, <1>k, <1>t DEF KnownType
<1>7. ShopsMet'
  <2>1. svc'.shop \in seen \cup {NoEntry}
    BY <1>1, <1>3, <1>5, <1>k, <1>t DEF ShopsMet
  <2>2. QED
    BY <2>1, <1>1, <1>6, <1>k, <1>t DEF ShopsMet
<1>8. joined' \cap OfficePages \subseteq PageNow' /\ PageConnected'
  <2>1. joined' \cap OfficePages \subseteq IF Knows(p) THEN {p} ELSE {}
    BY <1>1, <1>t
  <2>2. QED
    BY <2>1, <1>2, <1>4, <1>5, <1>6 DEF PageConnected, Knows
<1>9. ASSUME PageNow' = {}, svc'.link # "none"
      PROVE  caller'.left \/ caller'.view = "sidebar"
  <2>1. ~Knows(p) /\ PageNow = {} /\ svc' = svc
    BY <1>9, <1>2, <1>3, <1>4, <1>5
  <2>2. UNCHANGED caller
    BY <2>1 DEF Shows
  <2>3. QED
    BY <2>1, <2>2, <1>9, <1>t
<1>10. QED
  BY <1>1, <1>2, <1>5, <1>6, <1>7, <1>8, <1>9, <1>t

(* The sidebar and the pages beside it.                                    *)
LEMMA InTheOffice ==
  ASSUME SocketInv,
         EnterOffice \/ MovePage \/ ShopFound \/ ShopUnknown \/ ShopQueryFails \/ LeaveOffice
  PROVE  SocketInv'
<1>d. device = "office" /\ device' = "office"
  BY DEF EnterOffice, MovePage, Shows, ShopFound, ShopUnknown, ShopQueryFails, LeaveOffice
<1>t. /\ svc \in Service /\ asks \subseteq [view : Callers, here : BOOLEAN]
      /\ svc.link # "none" => svc.shop # NoEntry
      /\ stack \in {<<>>, <<"sidebar">>} \cup {<<"sidebar", p>> : p \in OfficePages}
      /\ joined \cap OfficePages \subseteq PageNow
      /\ \A a \in asks : a.view = "sidebar" \/ a.view \in PageNow
      /\ PageNow = {} /\ svc.link # "none" => caller.left \/ caller.view = "sidebar"
      /\ known \in KnownType /\ seen \subseteq StaffShops /\ ShopsMet /\ PageConnected
  BY <1>d DEF SocketInv, OfficeInv
<1>k. /\ known.token \in StaffShops \cup {NoEntry} /\ known.owns \in StaffShops \cup {NoEntry}
      /\ known.tenant \in StaffShops \cup {NoEntry} /\ known.page \in StaffShops \cup {NoEntry}
      /\ known.myShop \in StaffShops \cup {NoEntry, NotAsked} /\ known.cached \in BOOLEAN
  BY <1>t, KnownFields
<1>p. PhoneInv'
  BY <1>d DEF PhoneInv
<1>a. \A p \in OfficePages \cup {"elsewhere"} : \A a \in PageAsks(p) :
        a \in [view : Callers, here : BOOLEAN] /\ a.view = p /\ p \in OfficePages
  <2> SUFFICES ASSUME NEW p \in OfficePages \cup {"elsewhere"}, NEW a \in PageAsks(p)
               PROVE  a \in [view : Callers, here : BOOLEAN] /\ a.view = p /\ p \in OfficePages
    OBVIOUS
  <2>1. p \in OfficePages /\ a = [view |-> p, here |-> TRUE]
    BY DEF PageAsks, OfficePages
  <2>2. QED
    BY <2>1 DEF Callers, Office
<1>1. CASE EnterOffice \/ MovePage
  <2>1. PICK p \in OfficePages \cup {"elsewhere"} :
          /\ \E asking : Shows(p, asking)
          /\ asks' \subseteq {a \in asks : a.view = "sidebar" \/ stack = <<>>}
                             \cup {[view |-> "sidebar", here |-> TRUE]} \cup PageAsks(p)
    BY <1>1 DEF EnterOffice, MovePage
  <2>2. \A a \in asks : stack = <<>> => a.view = "sidebar"
    BY <1>t DEF PageNow
  <2>3. [view |-> "sidebar", here |-> TRUE] \in [view : Callers, here : BOOLEAN]
    BY DEF Callers, Office
  <2>4. asks' \subseteq [view : Callers, here : BOOLEAN]
    BY <2>1, <2>3, <1>a, <1>t
  <2>5. \A a \in asks' : a.view = "sidebar" \/ a.view \in {p} \cap OfficePages
    BY <2>1, <2>2, <1>a
  <2>6. OfficeInv'
    BY <2>1, <2>5, <1>d, ShownPage DEF OfficeInv
  <2>7. QED
    BY <2>1, <2>4, <2>6, <1>p, <1>d, ShownPage DEF SocketInv
<1>2. CASE ShopFound
  <2> DEFINE s == known.myShop
  <2>1. PICK a \in asks :
          /\ asks' = asks \ {a} /\ UNCHANGED <<stack, seen>>
          /\ known' = [known EXCEPT !.tenant = s, !.cached = TRUE,
                         !.page = IF a.view # "sidebar" /\ known.page = NoEntry THEN s ELSE known.page]
          /\ IF a.view = "sidebar" \/ known.page = NoEntry THEN Connects(a)
             ELSE UNCHANGED <<svc, caller, joined>>
    BY <1>2 DEF ShopFound
  <2>2. s \in StaffShops /\ s \in QueueShops /\ s # NoEntry /\ s \in seen
    <3>1. s \in StaffShops
      BY <1>2 DEF ShopFound
    <3>2. QED
      BY <3>1, <1>t, ShopsAreShops, SharedSocketAssumption DEF ShopsMet
  <2>3. UNCHANGED PageNow
    BY <2>1 DEF PageNow
  <2>4. /\ known' \in KnownType /\ known'.token = known.token /\ known'.owns = known.owns
        /\ known'.tenant = s /\ known'.myShop = s
        /\ known'.page = IF a.view # "sidebar" /\ known.page = NoEntry THEN s ELSE known.page
    BY <2>1, <2>2, <1>k, <1>t DEF KnownType
  <2>5. CASE a.view = "sidebar" \/ known.page = NoEntry
    <3>1. /\ svc' = ConnectTo(svc, s) /\ caller' = [view |-> a.view, shop |-> s, left |-> ~a.here]
          /\ joined' \subseteq joined \cup {a.view}
      BY <2>1, <2>5 DEF Connects, Calls
    <3>2. svc' \in Service /\ svc'.shop = s /\ svc'.link # "none"
      BY <3>1, <2>2, <1>t, Connected
    <3>3. joined' \cap OfficePages \subseteq PageNow'
      BY <3>1, <2>3, <1>t DEF OfficePages
    <3>4. OfficeInv'
      BY <2>1, <2>3, <3>1, <3>3, <1>t, <1>d DEF OfficeInv
    <3>5. ShopsMet'
      BY <2>1, <2>2, <2>4, <3>2, <1>t DEF ShopsMet
    <3>6. PageConnected'
      <4>1. CASE a.view = "sidebar"
        BY <4>1, <2>4, <3>1, <3>2, <1>t DEF PageConnected, OfficePages
      <4>2. CASE a.view # "sidebar"
        <5>1. known'.page = s
          BY <4>2, <2>4, <2>5
        <5>2. QED
          BY <5>1, <2>2, <3>2 DEF PageConnected
      <4>3. QED
        BY <4>1, <4>2
    <3>7. QED
      BY <2>1, <2>2, <2>4, <3>2, <3>4, <3>5, <3>6, <1>t, <1>d, <1>p DEF SocketInv
  <2>6. CASE a.view # "sidebar" /\ known.page # NoEntry
    <3>1. UNCHANGED <<svc, caller, joined, known.page>>
      BY <2>1, <2>4, <2>6
    <3>2. OfficeInv'
      BY <2>1, <2>3, <3>1, <1>t, <1>d DEF OfficeInv
    <3>3. ShopsMet' /\ PageConnected'
      BY <2>1, <2>2, <2>4, <3>1, <1>t, <1>d DEF ShopsMet, PageConnected
    <3>4. QED
      BY <2>1, <2>4, <3>1, <3>2, <3>3, <1>t, <1>d, <1>p DEF SocketInv
  <2>7. QED
    BY <2>5, <2>6
<1>3. CASE ShopUnknown \/ ShopQueryFails
  <2>1. UNCHANGED <<stack, svc, caller, joined, seen, PageNow>> /\ asks' \subseteq asks
    BY <1>3 DEF ShopUnknown, ShopQueryFails, PageNow
  <2>2. \/ known' = [known EXCEPT !.cached = TRUE]
        \/ known' = [known EXCEPT !.myShop = NotAsked]
    BY <1>3 DEF ShopUnknown, ShopQueryFails
  <2>3. /\ known' \in KnownType /\ known'.token = known.token /\ known'.owns = known.owns
        /\ known'.tenant = known.tenant /\ known'.page = known.page
        /\ known'.myShop \in {known.myShop, NotAsked}
    BY <2>2, <1>k, <1>t DEF KnownType
  <2>4. OfficeInv'
    BY <2>1, <1>t, <1>d DEF OfficeInv
  <2>5. ShopsMet' /\ PageConnected'
    BY <2>1, <2>3, <1>t, <1>d DEF ShopsMet, PageConnected
  <2>6. QED
    BY <2>1, <2>3, <2>4, <2>5, <1>t, <1>d, <1>p DEF SocketInv
<1>4. CASE LeaveOffice
  <2>1. /\ stack' = <<>> /\ joined' = {} /\ svc' = PageCloses(svc)
        /\ asks' = {[a EXCEPT !.here = FALSE] : a \in {b \in asks : b.view = "sidebar"}}
        /\ PageNow = {} => UNCHANGED caller
    BY <1>4 DEF LeaveOffice
  <2>2. PageNow' = {}
    BY <2>1 DEF PageNow
  <2>3. /\ svc' \in Service /\ (svc'.link # "none" => svc'.shop # NoEntry)
        /\ svc'.link # "none" => PageNow = {} /\ svc' = svc
        /\ svc'.shop \in {svc.shop, NoEntry}
    <3>1. TornDown(svc).shop = NoEntry
      BY DEF TornDown, NoSocket
    <3>2. QED
      BY <2>1, <3>1, <1>t, Closed DEF PageCloses
  <2>4. \A n \in asks' : n \in [view : Callers, here : BOOLEAN] /\ n.view = "sidebar"
    BY <2>1, <1>t
  <2>5. OfficeInv'
    BY <2>1, <2>2, <2>3, <2>4, <1>t, <1>d DEF OfficeInv
  <2>6. PageConnected'
    BY <2>1 DEF PageConnected
  <2>7. PICK u \in Staff : /\ known' = [known EXCEPT !.token = u.token, !.owns = u.owns, !.page = NoEntry]
                           /\ seen' = seen \cup ({u.token, u.owns} \ {NoEntry})
    BY <1>4 DEF LeaveOffice
  <2>8. {u.token, u.owns} \subseteq StaffShops \cup {NoEntry}
    BY DEF StaffShops
  <2>9. /\ known' \in KnownType /\ known'.token = u.token /\ known'.owns = u.owns
        /\ known'.tenant = known.tenant /\ known'.page = NoEntry /\ known'.myShop = known.myShop
    BY <2>7, <2>8, <1>k, <1>t DEF KnownType
  <2>10. seen' \subseteq StaffShops /\ seen \subseteq seen' /\ {u.token, u.owns} \subseteq seen' \cup {NoEntry}
    BY <2>7, <2>8, <1>t
  <2>11. ShopsMet'
    BY <2>3, <2>9, <2>10, <1>t, <1>d DEF ShopsMet
  <2>12. QED
    BY <2>3, <2>4, <2>5, <2>6, <2>9, <2>10, <2>11, <1>d, <1>p DEF SocketInv
<1>5. QED
  BY <1>1, <1>2, <1>3, <1>4

LEMMA SocketInvNext == SocketInv /\ [SocketNext]_socketVars => SocketInv'
<1> SUFFICES ASSUME SocketInv, [SocketNext]_socketVars
             PROVE  SocketInv'
  OBVIOUS
<1>1. CASE UNCHANGED socketVars
  <2>1. PhoneInv'
    BY <1>1 DEF SocketInv, PhoneInv, Opened, socketVars
  <2>2. OfficeInv' /\ ShopsMet' /\ PageConnected'
    BY <1>1 DEF SocketInv, OfficeInv, PageNow, ShopsMet, PageConnected, socketVars, office
  <2>3. QED
    BY <1>1, <2>1, <2>2 DEF SocketInv, socketVars, office
<1>2. QED
  BY <1>1, OnTheLine, OnThePhone, InTheOffice DEF SocketNext

LEMMA SocketInvAlways == SocketSpec => []SocketInv
  BY SocketInvInit, SocketInvNext, PTL DEF SocketSpec

(* However the pages of the dashboard follow each other, the one in front  *)
(* keeps the socket it connected, unless the sidebar connects to another   *)
(* shop that somebody who signed in before, or the token, named            *)
(* (sidebar.component.ts:56, queue-socket.service.ts:138).                 *)
THEOREM FrontPageConnected == SocketSpec => []OfficePageKeepsSocket
<1>1. SocketInv => OfficePageKeepsSocket
  <2> SUFFICES ASSUME SocketInv, NEW p \in joined \cap OfficePages, svc.shop # known.page
               PROVE  caller.view = "sidebar" /\ seen # {known.page}
    BY DEF OfficePageKeepsSocket
  <2>1. device = "office"
    BY SharedSocketAssumption DEF SocketInv, PhoneInv, Office
  <2>2. known.page # NoEntry /\ svc.shop # NoEntry /\ caller.view = "sidebar"
    BY DEF SocketInv, PageConnected
  <2>3. svc.shop \in seen
    BY <2>1, <2>2 DEF SocketInv, ShopsMet
  <2>4. QED
    BY <2>2, <2>3
<1>2. QED
  BY <1>1, SocketInvAlways, PTL

(* A socket behind no page is one of an answer that came too late, or of   *)
(* the sidebar, whatever the trackers and their answers do.                *)
THEOREM OrphansExplained == SocketSpec => []OrphansHaveCause
<1>1. SocketInv => OrphansHaveCause
  <2> SUFFICES ASSUME SocketInv, svc.link # "none", stack = <<>>
               PROVE  caller.left \/ caller.view = "sidebar"
    BY DEF OrphansHaveCause
  <2>1. CASE device = "phone"
    BY <2>1 DEF SocketInv, PhoneInv
  <2>2. CASE device = "office"
    BY <2>2 DEF SocketInv, OfficeInv, PageNow
  <2>3. QED
    BY <2>1, <2>2 DEF SocketInv
<1>2. QED
  BY <1>1, SocketInvAlways, PTL

(* What the methods do to what a caller waits for.                         *)
LEMMA ConnectKeepsRooms ==
  ASSUME NEW s \in Service, NEW q \in QueueShops, s.link = "up" => s.shop \in s.rooms
  PROVE  LET n == ConnectTo(s, q)
         IN  n.link # "none" /\ n.shop = q /\ (n.link = "up" => n.shop \in n.rooms)
  BY DEF ConnectTo, NoSocket

LEMMA JoinAsks ==
  ASSUME NEW s \in Service, NEW e \in Tracked, s.link # "none"
  PROVE  LET n == JoinEntry(s, e)
         IN  /\ n.entry = e /\ n.link = s.link /\ n.shop = s.shop /\ n.rooms = s.rooms
             /\ \E i \in DOMAIN n.sends : n.sends[i] = e
<1>1. s.sends \in Seq(Tracked)
  BY DEF Service
<1>2. LET q == Append(s.sends, e) IN Len(q) \in DOMAIN q /\ q[Len(q)] = e
  BY <1>1
<1>3. QED
  BY <1>2 DEF JoinEntry, Service

(* What happens on the line: a lost room is asked for again.               *)
LEMMA AwaitedOnTheLine ==
  ASSUME SocketInv, CallerAwaited, LinkUp \/ LinkFails \/ LinkLost \/ ServerJoinsEntry
  PROVE  CallerAwaited'
<1> USE DEF CallerAwaited
<1>t. /\ svc \in Service /\ UNCHANGED <<caller, joined>>
      /\ svc.sends \in Seq(Tracked) /\ svc.rooms \in SUBSET (Tracked \cup QueueShops)
  BY DEF SocketInv, LinkUp, LinkFails, LinkLost, ServerJoinsEntry, Service
<1>1. CASE LinkUp
  <2> DEFINE q == Append(svc.sends, svc.entry)
  <2>1. /\ svc'.link = "up" /\ svc'.rooms = {svc.shop} /\ svc'.shop = svc.shop /\ svc'.entry = svc.entry
        /\ svc.entry # NoEntry => svc'.sends = q
    BY <1>1, <1>t DEF LinkUp, RejoinOnConnect, Service
  <2>2. ASSUME svc.entry \in Tracked
        PROVE  Asked(svc.entry)'
    <3>1. Len(q) \in DOMAIN q /\ q[Len(q)] = svc.entry
      BY <2>2, <1>t
    <3>2. svc.entry # NoEntry
      BY <2>2, SharedSocketAssumption DEF Callers
    <3>3. QED
      BY <2>1, <3>1, <3>2 DEF Asked
  <2>3. QED
    BY <2>1, <2>2, <1>1, <1>t DEF LinkUp
<1>2. CASE LinkFails \/ LinkLost
  BY <1>2, <1>t DEF LinkFails, LinkLost, Service
<1>3. CASE ServerJoinsEntry
  <2>1. /\ svc.link = "up" /\ svc.sends # <<>>
        /\ svc'.rooms = svc.rooms \cup {Head(svc.sends)} /\ svc'.sends = Tail(svc.sends)
        /\ svc'.shop = svc.shop /\ svc'.link = svc.link /\ svc'.entry = svc.entry
    BY <1>3, <1>t DEF ServerJoinsEntry, Service
  <2>2. ASSUME NEW v, Asked(v)
        PROVE  Asked(v)'
    <3>1. ASSUME NEW i \in DOMAIN svc.sends, svc.sends[i] = v
          PROVE  v = Head(svc.sends) \/ \E k \in DOMAIN Tail(svc.sends) : Tail(svc.sends)[k] = v
      <4>1. i \in 1..Len(svc.sends) /\ Len(svc.sends) \in Nat
        BY <1>t
      <4>2. CASE i = 1
        BY <3>1, <4>2, <2>1, <1>t
      <4>3. CASE i # 1
        <5>1. i - 1 \in DOMAIN Tail(svc.sends) /\ Tail(svc.sends)[i - 1] = v
          BY <3>1, <4>1, <4>3, <2>1, <1>t
        <5>2. QED
          BY <5>1
      <4>4. QED
        BY <4>2, <4>3
    <3>2. QED
      BY <3>1, <2>1, <2>2 DEF Asked
  <2>3. QED
    BY <2>1, <2>2, <1>t
<1>4. QED
  BY <1>1, <1>2, <1>3

(* What the pages of the phone do: the tracker that called last has asked. *)
LEMMA AwaitedOnThePhone ==
  ASSUME SocketInv, CallerAwaited,
         (\E e \in Tracked : OpenTracker(e)) \/ EntryLoaded \/ EntryNotLoaded \/ LeaveTracker
  PROVE  CallerAwaited'
<1> USE DEF CallerAwaited
<1>t. /\ svc \in Service
      /\ \A a \in asks : a.view \in Tracked /\ EntryShop[a.view] \in QueueShops
  BY DEF SocketInv, PhoneInv, QueueShops, OpenTracker, EntryLoaded, EntryNotLoaded, LeaveTracker
<1>1. CASE UNCHANGED <<svc, caller, joined>>
  BY <1>1 DEF Asked
<1>2. CASE EntryLoaded
  <2>1. PICK a \in asks :
          /\ svc' = JoinEntry(ConnectTo(svc, EntryShop[a.view]), a.view)
          /\ caller' = [view |-> a.view, shop |-> EntryShop[a.view], left |-> ~a.here]
    BY <1>2 DEF EntryLoaded, Calls
  <2> DEFINE s == ConnectTo(svc, EntryShop[a.view])
  <2>2. /\ s \in Service /\ s.link # "none" /\ s.shop = EntryShop[a.view]
        /\ s.link = "up" => s.shop \in s.rooms
    BY <1>t, Connected, ConnectKeepsRooms
  <2> HIDE DEF s
  <2>3. /\ svc'.entry = a.view /\ svc'.link = s.link /\ svc'.shop = s.shop /\ svc'.rooms = s.rooms
        /\ \E i \in DOMAIN svc'.sends : svc'.sends[i] = a.view
    BY <2>1, <2>2, <1>t, JoinAsks DEF s
  <2>4. QED
    BY <2>1, <2>2, <2>3, <1>t DEF Asked
<1>3. CASE LeaveTracker
  <2> DEFINE e == stack[Len(stack)]
  <2>1. svc' = TornDown(LeaveEntry(svc, e)) /\ caller'.view = e /\ e \notin joined'
    BY <1>3 DEF LeaveTracker, StopWatching, Calls
  <2>2. svc'.link = "none"
    BY <2>1 DEF TornDown, NoSocket
  <2>3. QED
    BY <2>1, <2>2
<1>4. QED
  BY <1>1, <1>2, <1>3 DEF OpenTracker, EntryNotLoaded

(* What the office does: the sidebar or the page that called last has a    *)
(* socket of the shop it called for.                                       *)
LEMMA AwaitedInTheOffice ==
  ASSUME SocketInv, CallerAwaited,
         EnterOffice \/ MovePage \/ ShopFound \/ ShopUnknown \/ ShopQueryFails \/ LeaveOffice
  PROVE  CallerAwaited'
<1> USE DEF CallerAwaited
<1>o. device = "office" /\ svc \in Service /\ known \in KnownType
  BY DEF SocketInv, EnterOffice, MovePage, ShopFound, ShopUnknown, ShopQueryFails, LeaveOffice
<1>a. \A a \in asks : a.view \in Office
  BY <1>o DEF SocketInv, OfficeInv, PageNow, Office
<1>f. \A v \in Office : v \notin Tracked
  BY SharedSocketAssumption
<1>c. /\ PageCloses(svc) \in Service
      /\ PageNow = {} => PageCloses(svc) = svc
      /\ PageNow # {} => PageCloses(svc).link = "none"
  BY <1>o, Closed DEF PageCloses
<1>0. CASE UNCHANGED <<svc, caller, joined>>
  BY <1>0 DEF Asked
<1>1. CASE EnterOffice \/ MovePage
  <2>0. PICK p \in OfficePages \cup {"elsewhere"} : \E asking : Shows(p, asking)
    BY <1>1 DEF EnterOffice, MovePage
  <2>1. PICK asking : Shows(p, asking)
    BY <2>0
  <2>2. /\ svc' = PageOpens(PageCloses(svc), p)
        /\ joined' = (joined \ PageNow) \cup (IF Knows(p) THEN {p} ELSE {})
    BY <2>1 DEF Shows, PageChanges
  <2>3. CASE Knows(p)
    <3>1. caller' = [view |-> p, shop |-> Found(p), left |-> FALSE] /\ p \in Office
      BY <2>1, <2>3 DEF Shows, Calls, Knows, Found, Office, OfficePages
    <3>2. svc' = ConnectTo(PageCloses(svc), Found(p))
      BY <2>2, <2>3 DEF PageOpens
    <3>3. Found(p) \in QueueShops
      BY <2>3, <1>o, KnownFields, ShopsAreShops DEF Found, Knows
    <3>4. svc'.link # "none" /\ svc'.shop = Found(p) /\ (svc'.link = "up" => svc'.shop \in svc'.rooms)
      BY <3>2, <3>3, <1>o, <1>c, ConnectKeepsRooms
    <3>5. QED
      BY <3>1, <3>4, <1>f
  <2>4. CASE ~Knows(p)
    <3>1. svc' = PageCloses(svc) /\ joined' = joined \ PageNow
      BY <2>2, <2>4 DEF PageOpens
    <3>2. CASE PageNow = {}
      <4>1. UNCHANGED <<svc, caller, joined>>
        BY <2>1, <2>4, <3>1, <3>2, <1>c DEF Shows
      <4>2. QED
        BY <4>1, <1>0
    <3>3. CASE PageNow # {}
      <4>1. caller'.view \notin joined' /\ svc'.link = "none"
        BY <2>1, <2>4, <3>1, <3>3, <1>c DEF Shows, Calls
      <4>2. QED
        BY <4>1
    <3>4. QED
      BY <3>2, <3>3
  <2>5. QED
    BY <2>3, <2>4
<1>2. CASE ShopFound
  <2>1. PICK a \in asks : Connects(a) \/ UNCHANGED <<svc, caller, joined>>
    BY <1>2 DEF ShopFound
  <2>2. ASSUME Connects(a)
        PROVE  CallerAwaited'
    <3>1. /\ svc' = ConnectTo(svc, known.myShop)
          /\ caller' = [view |-> a.view, shop |-> known.myShop, left |-> ~a.here]
      BY <2>2 DEF Connects, Calls
    <3>2. known.myShop \in QueueShops
      BY <1>2, ShopsAreShops DEF ShopFound
    <3>3. svc'.link # "none" /\ svc'.shop = known.myShop /\ (svc'.link = "up" => svc'.shop \in svc'.rooms)
      BY <3>1, <3>2, <1>o, ConnectKeepsRooms
    <3>4. QED
      BY <3>1, <3>3, <1>a, <1>f
  <2>3. QED
    BY <2>1, <2>2, <1>0
<1>3. CASE ShopUnknown \/ ShopQueryFails
  BY <1>3, <1>0 DEF ShopUnknown, ShopQueryFails
<1>4. CASE LeaveOffice
  <2>1. svc' = PageCloses(svc) /\ joined' = {}
    BY <1>4 DEF LeaveOffice
  <2>2. QED
    BY <2>1, <1>c
<1>5. QED
  BY <1>1, <1>2, <1>3, <1>4

(* queue-socket.service.ts connect, joinEntry and its handler of           *)
(* "connect": however the trackers, or the sidebar and the pages, take the *)
(* one service from each other, and whatever connections break, whoever    *)
(* called it last and is open is in its rooms once the server has heard    *)
(* everything.                                                             *)
THEOREM LastCallerHeard == SocketSpec => []LastCallerIsServed
<1>1. SocketInit => CallerAwaited
  BY DEF SocketInit, CallerAwaited, NoSocket
<1>2. SocketInv /\ CallerAwaited /\ [SocketNext]_socketVars => CallerAwaited'
  <2>1. UNCHANGED socketVars /\ CallerAwaited => CallerAwaited'
    BY DEF socketVars, CallerAwaited, Asked
  <2>2. QED
    BY <2>1, AwaitedOnTheLine, AwaitedOnThePhone, AwaitedInTheOffice DEF SocketNext
<1>3. SocketInv /\ CallerAwaited => LastCallerIsServed
  <2> SUFFICES ASSUME SocketInv, CallerAwaited, caller.view \in joined, ~caller.left
               PROVE  /\ svc.shop = caller.shop
                      /\ svc.link = "up" /\ svc.sends = <<>> =>
                           {svc.shop} \cup ({caller.view} \cap Tracked) \subseteq svc.rooms
    BY DEF LastCallerIsServed
  <2>1. svc.sends = <<>> => \A i \in DOMAIN svc.sends : FALSE
    OBVIOUS
  <2>2. QED
    BY <2>1 DEF CallerAwaited, Asked
<1>4. QED
  BY <1>1, <1>2, <1>3, SocketInvAlways, PTL DEF SocketSpec

-----------------------------------------------------------------------------
(* The types.                                                              *)

LEMMA PagesInvInit == SocketInit => PagesInv
<1> SUFFICES ASSUME SocketInit
             PROVE  PagesInv
  OBVIOUS
<1>1. /\ stack = <<>> /\ asks = {} /\ joined = {}
      /\ caller = [view |-> NoEntry, shop |-> NoEntry, left |-> FALSE]
  BY DEF SocketInit
<1>2. stack \in Seq(Callers) /\ DOMAIN stack = {}
  BY <1>1
<1>3. QED
  BY <1>1, <1>2 DEF PagesInv, CallerType

(* A tracker opens over the others, or the one in front is left.           *)
LEMMA PagesOnThePhone ==
  ASSUME SocketInv, PagesInv, (\E e \in Tracked : OpenTracker(e)) \/ EntryLoaded \/ LeaveTracker
  PROVE  PagesInv'
<1>d. device = "phone"
  BY DEF OpenTracker, EntryLoaded, LeaveTracker
<1>t. /\ asks \subseteq [view : Callers, here : BOOLEAN] /\ \A a \in asks : a.here => a.view \in Opened
      /\ stack \in Seq(Callers) /\ \A i, j \in DOMAIN stack : stack[i] = stack[j] => i = j
      /\ joined \subseteq Opened /\ caller \in CallerType
  BY DEF SocketInv, PagesInv
<1>1. ASSUME NEW e \in Tracked, OpenTracker(e)
      PROVE  PagesInv'
  <2>1. /\ stack' = Append(stack, e) /\ e \notin Opened /\ e \in Callers
        /\ asks' = asks \cup {[view |-> e, here |-> TRUE]} /\ UNCHANGED <<caller, joined>>
    BY <1>1 DEF OpenTracker, Callers
  <2>2. /\ stack' \in Seq(Callers) /\ DOMAIN stack' = 1..(Len(stack) + 1)
        /\ \A i \in DOMAIN stack : i \in DOMAIN stack' /\ stack'[i] = stack[i]
        /\ stack'[Len(stack) + 1] = e /\ DOMAIN stack = 1..Len(stack) /\ Len(stack) \in Nat
    BY <2>1, <1>t
  <2>3. \A i, j \in DOMAIN stack' : stack'[i] = stack'[j] => i = j
    BY <2>1, <2>2, <1>t DEF Opened
  <2>4. Opened \cup {e} \subseteq Opened'
    BY <2>2 DEF Opened
  <2>5. QED
    BY <2>1, <2>2, <2>3, <2>4, <1>t DEF PagesInv
<1>2. CASE EntryLoaded
  <2>1. PICK a \in asks :
          /\ asks' = asks \ {a}
          /\ caller' = [view |-> a.view, shop |-> EntryShop[a.view], left |-> ~a.here]
          /\ joined' = IF a.here THEN joined \cup {a.view} ELSE joined
          /\ UNCHANGED stack
    BY <1>2 DEF EntryLoaded, Calls
  <2>2. a.view \in Tracked /\ EntryShop[a.view] \in QueueShops
    BY <1>d DEF SocketInv, PhoneInv, QueueShops
  <2>3. caller' \in CallerType
    BY <2>1, <2>2, <1>t DEF CallerType
  <2>4. QED
    BY <2>1, <2>3, <1>t DEF PagesInv, Opened
<1>3. CASE LeaveTracker
  <2> DEFINE e == stack[Len(stack)]
             n == Len(stack)
  <2>1. /\ stack # <<>> /\ stack' = SubSeq(stack, 1, n - 1) /\ joined' = joined \ {e}
        /\ asks' = {IF a.view = e THEN [a EXCEPT !.here = FALSE] ELSE a : a \in asks}
        /\ caller' = [view |-> e, shop |-> NoEntry, left |-> FALSE]
    BY <1>3 DEF LeaveTracker, Calls
  <2>2. n \in Nat \ {0} /\ DOMAIN stack = 1..n /\ e \in Callers
    BY <2>1, <1>t
  <2>3. /\ stack' \in Seq(Callers) /\ DOMAIN stack' = 1..(n - 1)
        /\ \A i \in 1..(n - 1) : stack'[i] = stack[i]
    BY <2>1, <2>2, <1>t
  <2>4. \A i, j \in DOMAIN stack' : stack'[i] = stack'[j] => i = j
    BY <2>2, <2>3, <1>t
  <2>5. Opened \ {e} \subseteq Opened'
    BY <2>2, <2>3 DEF Opened
  <2> HIDE DEF e
  <2>6. \A a \in asks' : a.here => a.view \in Opened \ {e}
    BY <2>1, <1>t
  <2>7. QED
    BY <2>1, <2>2, <2>3, <2>4, <2>5, <2>6, <1>t DEF PagesInv, CallerType
<1>4. QED
  BY <1>1, <1>2, <1>3

(* The sidebar comes and goes with the office, a page with the next one.   *)
LEMMA PagesInTheOffice ==
  ASSUME SocketInv, PagesInv, EnterOffice \/ MovePage \/ ShopFound \/ LeaveOffice
  PROVE  PagesInv'
<1>d. device = "office"
  BY DEF EnterOffice, MovePage, ShopFound, LeaveOffice
<1>t. /\ asks \subseteq [view : Callers, here : BOOLEAN] /\ \A a \in asks : a.here => a.view \in Opened
      /\ stack \in {<<>>, <<"sidebar">>} \cup {<<"sidebar", p>> : p \in OfficePages}
      /\ joined \subseteq Opened /\ caller \in CallerType
  BY <1>d DEF SocketInv, OfficeInv, PagesInv
<1>o. Opened \subseteq {"sidebar"} \cup PageNow /\ PageNow \subseteq Callers /\ (stack = <<>> => Opened = {})
  <2>1. CASE stack = <<>>
    BY <2>1 DEF Opened, PageNow
  <2>2. CASE stack = <<"sidebar">>
    BY <2>2 DEF Opened, PageNow
  <2>3. ASSUME NEW p \in OfficePages, stack = <<"sidebar", p>>
        PROVE  Opened \subseteq {"sidebar"} \cup PageNow /\ PageNow \subseteq Callers /\ stack # <<>>
    BY <2>3 DEF Opened, PageNow, Callers, Office
  <2>4. QED
    BY <2>1, <2>2, <2>3, <1>t
<1>c. \A q \in Callers : \A n \in QueueShops \cup {NoEntry} :
        [view |-> q, shop |-> n, left |-> FALSE] \in CallerType
  BY DEF CallerType
<1>1. CASE EnterOffice \/ MovePage
  <2>1. PICK p \in OfficePages \cup {"elsewhere"} :
          /\ \E asking : Shows(p, asking)
          /\ \A a \in asks' : (a \in asks /\ (a.view = "sidebar" \/ stack = <<>>))
                              \/ a = [view |-> "sidebar", here |-> TRUE] \/ a \in PageAsks(p)
    BY <1>1 DEF EnterOffice, MovePage
  <2>2. /\ stack' = IF p \in OfficePages THEN <<"sidebar", p>> ELSE <<"sidebar">>
        /\ joined' = (joined \ PageNow) \cup (IF Knows(p) THEN {p} ELSE {})
    BY <2>1 DEF Shows
  <2>3. Knows(p) => p \in OfficePages /\ Found(p) \in QueueShops
    <3>1. known \in KnownType
      BY DEF SocketInv
    <3>2. QED
      BY <3>1, KnownFields, ShopsAreShops DEF Knows, Found, OfficePages
  <2>4. /\ stack' \in Seq(Callers) /\ (\A i, j \in DOMAIN stack' : stack'[i] = stack'[j] => i = j)
        /\ Opened' = {"sidebar"} \cup ({p} \cap OfficePages)
    <3>1. CASE p \in OfficePages
      <4>1. stack' = <<"sidebar", p>> /\ p # "sidebar" /\ p \in Callers /\ "sidebar" \in Callers
        BY <2>2, <3>1 DEF OfficePages, Callers, Office
      <4>2. QED
        BY <4>1, <3>1 DEF Opened
    <3>2. CASE p \notin OfficePages
      <4>1. stack' = <<"sidebar">> /\ "sidebar" \in Callers
        BY <2>2, <3>2 DEF Callers, Office
      <4>2. QED
        BY <4>1, <3>2 DEF Opened
    <3>3. QED
      BY <3>1, <3>2
  <2>5. joined' \subseteq Opened'
    BY <2>2, <2>3, <2>4, <1>t, <1>o
  <2>a. \A a \in PageAsks(p) : p \in OfficePages /\ a = [view |-> p, here |-> TRUE]
    BY DEF PageAsks, OfficePages
  <2>6. ASSUME NEW a \in asks', a.here
        PROVE  a.view \in Opened'
    <3>1. CASE a \in asks /\ (a.view = "sidebar" \/ stack = <<>>)
      BY <3>1, <2>4, <2>6, <1>t, <1>o
    <3>2. CASE a = [view |-> "sidebar", here |-> TRUE]
      BY <3>2, <2>4
    <3>3. CASE a \in PageAsks(p)
      BY <3>3, <2>4, <2>a
    <3>4. QED
      BY <3>1, <3>2, <3>3, <2>1
  <2>7. caller' \in CallerType
    <3>1. p \in OfficePages => p \in Callers
      BY DEF Callers, Office
    <3>2. \/ Knows(p) /\ caller' = [view |-> p, shop |-> Found(p), left |-> FALSE]
          \/ \E q \in PageNow : caller' = [view |-> q, shop |-> NoEntry, left |-> FALSE]
          \/ caller' = caller
      BY <2>1 DEF Shows, Calls
    <3>3. QED
      BY <3>1, <3>2, <2>3, <1>t, <1>o, <1>c
  <2>8. QED
    BY <2>2, <2>4, <2>5, <2>6, <2>7, <1>t DEF PagesInv
<1>2. CASE ShopFound
  <2>1. PICK a \in asks :
          asks' = asks \ {a} /\ UNCHANGED stack /\ (Connects(a) \/ UNCHANGED <<caller, joined>>)
    BY <1>2 DEF ShopFound
  <2>2. known.myShop \in QueueShops /\ a.view \in Callers /\ a.here \in BOOLEAN
    BY <1>2, <1>t, ShopsAreShops DEF ShopFound
  <2>3. caller' \in CallerType
    <3> DEFINE gone == ~a.here
    <3>0. gone \in BOOLEAN
      BY <2>2
    <3> HIDE DEF gone
    <3>1. [view |-> a.view, shop |-> known.myShop, left |-> gone] \in CallerType
      BY <2>2, <3>0 DEF CallerType
    <3>2. Connects(a) => caller' = [view |-> a.view, shop |-> known.myShop, left |-> gone]
      BY DEF Connects, Calls, gone
    <3>3. QED
      BY <2>1, <3>1, <3>2, <1>t
  <2>4. joined' \subseteq Opened
    BY <2>1, <1>t DEF Connects
  <2>5. QED
    BY <2>1, <2>3, <2>4, <1>t DEF PagesInv, Opened
<1>3. CASE LeaveOffice
  <2>1. /\ stack' = <<>> /\ joined' = {}
        /\ asks' = {[a EXCEPT !.here = FALSE] : a \in {b \in asks : b.view = "sidebar"}}
        /\ (caller' = caller) \/ \E q \in PageNow : caller' = [view |-> q, shop |-> NoEntry, left |-> FALSE]
    BY <1>3 DEF LeaveOffice, Calls
  <2>2. stack' \in Seq(Callers) /\ DOMAIN stack' = {}
    BY <2>1
  <2>3. caller' \in CallerType
    BY <2>1, <1>t, <1>o, <1>c
  <2>4. \A a \in asks' : ~a.here
    BY <2>1, <1>t
  <2>5. QED
    BY <2>1, <2>2, <2>3, <2>4 DEF PagesInv
<1>4. QED
  BY <1>1, <1>2, <1>3

LEMMA PagesInvNext == SocketInv /\ PagesInv /\ [SocketNext]_socketVars => PagesInv'
<1> SUFFICES ASSUME SocketInv, PagesInv, [SocketNext]_socketVars
             PROVE  PagesInv'
  OBVIOUS
<1>1. CASE asks' \subseteq asks /\ UNCHANGED <<stack, caller, joined>>
  <2>1. UNCHANGED Opened
    BY <1>1 DEF Opened
  <2>2. QED
    BY <1>1, <2>1 DEF PagesInv
<1>2. CASE LinkUp \/ LinkFails \/ LinkLost \/ ServerJoinsEntry \/ EntryNotLoaded \/ ShopUnknown
           \/ ShopQueryFails \/ UNCHANGED socketVars
  BY <1>1, <1>2 DEF LinkUp, LinkFails, LinkLost, ServerJoinsEntry, EntryNotLoaded, ShopUnknown,
                    ShopQueryFails, socketVars
<1>3. QED
  BY <1>2, PagesOnThePhone, PagesInTheOffice DEF SocketNext

(* A stack without repetitions has as many pages as it is long.            *)
LEMMA SocketTyped == SocketInv /\ PagesInv => SocketTypeOK
<1> SUFFICES ASSUME SocketInv, PagesInv
             PROVE  SocketTypeOK
  OBVIOUS
<1>1. Len(stack) \in Nat /\ DOMAIN stack = 1..Len(stack) /\ stack \in [1..Len(stack) -> Callers]
  BY DEF PagesInv
<1>2. stack \in Bijection(1..Len(stack), Opened)
  <2>1. stack \in [1..Len(stack) -> Opened] /\ \A p \in Opened : \E i \in 1..Len(stack) : stack[i] = p
    BY <1>1 DEF Opened
  <2>2. \A i, j \in 1..Len(stack) : stack[i] = stack[j] => i = j
    BY <1>1 DEF PagesInv
  <2>3. QED
    BY <2>1, <2>2 DEF Bijection, Injection, Surjection, IsInjective
<1>3. Cardinality(Opened) = Len(stack)
  BY <1>1, <1>2, FS_CountingElements DEF ExistsBijection
<1>4. Opened \subseteq Callers
  BY <1>1 DEF Opened
<1>5. QED
  BY <1>3, <1>4 DEF SocketTypeOK, SocketInv, PagesInv
=============================================================================
