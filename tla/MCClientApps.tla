---------------------------- MODULE MCClientApps ----------------------------
(***************************************************************************)
(* Small instances of the parts of the client applications: the dialogs    *)
(* and the session of the admin dashboard, the visitor's way to a join or  *)
(* a booking, and the socket service that the pages share.  They share no  *)
(* state, so each behaviour moves one of them.                             *)
(***************************************************************************)
EXTENDS RowDialogs, VisitorApp, SharedSocket, MCStaffSession

VARIABLE app

clientVars == <<app, dialogVars, visitorVars, socketVars, staffVars>>

\* The seeded shop, and one with an id from the database.
Listing == [s \in Slugs |-> IF s = "demo" THEN <<"main">> ELSE <<"center">>]

Chairs == [s \in Slugs |-> IF s = "demo" THEN {"d1"} ELSE {"k1"}]

\* The owners of two shops, one with a token from before the shop was made,
\* somebody who works in main only, and somebody who owns center, too.
Colleagues ==
  {[token |-> t, owns |-> "main"] : t \in {"main", NoEntry}}
  \cup {[token |-> t, owns |-> "center"] : t \in {"main", "center"}}
  \cup {[token |-> "main", owns |-> NoEntry]}

\* Three visits, two of them in one shop.
Visits == [e \in {"e1", "e2", "e3"} |-> IF e = "e3" THEN "center" ELSE "main"]

Init ==
  /\ app \in {"dialogs", "visitor", "sockets", "session"}
  /\ VisitorInit
  /\ SocketInit /\ (app # "sockets" => device = "phone")
  /\ DialogInit /\ (app # "dialogs" => tab = "staff")
  /\ StaffInit

Dialogs ==
  /\ app = "dialogs" /\ DialogNext
  /\ UNCHANGED <<app, visitorVars, socketVars, staffVars>>

Visitor ==
  /\ app = "visitor" /\ VisitorNext
  /\ UNCHANGED <<app, dialogVars, socketVars, staffVars>>

Sockets ==
  /\ app = "sockets" /\ SocketNext
  /\ UNCHANGED <<app, dialogVars, visitorVars, staffVars>>

Session ==
  /\ app = "session" /\ StaffNext
  /\ UNCHANGED <<app, dialogVars, visitorVars, socketVars>>

Next == Dialogs \/ Visitor \/ Sockets \/ Session

Spec == Init /\ [][Next]_clientVars

\* Of the session, what its rest and NamesAreOwn can depend on: of the names in
\* Apollo's cache the one that it answers, and not what a page only shows.
ViewWithoutShown ==
  <<app, dialogVars, visitorVars, socketVars,
    token, tenant, cached, IF InCache THEN read[cached] ELSE NoName, asked,
    names, logins, saves, page, shop, form, busy>>

\* Every variable of the four has its type.
TypeOK == DialogTypeOK /\ VisitorTypeOK /\ SocketTypeOK /\ StaffTypeOK
=============================================================================
