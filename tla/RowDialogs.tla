----------------------------- MODULE RowDialogs -----------------------------
(***************************************************************************)
(* The pages of the admin dashboard that keep a list and edit its rows in  *)
(* a dialog: barbers.page.ts, services.page.ts, staff.page.ts and          *)
(* bookings.page.ts.  Saving is a timer of about half a second, which      *)
(* reads editingId and the form when it fires; the dialog's close icon     *)
(* works meanwhile.  A page that is left is gone, with its timers.         *)
(***************************************************************************)
EXTENDS Integers, FiniteSets, Sequences

CONSTANTS
  Texts,     \* what may be typed into a form, all fields together
  Photos,    \* pictures that may be picked
  Blank,     \* a form without a name
  NoPhoto,
  Listed,    \* rows that each page comes with
  MaxNew     \* bound: dialogs opened for a new row

ASSUME RowDialogsAssumption ==
  /\ Texts # {} /\ Blank \notin Texts /\ NoPhoto \notin Photos
  /\ Listed \in Nat /\ MaxNew \in Nat

VARIABLES
  tab,        \* the page
  loading,    \* its list has not come yet
  rows,       \* its list
  lastId,     \* the id given last
  visible,    \* dialogVisible
  editing,    \* editingId, 0 for null
  fields,     \* the form
  saving,
  due,        \* saves whose timer runs: what each took from the form when it began
  reading,    \* pictures that a FileReader reads
  opener,     \* the row that the dialog was opened for, 0 for a new one
  opened,     \* dialogs opened for a new row
  wanted,     \* opener and form when Save was pressed
  disturbed   \* the dialog or its form changed since

dialog == <<visible, editing, fields, opener, opened>>
timers == <<saving, due, reading, wanted>>
dialogVars == <<tab, loading, rows, lastId, dialog, timers, disturbed>>

Tabs == {"barbers", "services", "staff", "bookings"}

WithPhotos == {"barbers", "staff"}

Fields == [text : Texts \cup {Blank}, photo : Photos \cup {NoPhoto}]

EmptyForm == [text |-> Blank, photo |-> NoPhoto]

\* early: the specialties of a barber, the initials of a member of the staff,
\* which saving takes from the form at once.
Rows == [early : Texts \cup {Blank}, late : Texts \cup {Blank}, photo : Photos \cup {NoPhoto},
         active : BOOLEAN]

FirstRow == [early |-> CHOOSE t \in Texts : TRUE, late |-> CHOOSE t \in Texts : TRUE,
             photo |-> NoPhoto, active |-> TRUE]

FirstRows == [i \in 1..Listed |-> FirstRow]

NothingWanted == [row |-> 0, form |-> EmptyForm]

RowOf(old, early, form) ==
  [old EXCEPT !.early = IF tab \in WithPhotos THEN early ELSE form.text,
              !.late = form.text, !.photo = form.photo]

WithRow(id, row) == [i \in DOMAIN rows \cup {id} |-> IF i = id THEN row ELSE rows[i]]

Disturb == disturbed' = (disturbed \/ saving)

-----------------------------------------------------------------------------
(* The list.                                                               *)

\* The staff are there at once; the others come after half a second, the
\* bookings when the API has refused a query that it does not have.
Enter(p) ==
  /\ p # tab
  /\ tab' = p
  /\ loading' = (p # "staff") /\ rows' = IF p = "staff" THEN FirstRows ELSE [i \in {} |-> FirstRow]
  /\ lastId' = Listed
  /\ visible' = FALSE /\ editing' = 0 /\ fields' = EmptyForm /\ opener' = 0 /\ opened' = 0
  /\ saving' = FALSE /\ due' = <<>> /\ reading' = {} /\ wanted' = NothingWanted
  /\ disturbed' = FALSE

LoadRows ==
  /\ loading
  /\ loading' = FALSE
  /\ rows' = FirstRows
  /\ UNCHANGED <<tab, lastId, dialog, timers, disturbed>>

\* toggleStatus; cancelBooking, which only goes one way.
ToggleStatus(i) ==
  /\ ~visible
  /\ rows' = [rows EXCEPT ![i].active = ~@ /\ tab # "bookings"]
  /\ UNCHANGED <<tab, loading, lastId, dialog, timers, disturbed>>

DeleteRow(i) ==
  /\ ~visible /\ tab # "bookings"
  /\ rows' = [j \in DOMAIN rows \ {i} |-> rows[j]]
  /\ UNCHANGED <<tab, loading, lastId, dialog, timers, disturbed>>

-----------------------------------------------------------------------------
(* The dialog.                                                             *)

\* editingId keeps the row edited before.
OpenNewStale ==
  /\ ~visible /\ opened < MaxNew
  /\ visible' = TRUE /\ fields' = EmptyForm
  /\ opener' = 0 /\ opened' = opened + 1
  /\ Disturb
  /\ UNCHANGED <<tab, loading, rows, lastId, timers, editing>>

OpenNew ==
  /\ ~visible /\ opened < MaxNew
  /\ visible' = TRUE /\ editing' = 0 /\ fields' = EmptyForm
  /\ opener' = 0 /\ opened' = opened + 1
  /\ Disturb
  /\ UNCHANGED <<tab, loading, rows, lastId, timers>>

Edit(i) ==
  /\ ~visible /\ tab # "bookings"
  /\ visible' = TRUE /\ editing' = i
  /\ fields' = [text |-> rows[i].late, photo |-> rows[i].photo]
  /\ opener' = i
  /\ Disturb
  /\ UNCHANGED <<tab, loading, rows, lastId, timers, opened>>

Type(t) ==
  /\ visible
  /\ fields' = [fields EXCEPT !.text = t]
  /\ Disturb
  /\ UNCHANGED <<tab, loading, rows, lastId, timers, visible, editing, opener, opened>>

\* onPhotoChange starts a reader.
PickPhoto(p) ==
  /\ visible /\ tab \in WithPhotos
  /\ reading' = reading \cup {p}
  /\ UNCHANGED <<tab, loading, rows, lastId, dialog, saving, due, wanted, disturbed>>

\* onload writes into the form that there is then.
PhotoRead(p) ==
  /\ reading' = reading \ {p}
  /\ fields' = [fields EXCEPT !.photo = p]
  /\ Disturb
  /\ UNCHANGED <<tab, loading, rows, lastId, saving, due, wanted, visible, editing, opener, opened>>

RemovePhoto ==
  /\ visible /\ tab \in WithPhotos
  /\ fields' = [fields EXCEPT !.photo = NoPhoto]
  /\ Disturb
  /\ UNCHANGED <<tab, loading, rows, lastId, timers, visible, editing, opener, opened>>

\* The close icon, or Cancel.
Close ==
  /\ visible
  /\ visible' = FALSE
  /\ UNCHANGED <<tab, loading, rows, lastId, timers, editing, fields, opener, opened, disturbed>>

-----------------------------------------------------------------------------
(* Saving.                                                                 *)

\* The button stays enabled while a save is under way.
SaveAgain ==
  /\ visible /\ fields.text # Blank /\ Len(due) < 2
  /\ saving' = TRUE
  /\ due' = Append(due, fields.text)
  /\ wanted' = [row |-> opener, form |-> fields] /\ disturbed' = FALSE
  /\ UNCHANGED <<tab, loading, rows, lastId, dialog, reading>>

Save ==
  /\ visible /\ fields.text # Blank /\ ~saving
  /\ saving' = TRUE
  /\ due' = <<fields.text>>
  /\ wanted' = [row |-> opener, form |-> fields] /\ disturbed' = FALSE
  /\ UNCHANGED <<tab, loading, rows, lastId, dialog, reading>>

AddRow ==
  /\ editing = 0
  /\ lastId' = lastId + 1
  /\ rows' = WithRow(lastId + 1, RowOf([FirstRow EXCEPT !.active = TRUE], Head(due), fields))

\* A row deleted meanwhile is not found.
ChangeRow ==
  /\ editing # 0
  /\ rows' = IF editing \in DOMAIN rows
               THEN WithRow(editing, RowOf(rows[editing], Head(due), fields)) ELSE rows
  /\ UNCHANGED lastId

\* The dialog stays for the next row.
SaveFiresAndStays ==
  /\ due # <<>>
  /\ loading => tab = "bookings"
  /\ due' = Tail(due)
  /\ AddRow \/ ChangeRow
  /\ saving' = FALSE
  /\ wanted' = NothingWanted /\ disturbed' = FALSE
  /\ UNCHANGED <<tab, loading, visible, editing, fields, opener, opened, reading>>

\* The timer fires.  The list's timer began before it; the bookings' query may
\* be answered later.
SaveFires ==
  /\ due # <<>>
  /\ loading => tab = "bookings"
  /\ due' = Tail(due)
  /\ AddRow \/ ChangeRow
  /\ saving' = FALSE /\ visible' = FALSE
  /\ wanted' = NothingWanted /\ disturbed' = FALSE
  /\ UNCHANGED <<tab, loading, editing, fields, opener, opened, reading>>

-----------------------------------------------------------------------------
(* The pages.                                                              *)

EditList ==
  \/ LoadRows \/ OpenNew \/ Close \/ Save \/ SaveFires
  \/ \E i \in DOMAIN rows : ToggleStatus(i) \/ Edit(i) \/ DeleteRow(i)
  \/ \E t \in Texts \cup {Blank} : Type(t)

Photograph ==
  \/ RemovePhoto
  \/ \E p \in Photos : PickPhoto(p)
  \/ \E p \in reading : PhotoRead(p)

DialogInit ==
  /\ tab \in Tabs
  /\ loading = (tab # "staff")
  /\ rows = IF tab = "staff" THEN FirstRows ELSE [i \in {} |-> FirstRow]
  /\ lastId = Listed
  /\ visible = FALSE /\ editing = 0 /\ fields = EmptyForm /\ opener = 0 /\ opened = 0
  /\ saving = FALSE /\ due = <<>> /\ reading = {} /\ wanted = NothingWanted
  /\ disturbed = FALSE

BarbersPage == tab = "barbers" /\ (EditList \/ Photograph)

StaffPage == tab = "staff" /\ (EditList \/ Photograph)

ServicesPage == tab = "services" /\ EditList

BookingsPage == tab = "bookings" /\ EditList

DialogNext ==
  BarbersPage \/ StaffPage \/ ServicesPage \/ BookingsPage \/ \E p \in Tabs : Enter(p)

DialogSpec == DialogInit /\ [][DialogNext]_dialogVars

-----------------------------------------------------------------------------
(* Properties.                                                             *)

DialogTypeOK ==
  /\ tab \in Tabs /\ loading \in BOOLEAN
  /\ lastId \in Nat /\ DOMAIN rows \subseteq 1..lastId
  /\ \A i \in DOMAIN rows : rows[i] \in Rows
  /\ visible \in BOOLEAN /\ editing \in 0..lastId /\ fields \in Fields
  /\ saving \in BOOLEAN /\ (saving <=> due # <<>>)
  /\ due \in Seq(Texts) /\ reading \subseteq Photos
  /\ opener \in 0..lastId /\ opened \in 0..MaxNew
  /\ wanted \in [row : Nat, form : Fields] /\ disturbed \in BOOLEAN

\* A save whose dialog nobody touched since it began lands as it was meant: in
\* the row the dialog was opened for, unless that was deleted, or in a new one,
\* and nowhere else (saveBarber, saveService, saveMember, saveBooking).
UndisturbedSavesLand ==
  [][saving /\ ~saving' /\ tab' = tab /\ ~disturbed =>
       LET new == RowOf(FirstRow, wanted.form.text, wanted.form)
           i == wanted.row
       IN rows' = IF i = 0 THEN WithRow(lastId + 1, new)
                  ELSE IF i \in DOMAIN rows THEN WithRow(i, [new EXCEPT !.active = rows[i].active])
                  ELSE rows]_dialogVars

\* However dialogs are saved, closed and opened again, no more rows are added
\* than dialogs were opened for a new one: none is saved twice.
AddsOncePerDialog == lastId <= Listed + opened

-----------------------------------------------------------------------------
(* The inductive invariant behind these properties.                        *)

\* One save is under way at a time.
OneTimer == due = <<>> \/ \E text \in Texts : due = <<text>>

\* A row that is still to be added has a dialog of its own.
AddsToCome ==
  /\ Listed <= lastId /\ lastId <= Listed + opened
  /\ editing = 0 /\ (visible \/ saving) => lastId < Listed + opened

\* The timer will find what Save was pressed for.
SavesWhatWasWanted ==
  /\ opener = editing
  /\ saving /\ ~disturbed => wanted = [row |-> opener, form |-> fields] /\ due = <<fields.text>>

DialogInv == DialogTypeOK /\ OneTimer /\ AddsToCome /\ SavesWhatWasWanted
=============================================================================
