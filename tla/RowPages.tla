------------------------------ MODULE RowPages ------------------------------
(***************************************************************************)
(* The pages that show a list of the server's rows and act on them one by  *)
(* one: bookings, people, rooms, pricing, reviews, notifications.  All     *)
(* follow one scheme, of which each page is a table: the list is read when *)
(* the page mounts; a control sends a call and puts the row into the       *)
(* page's one busy marker, which disables that row's controls and no       *)
(* other's; the answer changes the list by the row the server returned, by *)
(* what the handler takes for granted, or by dropping the row.  A row is   *)
(* [st |-> flags or status, rest |-> the version of its other fields].     *)
(***************************************************************************)
EXTENDS Naturals, FiniteSets

CONSTANTS Pages,      \* the pages a run visits
          Rows,       \* the rows the server has at first
          NewRow,     \* bound: the one row that may be created
          Statuses,   \* bound: the statuses AllBookings and other people set
          None, Refused,
          Slots,      \* bound: calls in flight at once
          MaxSends,   \* bound: calls on rows
          MaxEvents   \* bound: times a page is entered or its tab changed, and
                      \* changes by somebody else

AllPages == {"AllBookings", "PendingApprovals", "TodaySummary", "CheckInOut",
             "StaffCheckInOut", "MyBookings", "BookingDetails", "AllGuests",
             "StaffAccounts", "RoomsList", "RoomTypes", "DynamicPricing",
             "BlackoutDates", "Reviews", "Notifications"}

Flags == {"pending", "confirmed", "completed", "cancelled",
          "banned", "vip", "admin", "active", "edited", "read"}
Row == [st : SUBSET Flags, rest : Nat]
Markers == {"acting", "deleting", "saving"}
Ops == {"status", "confirm", "checkin", "checkout", "cancel", "vip", "ban", "loyalty", "role",
        "edit", "toggle", "retire", "create", "delete", "read", "readAll"}

ASSUME FiniteAssumption == IsFiniteSet(Rows)
ASSUME RowPagesAssumption ==
    /\ Pages \subseteq AllPages /\ None \notin AllPages
    /\ NewRow \notin Rows /\ None \notin Rows \cup {NewRow}
    /\ None # Refused /\ None \notin Nat /\ None \notin Row /\ Refused \notin Row
    /\ None \notin Markers /\ None \notin (Rows \cup {NewRow}) \X Ops
    /\ Statuses \subseteq {"pending", "confirmed", "completed", "cancelled"}

VARIABLES page, tab,  \* the mounted page; the tab of AllBookings
          server,     \* the rows as the server has them
          shown,      \* the list in the page's state, by row number
          twice,      \* rows listed twice
          loading,    \* the list is being read
          busy,       \* the busy markers: which row and control each names
          dialog,     \* the confirmation or form that is open
          tally,      \* the number AllBookings shows on its "pending" tab
          calls,      \* calls in flight
          others, visits, sends,
          doubt,      \* history: rows the list may show wrongly
          miscounted  \* history: whether tally may be wrong

vars == <<page, tab, server, shown, twice, loading, busy, dialog, tally, calls,
          others, visits, sends, doubt, miscounted>>

Ids == Rows \cup {NewRow}

-----------------------------------------------------------------------------
(* The pages.  A control: what its handler calls, the marker that disables
   it, the marker it sets, what its answer does to the list, and whether a
   dialog comes first.                                                   *)
Control(op, guard, marker, effect, asks) ==
    [op |-> op, guard |-> guard, marker |-> marker, effect |-> effect, asks |-> asks]

AllBookingsControls == {Control("status", "acting", "acting", "assume", FALSE)}
TodayControls ==
    {Control("confirm", "acting", "acting", "assume", FALSE),
     Control("checkin", "acting", "acting", "assume", FALSE)}
DeskControls ==
    {Control("checkin", "acting", "acting", "drop", FALSE),
     Control("checkout", "acting", "acting", "drop", FALSE)}
StaffDeskControls == DeskControls
MyBookingsControls == {Control("cancel", "acting", "acting", "assume", TRUE)}
BookingDetailsControls == {Control("cancel", "acting", "acting", "row", FALSE)}
GuestControls ==
    {Control("vip", "acting", "acting", "row", FALSE),
     Control("ban", "acting", "acting", "row", TRUE),
     Control("loyalty", None, "acting", "row", TRUE),
     Control("delete", "deleting", "deleting", "drop", FALSE)}
StaffControls ==
    {Control("role", "acting", "acting", "row", FALSE),
     Control("ban", "acting", "acting", "row", FALSE),
     Control("edit", "acting", "acting", "row", TRUE),
     Control("delete", "acting", "acting", "drop", FALSE)}
RoomControls ==
    {Control("toggle", "acting", "acting", "row", FALSE),
     Control("retire", "acting", "acting", "drop", FALSE)}
RoomTypeControls ==
    {Control("edit", "saving", "saving", "row", TRUE),
     Control("create", "saving", "saving", "append", TRUE),
     Control("delete", None, None, "drop", FALSE)}
PricingControls ==
    {Control("create", "saving", "saving", "append", TRUE),
     Control("delete", "deleting", "deleting", "drop", FALSE)}
BlackoutControls == PricingControls
ReviewControls == {Control("delete", "deleting", "deleting", "drop", FALSE)}
NotificationControls ==
    {Control("read", None, None, "row", FALSE),
     Control("readAll", None, None, "all", FALSE)}

Controls(p) ==
    CASE p \in {"AllBookings", "PendingApprovals"} -> AllBookingsControls
      [] p = "TodaySummary"   -> TodayControls
      [] p = "CheckInOut"     -> DeskControls
      [] p = "StaffCheckInOut" -> StaffDeskControls
      [] p = "MyBookings"     -> MyBookingsControls
      [] p = "BookingDetails" -> BookingDetailsControls
      [] p = "AllGuests"      -> GuestControls
      [] p = "StaffAccounts"  -> StaffControls
      [] p = "RoomsList"      -> RoomControls
      [] p = "RoomTypes"      -> RoomTypeControls
      [] p = "DynamicPricing" -> PricingControls
      [] p = "BlackoutDates"  -> BlackoutControls
      [] p = "Reviews"        -> ReviewControls
      [] p = "Notifications"  -> NotificationControls

Flip(s, f) == IF f \in s THEN s \ {f} ELSE s \cup {f}
AStatus == {{s} : s \in Statuses}
OnBookings == {"AllBookings", "PendingApprovals", "TodaySummary", "CheckInOut",
               "StaffCheckInOut", "MyBookings", "BookingDetails"}
Counted == page \in {"AllBookings", "PendingApprovals"}

(* The list a page asks for: the desks ask for confirmed bookings, AllBookings
   for those of its tab.                                                 *)
Listed(p, t, row) ==
    /\ row # None
    /\ p \in {"CheckInOut", "StaffCheckInOut"} => row.st = {"confirmed"}
    /\ t = "pending" => row.st = {"pending"}

(* What a control sends besides the row's number, computed from the row as
   the list, or the dialog, shows it: the row it asks for, of which the call
   carries the field the control is about, or all (toggle).              *)
Arguments(p, op, row) ==
    CASE op = "status" -> {[row EXCEPT !.st = s] : s \in AStatus \ {row.st}}
      [] op = "ban"    -> {[row EXCEPT !.st = Flip(@, "banned")]}
      [] op = "role"   -> {[row EXCEPT !.st = Flip(@, "admin")]}
      [] op = "toggle" -> {[row EXCEPT !.st = Flip(@, "active")]}
      [] op = "edit"   -> {[row EXCEPT !.st = Flip(@, "edited")]}
      [] OTHER         -> {None}

(* What the markup offers for a row. *)
Offered(p, op, row) ==
    CASE p = "TodaySummary" /\ op = "confirm" -> row.st = {"pending"}
      [] p = "TodaySummary" /\ op = "checkin" -> row.st = {"confirmed"}
      [] p = "MyBookings"     -> row.st \in {{"pending"}, {"confirmed"}}
      [] p = "BookingDetails" -> row.st = {"pending"}
      [] op = "read"          -> "read" \notin row.st
      [] OTHER                -> TRUE

Only(st, arg, f) == (st \ {f}) \cup (arg.st \cap {f})

(* The server's side of each call: the row afterwards, or a refusal. *)
Served(op, row, arg) ==
    IF row = None THEN Refused ELSE
    CASE op = "status"  -> [row EXCEPT !.st = arg.st]
      [] op = "confirm" -> [row EXCEPT !.st = {"confirmed"}]
      [] op = "cancel"  -> [row EXCEPT !.st = {"cancelled"}]
      [] op = "checkin" -> IF row.st = {"confirmed"} THEN [row EXCEPT !.st = {"completed"}]
                           ELSE Refused
      [] op = "checkout" -> IF row.st = {"completed"} THEN row ELSE Refused
      [] op = "ban"     -> [row EXCEPT !.st = Only(@, arg, "banned")]
      [] op = "vip"     -> [row EXCEPT !.st = Flip(@, "vip")]
      [] op = "role"    -> [row EXCEPT !.st = Only(@, arg, "admin")]
      [] op = "loyalty" -> [row EXCEPT !.rest = @ + 1]
      [] op = "edit"    -> [st |-> Only(row.st, arg, "edited"), rest |-> arg.rest]
      [] op = "toggle"  -> arg
      [] op = "retire"  -> [row EXCEPT !.st = @ \ {"active"}]
      [] op = "read"    -> [row EXCEPT !.st = {"read"}]
      [] op = "delete"  -> None

(* What a handler that keeps its own row takes the answer to mean. *)
Assumed(op, row, arg) ==
    CASE op = "status" -> [row EXCEPT !.st = arg.st]
      [] op = "cancel" -> [row EXCEPT !.st = {"cancelled"}]
      [] OTHER         -> [row EXCEPT !.st = {"confirmed"}]

(* Which dialogs the end of a call closes. *)
Closes(c, ok) ==
    CASE c.op = "status" -> TRUE
      [] page = "AllGuests" /\ c.op \in {"ban", "loyalty"} -> dialog.op = c.op
      [] c.op \in {"create", "edit", "cancel"} -> ok
      [] OTHER -> FALSE

-----------------------------------------------------------------------------
CallsOn(i) == {c \in calls : c.id = i \/ c.op = "readAll"}
Free == {s \in Slots : \A c \in calls : c.slot # s}
Call(s, control, i, arg, was, sure) ==
    [slot |-> s, op |-> control.op, marker |-> control.marker, effect |-> control.effect,
     id |-> i, arg |-> arg, was |-> was, sure |-> sure, live |-> TRUE,
     tab |-> None, done |-> FALSE, row |-> None, list |-> None, moved |-> {}]
Reading(s, kind, t) ==
    [Call(s, Control(kind, None, None, kind, FALSE), None, None, None, FALSE) EXCEPT !.tab = t]
Idle == [m \in Markers |-> None]

InitialRow(p) ==
    IF p \in OnBookings THEN {[st |-> s, rest |-> 0] : s \in {{"pending"}, {"confirmed"}}}
    ELSE {[st |-> IF p = "RoomsList" THEN {"active"} ELSE {}, rest |-> 0]}

(* Mount: the effects with no dependencies run; AllBookings reads the whole
   list once more, for its counts.                                       *)
Mounted(p, kept) ==
    /\ shown' = [i \in {} |-> None] /\ twice' = {} /\ loading' = TRUE
    /\ busy' = Idle /\ dialog' = None /\ tally' = None
    /\ tab' = IF p = "PendingApprovals" THEN "pending" ELSE "all"
    /\ \E s, r \in {x \in Slots : \A c \in kept : c.slot # x} :
         /\ s # r <=> p \in {"AllBookings", "PendingApprovals"}
         /\ calls' = kept \cup {Reading(s, "load", tab')}
              \cup (IF p \in {"AllBookings", "PendingApprovals"}
                    THEN {Reading(r, "count", "all")} ELSE {})
    /\ doubt' = {} /\ miscounted' = FALSE

Init ==
    /\ page = None /\ tab = "all"
    /\ server = [i \in Ids |-> None]
    /\ shown = [i \in {} |-> None] /\ twice = {} /\ loading = FALSE
    /\ busy = Idle /\ dialog = None /\ tally = None /\ calls = {}
    /\ others = 0 /\ visits = 0 /\ sends = 0 /\ doubt = {} /\ miscounted = FALSE

Enter(p) ==
    /\ page = None
    /\ page' = p /\ visits' = 1
    /\ \E rows \in [Rows -> InitialRow(p)] :
          server' = [i \in Ids |-> IF i \in Rows THEN rows[i] ELSE None]
    /\ Mounted(p, {})
    /\ UNCHANGED <<others, sends>>

(* Leave the page and come back: its calls go on, their answers are lost. *)
Return ==
    /\ page # None /\ visits + others < MaxEvents
    /\ visits' = visits + 1
    /\ Mounted(page, {[c EXCEPT !.live = FALSE] : c \in {d \in calls : d.effect \notin {"load", "count"}}})
    /\ UNCHANGED <<page, server, others, sends>>

(* AllBookings: another tab is another list. *)
ChooseTab(t) ==
    /\ page = "AllBookings" /\ t # tab /\ visits + others < MaxEvents
    /\ visits' = visits + 1
    /\ tab' = t /\ loading' = TRUE
    /\ \E s \in Free : calls' = calls \cup {Reading(s, "load", t)}
    /\ UNCHANGED <<page, server, shown, twice, busy, dialog, tally, others, sends, doubt, miscounted>>

-----------------------------------------------------------------------------
Disabled(control, i) ==
    /\ control.guard # None /\ busy[control.guard] # None
    /\ \/ control.guard = "saving"
       \/ busy[control.guard][1] = i /\ (page = "TodaySummary" => busy[control.guard][2] = control.op)

(* Two calls on one row overlap: why the busy marker did not prevent it. *)
Excused(control, i) ==
    \A c \in CallsOn(i) :
        \/ ~c.live \/ c.effect = "append"
        \/ control.guard # c.marker \/ c.marker = None
        \/ busy[c.marker] # <<c.id, c.op>>
        \/ page = "TodaySummary" /\ c.op # control.op

Send(control, i, arg, was, sure) ==
    /\ sends < MaxSends /\ sends' = sends + 1
    /\ \E s \in Free :
         calls' = calls \cup {Call(s, control, i, arg, was, sure /\ CallsOn(i) = {})}
    /\ busy' = IF control.marker = None THEN busy
               ELSE [busy EXCEPT ![control.marker] = <<i, control.op>>]
    /\ doubt' = IF i # None /\ CallsOn(i) # {} /\ Excused(control, i) THEN doubt \cup {i} ELSE doubt
    /\ miscounted' = (miscounted \/ (Counted /\ (i \in doubt \/ CallsOn(i) # {})))

(* A click (window.confirm blocks, so it is part of the click; the modals of
   AllGuests cover the page).                                            *)
Click(control, i) ==
    /\ ~control.asks /\ control.op # "readAll" /\ ~loading /\ i \in DOMAIN shown
    /\ page = "AllGuests" => dialog = None
    /\ Offered(page, control.op, shown[i]) /\ ~Disabled(control, i)
    /\ \E arg \in Arguments(page, control.op, shown[i]) :
         /\ control.op = "status" => arg.st # {"cancelled"}
         /\ Send(control, i, arg, shown[i], i \notin doubt)
    /\ UNCHANGED <<page, tab, server, shown, twice, loading, dialog, tally, others, visits>>

(* A dialog: the cancellation of AllBookings and MyBookings, the modals of
   AllGuests, the forms.  It keeps the row as it was when it opened.     *)
OpenDialog(control, i) ==
    /\ page # "AllGuests" \/ dialog = None
    /\ \/ /\ control.effect = "append" /\ i = None /\ server[NewRow] = None
          /\ dialog' = [op |-> control.op, id |-> None, was |-> None, sent |-> FALSE]
       \/ /\ control.effect # "append" /\ ~loading /\ i \in DOMAIN shown
          /\ control.asks \/ control.op = "status"
          /\ Offered(page, control.op, shown[i])
          /\ control.op \in {"loyalty", "edit"} \/ ~Disabled(control, i)
          /\ shown[i].st # {"cancelled"} \/ control.op # "status"
          /\ dialog' = [op |-> control.op, id |-> i, was |-> shown[i], sent |-> FALSE]
    /\ UNCHANGED <<page, tab, server, shown, twice, loading, busy, tally, calls, others, visits, sends, doubt, miscounted>>

Dismiss ==
    /\ dialog # None
    /\ dialog' = None
    /\ UNCHANGED <<page, tab, server, shown, twice, loading, busy, tally, calls, others, visits, sends, doubt, miscounted>>

Submit(control) ==
    /\ dialog # None /\ dialog.op = control.op /\ ~dialog.sent
    /\ dialog.id = None => server[NewRow] = None /\ CallsOn(NewRow) = {}   \* bound
    /\ ~loading \/ page \notin {"AllBookings", "PendingApprovals", "MyBookings", "StaffAccounts"}
    /\ dialog.id # None => dialog.id \in DOMAIN shown \/ page \in {"AllGuests", "RoomTypes"}
    /\ page = "AllGuests" \/ ~Disabled(control, dialog.id)
    /\ \E arg \in IF control.op = "status" THEN {[dialog.was EXCEPT !.st = {"cancelled"}]}
                  ELSE IF dialog.id = None THEN {None}
                  ELSE Arguments(page, control.op, dialog.was) :
         Send(control, dialog.id, arg,
              IF control.op = "status" THEN shown[dialog.id] ELSE dialog.was,
              /\ dialog.id \notin doubt
              /\ dialog.id # None => dialog.id \in DOMAIN shown /\ shown[dialog.id] = dialog.was)
    /\ dialog' = IF page = "AllGuests" THEN [dialog EXCEPT !.sent = TRUE] ELSE dialog
    /\ UNCHANGED <<page, tab, server, shown, twice, loading, tally, others, visits>>

(* Notifications: all at once. *)
ReadAll(control) ==
    /\ control.op = "readAll" /\ ~loading
    /\ \E i \in DOMAIN shown : "read" \notin shown[i].st
    /\ sends < MaxSends /\ sends' = sends + 1
    /\ \E s \in Free : calls' = calls \cup {Call(s, control, None, None, None, FALSE)}
    /\ UNCHANGED <<page, tab, server, shown, twice, loading, busy, dialog, tally, others, visits, doubt, miscounted>>

-----------------------------------------------------------------------------
(* Rows that change at the server after a list was taken. *)
Moved(cs, i) == {IF c.effect \in {"load", "count"} /\ c.done
                 THEN [c EXCEPT !.moved = @ \cup {i}] ELSE c : c \in cs}

PendingIn(rows) ==
    Cardinality({i \in DOMAIN rows : rows[i] # None /\ rows[i].st = {"pending"}})

(* The server answers a list. *)
ServeList(c) ==
    /\ c.effect \in {"load", "count"} /\ ~c.done
    /\ calls' = (calls \ {c}) \cup
         {[c EXCEPT !.done = TRUE,
                    !.list = [i \in {j \in Ids : Listed(page, c.tab, server[j])} |-> server[i]]]}
    /\ UNCHANGED <<page, tab, server, shown, twice, loading, busy, dialog, tally, others, visits, sends, doubt, miscounted>>

(* The server carries out a call on one row, on all, or makes a new one. *)
Serve(c) ==
    /\ c.effect \in {"row", "assume", "drop"} /\ ~c.done
    /\ LET r == Served(c.op, server[c.id], c.arg)
           d == [c EXCEPT !.done = TRUE, !.row = r]
       IN  /\ server' = IF r = Refused THEN server ELSE [server EXCEPT ![c.id] = r]
           /\ calls' = Moved((calls \ {c}) \cup {d}, c.id)
           /\ doubt' = IF c.live THEN doubt ELSE doubt \cup {c.id}
           /\ miscounted' = (miscounted \/ (Counted /\ ~c.live))
    /\ UNCHANGED <<page, tab, shown, twice, loading, busy, dialog, tally, others, visits, sends>>
ServeNew(c) ==
    /\ c.effect = "append" /\ ~c.done
    /\ server[NewRow] = None /\ CallsOn(NewRow) = {}   \* bound
    /\ LET row == [st |-> {}, rest |-> 0]
           d == [c EXCEPT !.id = NewRow, !.done = TRUE, !.row = row]
       IN  /\ server' = [server EXCEPT ![NewRow] = row]
           /\ calls' = Moved((calls \ {c}) \cup {d}, NewRow)
    /\ doubt' = IF c.live THEN doubt ELSE doubt \cup {NewRow}
    /\ UNCHANGED <<page, tab, shown, twice, loading, busy, dialog, tally, others, visits, sends, miscounted>>
ServeAll(c) ==
    /\ c.effect = "all" /\ ~c.done
    /\ server' = [i \in Ids |-> IF server[i] = None THEN None ELSE Served("read", server[i], None)]
    /\ calls' = {IF d.effect = "load" /\ d.done THEN [d EXCEPT !.moved = Ids] ELSE d
                 : d \in (calls \ {c}) \cup {[c EXCEPT !.done = TRUE]}}
    /\ doubt' = IF c.live THEN doubt ELSE Ids
    /\ UNCHANGED <<page, tab, shown, twice, loading, busy, dialog, tally, others, visits, sends, miscounted>>

(* Somebody else changes a row or deletes it. *)
Elsewhere(i) ==
    /\ page # None /\ visits + others < MaxEvents /\ server[i] # None
    /\ others' = others + 1
    /\ \E row \in (IF page \in OnBookings THEN {[server[i] EXCEPT !.st = s] : s \in AStatus}
                   ELSE {[server[i] EXCEPT !.rest = @ + 1], None}) :
         row # server[i] /\ server' = [server EXCEPT ![i] = row]
    /\ calls' = Moved(calls, i)
    /\ doubt' = doubt \cup {i} /\ miscounted' = Counted
    /\ UNCHANGED <<page, tab, shown, twice, loading, busy, dialog, tally, visits, sends>>

-----------------------------------------------------------------------------
(* The list, or a failure to get it.  No page asks whether it is still the
   list its tab needs.                                                   *)
ListArrives(c) ==
    /\ c.effect = "load" /\ c.done
    /\ calls' = calls \ {c}
    /\ shown' = c.list /\ twice' = {} /\ loading' = FALSE
    /\ doubt' = c.moved \cup {d.id : d \in calls \ {c}} \cup (IF c.tab # tab THEN Ids ELSE {})
    /\ UNCHANGED <<page, tab, server, busy, dialog, tally, others, visits, sends, miscounted>>
CountArrives(c) ==
    /\ c.effect = "count" /\ c.done
    /\ calls' = calls \ {c}
    /\ tally' = PendingIn(c.list)
    /\ miscounted' = (c.moved # {} \/ \E d \in calls : d.effect = "assume")
    /\ UNCHANGED <<page, tab, server, shown, twice, loading, busy, dialog, others, visits, sends, doubt>>
ListFails(c) ==
    /\ c.effect \in {"load", "count"}
    /\ calls' = calls \ {c}
    /\ IF c.effect = "count" THEN UNCHANGED <<shown, twice, loading, doubt>>
       ELSE /\ shown' = IF Counted THEN [i \in {} |-> None] ELSE shown
            /\ twice' = {} /\ loading' = FALSE /\ doubt' = Ids
    /\ UNCHANGED <<page, tab, server, busy, dialog, tally, others, visits, sends, miscounted>>

(* AllGuests and StaffAccounts: the button under a failed load. *)
Retry ==
    /\ page \in {"AllGuests", "StaffAccounts"}
    /\ ~loading /\ doubt = Ids /\ DOMAIN shown = {}
    /\ loading' = TRUE
    /\ \E s \in Free : calls' = calls \cup {Reading(s, "load", tab)}
    /\ UNCHANGED <<page, tab, server, shown, twice, busy, dialog, tally, others, visits, sends, doubt, miscounted>>

PatchedByDrops(c) ==    \* Mistake for Patched: the row the server returned is not used
    IF c.effect = "drop" THEN [i \in DOMAIN shown \ {c.id} |-> shown[i]] ELSE shown
PatchedInPlace(c) ==    \* Mistake for Patched: a deleted row stays in the list
    IF c.effect \in {"row", "assume"} /\ c.id \in DOMAIN shown
    THEN [shown EXCEPT ![c.id] = IF c.effect = "row" THEN c.row ELSE Assumed(c.op, @, c.arg)]
    ELSE shown

(* setRows with what the answer is good for. *)
Patched(c) ==
    CASE c.effect = "row" /\ c.id \in DOMAIN shown -> [shown EXCEPT ![c.id] = c.row]
      [] c.effect = "assume" /\ c.id \in DOMAIN shown ->
            [shown EXCEPT ![c.id] = Assumed(c.op, @, c.arg)]
      [] c.effect = "drop" -> [i \in DOMAIN shown \ {c.id} |-> shown[i]]
      [] c.effect = "append" ->
            [i \in DOMAIN shown \cup {c.id} |-> IF i = c.id THEN c.row ELSE shown[i]]
      [] c.effect = "all" -> [i \in DOMAIN shown |-> [shown[i] EXCEPT !.st = {"read"}]]
      [] OTHER -> shown

OneMore(n) == IF n = None THEN 1 ELSE n + 1     \* (updated[status] || 0) + 1

RecountUp(c) ==    \* Mistake for Recount: the old status keeps its count
    IF Counted /\ c.op = "status" /\ c.arg.st = {"pending"} THEN OneMore(tally) ELSE tally

(* AllBookings moves the booking from one count to the other; the old status
   is the one the list showed when the control was used.  A count that has
   not been read begins at none.                                         *)
Recount(c) ==
    IF ~Counted \/ c.op # "status" THEN tally
    ELSE LET less == IF c.was.st = {"pending"} /\ tally \notin {None, 0} THEN tally - 1 ELSE tally
         IN IF c.arg.st = {"pending"} THEN OneMore(less) ELSE less

Freed(c) == IF c.marker = None THEN busy ELSE [busy EXCEPT ![c.marker] = None]

Succeed(c) ==
    /\ c.effect \notin {"load", "count"} /\ c.done /\ c.row # Refused
    /\ calls' = calls \ {c}
    /\ IF ~c.live THEN UNCHANGED <<shown, twice, busy, dialog, tally>>
       ELSE /\ shown' = Patched(c)
            /\ twice' = IF c.effect = "append" /\ c.id \in DOMAIN shown
                        THEN twice \cup {c.id} ELSE twice \cap DOMAIN shown'
            /\ busy' = Freed(c)
            /\ dialog' = IF dialog # None /\ Closes(c, TRUE) THEN None ELSE dialog
            /\ tally' = Recount(c)
    /\ miscounted' = (miscounted \/ (tally = None /\ tally' # None))
    /\ UNCHANGED <<page, tab, server, loading, others, visits, sends, doubt>>

(* A refusal, an error or a timeout: the list stays as it is, also when the
   server has done what it was asked.                                    *)
Fail(c) ==
    /\ c.effect \notin {"load", "count"}
    /\ calls' = calls \ {c}
    /\ IF ~c.live THEN UNCHANGED <<busy, dialog>>
       ELSE /\ busy' = Freed(c)
            /\ dialog' = IF dialog # None /\ Closes(c, FALSE) THEN None ELSE dialog
    /\ LET done == c.done /\ c.row # Refused
       IN  /\ doubt' = IF done THEN doubt \cup (IF c.effect = "all" THEN Ids ELSE {c.id}) ELSE doubt
           /\ miscounted' = (miscounted \/ (Counted /\ done))
    /\ UNCHANGED <<page, tab, server, shown, twice, loading, tally, others, visits, sends>>

Next ==
    \/ \E p \in Pages : Enter(p)
    \/ Return \/ Retry \/ Dismiss
    \/ \E t \in {"all", "pending"} : ChooseTab(t)
    \/ \E i \in Ids : Elsewhere(i)
    \/ page # None /\ \E k \in Controls(page) :
         \/ Submit(k) \/ ReadAll(k) \/ OpenDialog(k, None)
         \/ \E i \in Ids : Click(k, i) \/ OpenDialog(k, i)
    \/ \E c \in calls :
         \/ ServeList(c) \/ Serve(c) \/ ServeNew(c) \/ ServeAll(c)
         \/ ListArrives(c) \/ CountArrives(c) \/ ListFails(c) \/ Succeed(c) \/ Fail(c)

Spec == Init /\ [][Next]_vars

-----------------------------------------------------------------------------
(* A row the list shows is the server's, a row the server has for this list
   is shown, and none is shown twice, except where a call on it is still in
   flight and where doubt names a reason: somebody else changed it; a call
   failed after the server had done it; a list was taken before a change and
   arrived after it, or is another tab's; two calls on one row overlapped
   because another row had taken over the single busy marker, or because the
   control is disabled by no marker.  Two pages are wrong even then, and the
   property says how: TodaySummary shows a checked-in booking as confirmed
   (TodaySummary.jsx:64, the server has made it completed), RoomsList drops
   a room that was only deactivated (RoomsList.jsx:31).                  *)
RowsExplained ==
    page # None /\ ~loading =>
        \A i \in Ids \ doubt : CallsOn(i) = {} =>
            /\ i \in DOMAIN shown =>
                  \/ shown[i] = server[i]
                  \/ /\ page = "TodaySummary" /\ shown[i].st = {"confirmed"}
                     /\ server[i] # None /\ server[i].st = {"completed"}
            /\ Listed(page, tab, server[i]) =>
                  i \in DOMAIN shown \/ (page = "RoomsList" /\ "active" \notin server[i].st)
            /\ i \notin twice

(* The count on the tab "pending" is the number of pending bookings, once no
   status change is in flight, unless somebody else changed one, a change
   failed after it was made or overlapped another of the same booking, the
   counting call overlapped one, or there was no count yet, because that
   call had not been answered or had failed, and a change made one from
   nothing (AllBookings.jsx:71-83).                                      *)
TallyExplained ==
    tally # None /\ ~miscounted /\ (\A c \in calls : c.effect # "assume") =>
        tally = PendingIn(server)

(* What the server makes of a click is what the click meant on the row as
   the page showed it: a VIP toggle does not take away what it was to give,
   a form or a whole-row update does not put back fields somebody changed,
   and the desks' "check out" on a confirmed booking is refused.  That is so
   unless the row was in doubt, or had another call in flight, when the click
   was made or served, or was one TodaySummary shows wrongly.             *)
IntentServed ==
    [][\A c \in calls, d \in calls' :
         /\ c.slot = d.slot /\ c.effect \in {"row", "assume", "drop"}
         /\ ~c.done /\ d.done /\ c.live
         /\ c.sure /\ c.id \notin doubt
         => \/ d.row = Served(c.op, c.was, c.arg)
            \/ page = "TodaySummary" /\ c.op = "checkin" /\ server[c.id].st = {"completed"}]_vars
=============================================================================
