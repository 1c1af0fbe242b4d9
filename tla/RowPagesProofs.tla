--------------------------- MODULE RowPagesProofs ---------------------------
(***************************************************************************)
(* Proofs about RowPages, for any of its pages, rows, statuses and calls.  *)
(*                                                                         *)
(* A row that nothing speaks against (it is not in doubt) is followed from *)
(* the reading of the list through each call on it: what the list shows is *)
(* the server's row until the call is carried out, and from then on it is  *)
(* what the answer will make of the list that is the server's row.  From   *)
(* this follow what a click does at the server, and what AllBookings       *)
(* counts.                                                                 *)
(***************************************************************************)
EXTENDS RowPages, FiniteSetTheorems, TLAPS

Desks == {"CheckInOut", "StaffCheckInOut"}
OnRow == {"row", "assume", "drop"}
Reads == {"load", "count"}
WithRow == {"status", "ban", "role", "toggle", "edit"}

(* Which calls a page makes, and what their answers do to the list. *)
Kind(p, op, effect) ==
    \/ effect = "all" /\ op = "readAll" /\ p = "Notifications"
    \/ effect = "row" /\ op = "read" /\ p = "Notifications"
    \/ /\ p # "Notifications"
       /\ \/ effect = "append" /\ op = "create"
          \/ effect = "drop" /\ \/ op = "delete"
                                \/ op = "retire" /\ p = "RoomsList"
                                \/ op \in {"checkin", "checkout"} /\ p \in Desks
          \/ effect = "assume" /\ \/ op = "status" /\ p \in {"AllBookings", "PendingApprovals"}
                                  \/ op \in {"confirm", "checkin"} /\ p = "TodaySummary"
                                  \/ op = "cancel" /\ p = "MyBookings"
          \/ effect = "row" /\ op \in {"cancel", "vip", "ban", "loyalty", "role", "edit", "toggle"}

(* A list of rows, by row number. *)
IsList(f) ==
    /\ DOMAIN f \subseteq Ids /\ f = [i \in DOMAIN f |-> f[i]]
    /\ \A i \in DOMAIN f : f[i] \in Row

StateTyped ==
    /\ page \in AllPages \cup {None}
    /\ server = [i \in Ids |-> server[i]]
    /\ \A i \in Ids : server[i] = None \/ server[i] \in Row
    /\ IsList(shown) /\ twice \subseteq Ids /\ loading \in BOOLEAN
    /\ busy = [m \in Markers |-> busy[m]]
    /\ page = None => calls = {} /\ dialog = None
    /\ page \notin {"AllBookings", "PendingApprovals"} => tab = "all"

DialogTyped ==
    dialog # None =>
        /\ dialog = [op |-> dialog.op, id |-> dialog.id, was |-> dialog.was, sent |-> dialog.sent]
        /\ dialog.op # "readAll" /\ (dialog.op = "create" <=> dialog.id = None)
        /\ dialog.id # None => dialog.id \in Ids /\ dialog.was \in Row
        /\ page = "AllGuests" => dialog.op \in {"ban", "loyalty"}

(* A call is a record of Call, for a control of the page or for a list. *)
Shaped(c) ==
    c = [slot |-> c.slot, op |-> c.op, marker |-> c.marker, effect |-> c.effect,
         id |-> c.id, arg |-> c.arg, was |-> c.was, sure |-> c.sure, live |-> c.live,
         tab |-> c.tab, done |-> c.done, row |-> c.row, list |-> c.list, moved |-> c.moved]

CallGood(p, c) ==
    /\ Shaped(c) /\ c.marker \in Markers \cup {None}
    /\ c.effect \in Reads => c.op = c.effect /\ c.id = None
    /\ c.effect \notin Reads => Kind(p, c.op, c.effect)
    /\ c.effect \in OnRow => c.id \in Ids
    /\ c.effect = "append" => c.id = IF c.done THEN NewRow ELSE None
    /\ c.effect = "all" => c.id = None /\ c.row = None
    /\ c.effect \in {"row", "append"} /\ c.done => c.row = Refused \/ c.row \in Row
    /\ c.op \in WithRow => c.arg \in Row

TypeInv == StateTyped /\ DialogTyped /\ \A c \in calls : CallGood(page, c)

-----------------------------------------------------------------------------
(* A dialog of the modal page was opened when its row's marker was free. *)
DialogGood ==
    dialog # None /\ page = "AllGuests" /\ dialog.op = "ban" /\ ~dialog.sent =>
        busy["acting"] = None \/ busy["acting"][1] # dialog.id

(* A list on its way has every row that did not move in between. *)
ListGood(c) ==
    c.effect = "load" /\ c.done =>
        /\ IsList(c.list)
        /\ \A i \in Ids \ c.moved :
              /\ i \in DOMAIN c.list <=> Listed(page, c.tab, server[i])
              /\ i \in DOMAIN c.list => c.list[i] = server[i]

(* After "read all" every row is read. *)
AllRead(c) ==
    c.op = "readAll" /\ c.done => \A i \in Ids : server[i] # None => server[i].st = {"read"}

ListsGood == \A c \in calls : ListGood(c) /\ AllRead(c)

-----------------------------------------------------------------------------
(* A list that has the row or not, and as what, agrees with the server. *)
Agree(i, present, row) ==
    /\ present => \/ row = server[i]
                  \/ /\ page = "TodaySummary" /\ row.st = {"confirmed"}
                     /\ server[i] = [row EXCEPT !.st = {"completed"}]
    /\ Listed(page, tab, server[i]) =>
          present \/ (page = "RoomsList" /\ "active" \notin server[i].st)

Carried(c) == c.live /\ c.done /\ c.row # Refused

(* What the answer of a call will make of its row in the list. *)
Present(c) ==
    c.effect = "append" \/ (c.effect # "drop" /\ c.id \in DOMAIN shown)
RowAfter(c) ==
    IF c.effect = "assume" THEN Assumed(c.op, shown[c.id], c.arg) ELSE c.row

SingleGood(i) ==
    /\ i \notin twice
    /\ \A c \in CallsOn(i) :
          /\ c.live /\ (\A d \in CallsOn(i) : c = d)
          /\ c.effect \in OnRow => i \in DOMAIN shown \/ page \in {"AllGuests", "RoomTypes"}
          /\ Carried(c) => Agree(i, Present(c), RowAfter(c))
          /\ Carried(c) /\ c.effect = "append" => i \notin DOMAIN shown
    /\ (\A c \in CallsOn(i) : ~Carried(c)) => Agree(i, i \in DOMAIN shown, shown[i])

(* Notifications have calls that overlap, all of which mark a row as read. *)
NoticeGood(i) ==
    /\ i \notin twice
    /\ i \in DOMAIN shown <=> server[i] # None
    /\ i \in DOMAIN shown => shown[i].rest = server[i].rest
    /\ \A c \in CallsOn(i) : Carried(c) =>
          /\ i \in DOMAIN shown => server[i].st = {"read"}
          /\ c.op = "read" => i \in DOMAIN shown /\ c.row = server[i]
    /\ i \in DOMAIN shown /\ (\A c \in CallsOn(i) : ~Carried(c)) => shown[i].st = server[i].st

RowGood(i) ==
    /\ page = "Notifications" => NoticeGood(i)
    /\ page # "Notifications" => SingleGood(i)

RowsGood == page # None /\ ~loading => \A i \in Ids \ doubt : RowGood(i)

RowsInv == TypeInv /\ DialogGood /\ ListsGood /\ RowsGood

-----------------------------------------------------------------------------
(* The tables of the pages. *)

(* What the controls of a page are. *)
LEMMA ControlKind ==
    ASSUME NEW p \in AllPages, NEW k \in Controls(p)
    PROVE  /\ Kind(p, k.op, k.effect) /\ k.marker \in Markers \cup {None}
           /\ k.op = "readAll" => ~k.asks
           /\ p = "AllGuests" /\ k.op = "ban" => k.guard = "acting"
           /\ p = "AllGuests" /\ k.op = "loyalty" => k.guard = None
           /\ p = "AllGuests" /\ k.asks => k.op \in {"ban", "loyalty"}
           /\ k.effect = "append" => k.asks
<1> USE DEF Kind, Markers, Desks, Control
<1>1. CASE p \in {"AllBookings", "PendingApprovals", "TodaySummary", "CheckInOut", "StaffCheckInOut"}
  BY <1>1, RowPagesAssumption DEF Controls, AllBookingsControls, TodayControls, DeskControls, StaffDeskControls
<1>2. CASE p \in {"MyBookings", "BookingDetails", "AllGuests"}
  BY <1>2, RowPagesAssumption DEF Controls, MyBookingsControls, BookingDetailsControls, GuestControls
<1>3. CASE p \in {"StaffAccounts", "RoomsList", "RoomTypes"}
  BY <1>3 DEF Controls, StaffControls, RoomControls, RoomTypeControls
<1>4. CASE p \in {"DynamicPricing", "BlackoutDates", "Reviews", "Notifications"}
  BY <1>4 DEF Controls, PricingControls, BlackoutControls, ReviewControls, NotificationControls
<1> QED BY <1>1, <1>2, <1>3, <1>4 DEF AllPages

-----------------------------------------------------------------------------
(* What a call carries, what the server makes of it and what the page       *)
(* assumes are rows.                                                        *)

LEMMA FlipTyped ==
    ASSUME NEW s \in SUBSET Flags, NEW f \in Flags, NEW t \in SUBSET Flags
    PROVE  Flip(s, f) \in SUBSET Flags /\ (s \ {f}) \cup (t \cap {f}) \in SUBSET Flags
BY DEF Flip, Flags

LEMMA ArgumentsTyped ==
    ASSUME NEW p, NEW op \in WithRow, NEW row \in Row, NEW arg \in Arguments(p, op, row)
    PROVE  arg \in Row
<1>1. PICK s \in SUBSET Flags, n \in Nat : row = [st |-> s, rest |-> n]
  BY DEF Row
<1>2. CASE op = "status"
  <2>1. PICK u \in AStatus : arg = [row EXCEPT !.st = u]
    BY <1>2 DEF Arguments
  <2>2. u \in SUBSET Flags
    BY RowPagesAssumption DEF AStatus, Flags
  <2> QED BY <1>1, <2>1, <2>2 DEF Row
<1>3. CASE op # "status"
  <2>1. PICK f \in Flags : arg = [row EXCEPT !.st = Flip(row.st, f)]
    BY <1>3 DEF Arguments, WithRow, Flags
  <2>2. Flip(s, f) \in SUBSET Flags
    BY FlipTyped
  <2> QED BY <1>1, <2>1, <2>2 DEF Row
<1> QED BY <1>2, <1>3

LEMMA ServedTyped ==
    ASSUME NEW p, NEW op, NEW effect \in OnRow, Kind(p, op, effect),
           NEW row \in Row \cup {None}, NEW arg, op \in WithRow => arg \in Row
    PROVE  /\ Served(op, row, arg) \in Row \cup {None, Refused}
           /\ effect # "drop" => Served(op, row, arg) \in Row \cup {Refused}
           /\ row = None => Served(op, row, arg) = Refused
<1>1. CASE row = None
  BY <1>1 DEF Served
<1>2. CASE row # None /\ op \in WithRow
  <2>1. PICK s \in SUBSET Flags, n \in Nat : row = [st |-> s, rest |-> n]
    BY <1>2 DEF Row
  <2>2. PICK t \in SUBSET Flags, m \in Nat : arg = [st |-> t, rest |-> m]
    BY <1>2 DEF Row
  <2>3. Only(s, arg, "banned") \in SUBSET Flags /\ Only(s, arg, "admin") \in SUBSET Flags
        /\ Only(s, arg, "edited") \in SUBSET Flags
    BY <2>2 DEF Only, Flags
  <2> QED BY <1>2, <2>1, <2>2, <2>3 DEF Served, Row, WithRow
<1>3. CASE row # None /\ op \notin WithRow
  <2>1. PICK s \in SUBSET Flags, n \in Nat : row = [st |-> s, rest |-> n]
    BY <1>3 DEF Row
  <2>2. Flip(s, "vip") \in SUBSET Flags /\ s \ {"active"} \in SUBSET Flags
    BY FlipTyped DEF Flags
  <2>3. \/ op \in {"confirm", "cancel", "checkin", "checkout", "vip", "loyalty", "retire", "read"}
        \/ op = "delete" /\ effect = "drop"
    BY <1>3 DEF Kind, OnRow, WithRow
  <2> QED BY <1>3, <2>1, <2>2, <2>3 DEF Served, Row, Flags
<1> QED BY <1>1, <1>2, <1>3

LEMMA AssumedTyped ==
    ASSUME NEW op, NEW row \in Row, NEW arg, op \in WithRow => arg \in Row
    PROVE  Assumed(op, row, arg) \in Row
<1>1. PICK s \in SUBSET Flags, n \in Nat : row = [st |-> s, rest |-> n]
  BY DEF Row
<1>2. CASE op = "status"
  <2>1. arg.st \in SUBSET Flags
    BY <1>2 DEF WithRow, Row
  <2> QED BY <1>1, <1>2, <2>1 DEF Assumed, Row
<1>3. CASE op # "status"
  BY <1>1, <1>3 DEF Assumed, Row, Flags
<1> QED BY <1>2, <1>3

-----------------------------------------------------------------------------
(* The updates of a call: what they change and what they leave. *)

LEMMA DeadCall ==
    ASSUME NEW c, Shaped(c), NEW d, d = [c EXCEPT !.live = FALSE]
    PROVE  /\ Shaped(d) /\ d.live = FALSE
           /\ d.slot = c.slot /\ d.op = c.op /\ d.marker = c.marker
           /\ d.effect = c.effect /\ d.id = c.id /\ d.arg = c.arg
           /\ d.was = c.was /\ d.sure = c.sure /\ d.tab = c.tab
           /\ d.done = c.done /\ d.row = c.row /\ d.list = c.list
           /\ d.moved = c.moved
<1> DEFINE e == [slot |-> c.slot, op |-> c.op, marker |-> c.marker,
                 effect |-> c.effect, id |-> c.id, arg |-> c.arg,
                 was |-> c.was, sure |-> c.sure, live |-> FALSE,
                 tab |-> c.tab, done |-> c.done, row |-> c.row,
                 list |-> c.list, moved |-> c.moved]
<1>1. d = e
  BY DEF Shaped
<1>2. Shaped(e)
  BY DEF Shaped
<1> QED BY <1>1, <1>2

LEMMA DoneCall ==
    ASSUME NEW c, Shaped(c), NEW d, d = [c EXCEPT !.done = TRUE]
    PROVE  /\ Shaped(d) /\ d.done = TRUE
           /\ d.slot = c.slot /\ d.op = c.op /\ d.marker = c.marker
           /\ d.effect = c.effect /\ d.id = c.id /\ d.arg = c.arg
           /\ d.was = c.was /\ d.sure = c.sure /\ d.live = c.live
           /\ d.tab = c.tab /\ d.row = c.row /\ d.list = c.list
           /\ d.moved = c.moved
<1> DEFINE e == [slot |-> c.slot, op |-> c.op, marker |-> c.marker,
                 effect |-> c.effect, id |-> c.id, arg |-> c.arg,
                 was |-> c.was, sure |-> c.sure, live |-> c.live,
                 tab |-> c.tab, done |-> TRUE, row |-> c.row, list |-> c.list,
                 moved |-> c.moved]
<1>1. d = e
  BY DEF Shaped
<1>2. Shaped(e)
  BY DEF Shaped
<1> QED BY <1>1, <1>2

LEMMA MovedCall ==
    ASSUME NEW c, Shaped(c), NEW m, NEW d, d = [c EXCEPT !.moved = m]
    PROVE  /\ Shaped(d) /\ d.moved = m
           /\ d.slot = c.slot /\ d.op = c.op /\ d.marker = c.marker
           /\ d.effect = c.effect /\ d.id = c.id /\ d.arg = c.arg
           /\ d.was = c.was /\ d.sure = c.sure /\ d.live = c.live
           /\ d.tab = c.tab /\ d.done = c.done /\ d.row = c.row
           /\ d.list = c.list
<1> DEFINE e == [slot |-> c.slot, op |-> c.op, marker |-> c.marker,
                 effect |-> c.effect, id |-> c.id, arg |-> c.arg,
                 was |-> c.was, sure |-> c.sure, live |-> c.live,
                 tab |-> c.tab, done |-> c.done, row |-> c.row,
                 list |-> c.list, moved |-> m]
<1>1. d = e
  BY DEF Shaped
<1>2. Shaped(e)
  BY DEF Shaped
<1> QED BY <1>1, <1>2

-----------------------------------------------------------------------------
(* New calls, and calls the server has answered, are good calls. *)

LEMMA ReadingGood ==
    ASSUME NEW p, NEW s, NEW kind \in Reads, NEW t, NEW c, c = Reading(s, kind, t)
    PROVE  /\ CallGood(p, c) /\ c.effect = kind /\ c.op = kind /\ c.id = None
           /\ ~c.done /\ c.live /\ c.tab = t /\ c.slot = s
<1> DEFINE e == [slot |-> s, op |-> kind, marker |-> None, effect |-> kind,
                 id |-> None, arg |-> None, was |-> None, sure |-> FALSE, live |-> TRUE,
                 tab |-> t, done |-> FALSE, row |-> None, list |-> None, moved |-> {}]
<1>1. c = e
  BY DEF Reading, Call, Control
<1>2. e.effect = kind /\ e.op = kind /\ e.id = None /\ e.marker = None /\ e.done = FALSE
      /\ Shaped(e) /\ e.tab = t /\ e.live = TRUE /\ e.slot = s
  BY DEF Shaped
<1> HIDE DEF e
<1> QED BY <1>1, <1>2 DEF CallGood, Reads, OnRow, WithRow

LEMMA SentGood ==
    ASSUME NEW p \in AllPages, NEW k \in Controls(p), NEW s, NEW i, NEW arg, NEW was, NEW sure,
           k.effect \in OnRow => i \in Ids, k.effect \in {"append", "all"} => i = None,
           k.op \in WithRow => arg \in Row,
           NEW c, c = Call(s, k, i, arg, was, sure)
    PROVE  /\ CallGood(p, c) /\ c.effect = k.effect /\ c.op = k.op /\ c.id = i
           /\ ~c.done /\ c.live /\ c.marker = k.marker
           /\ c.slot = s /\ c.was = was /\ (c.sure = sure)
<1> DEFINE e == [slot |-> s, op |-> k.op, marker |-> k.marker, effect |-> k.effect,
                 id |-> i, arg |-> arg, was |-> was, sure |-> sure, live |-> TRUE,
                 tab |-> None, done |-> FALSE, row |-> None, list |-> None, moved |-> {}]
<1>1. c = e
  BY DEF Call
<1>2. e.effect = k.effect /\ e.op = k.op /\ e.id = i /\ e.marker = k.marker /\ e.done = FALSE
      /\ Shaped(e) /\ e.row = None /\ e.live = TRUE /\ e.arg = arg
      /\ e.slot = s /\ e.was = was /\ (e.sure = sure)
  BY DEF Shaped
<1>3. Kind(p, k.op, k.effect) /\ k.marker \in Markers \cup {None}
  BY ControlKind
<1>4. k.effect \notin Reads
  BY <1>3 DEF Kind, Reads
<1> HIDE DEF e
<1> QED BY <1>1, <1>2, <1>3, <1>4 DEF CallGood

Follows(c, d, i) ==
    /\ d.op = c.op /\ d.effect = c.effect /\ d.id = c.id /\ d.done = c.done
    /\ d.list = c.list /\ d.tab = c.tab
    /\ IF c.effect \in Reads /\ c.done THEN d.moved = c.moved \cup {i} ELSE d = c

LEMMA MovedGood ==
    ASSUME NEW p, NEW cs, NEW i, NEW d \in Moved(cs, i), \A c \in cs : CallGood(p, c)
    PROVE  CallGood(p, d) /\ \E c \in cs : Follows(c, d, i)
<1>1. PICK c \in cs : d = IF c.effect \in Reads /\ c.done
                          THEN [c EXCEPT !.moved = c.moved \cup {i}] ELSE c
  BY DEF Moved, Reads
<1>2. CASE c.effect \in Reads /\ c.done
  <2>1. Shaped(c)
    BY DEF CallGood
  <2>2. d = [c EXCEPT !.moved = c.moved \cup {i}]
    BY <1>1, <1>2
  <2>3. /\ Shaped(d) /\ d.moved = c.moved \cup {i}
        /\ d.op = c.op /\ d.marker = c.marker /\ d.effect = c.effect /\ d.id = c.id
        /\ d.arg = c.arg /\ d.done = c.done /\ d.row = c.row /\ d.list = c.list /\ d.tab = c.tab
    BY <2>1, <2>2, MovedCall
  <2> QED BY <1>2, <2>3 DEF CallGood, Follows
<1>3. CASE ~(c.effect \in Reads /\ c.done)
  BY <1>1, <1>3 DEF Follows
<1> QED BY <1>2, <1>3

-----------------------------------------------------------------------------
(* Every step keeps the types. *)

LEMMA InitialTyped ==
    ASSUME NEW p, NEW row \in InitialRow(p)
    PROVE  row \in Row
<1>1. PICK s \in SUBSET Flags : row = [st |-> s, rest |-> 0]
  BY DEF InitialRow, Flags
<1> QED BY <1>1 DEF Row

LEMMA MountedTyped ==
    ASSUME NEW p \in AllPages, NEW kept, Mounted(p, kept), page' = p,
           \A c \in kept : CallGood(p, c),
           server' = [i \in Ids |-> server'[i]],
           \A i \in Ids : server'[i] = None \/ server'[i] \in Row
    PROVE  /\ TypeInv'
           /\ \A c \in calls' : c \in kept \/ (c.effect \in Reads /\ ~c.done)
<1>1. \A c \in calls' : CallGood(p, c) /\ (c \in kept \/ (c.effect \in Reads /\ ~c.done))
  <2>1. PICK s, r \in Slots :
           calls' = kept \cup {Reading(s, "load", tab')}
              \cup (IF p \in {"AllBookings", "PendingApprovals"}
                    THEN {Reading(r, "count", "all")} ELSE {})
    BY DEF Mounted
  <2>2. \A c \in calls' : c \in kept \/ c = Reading(s, "load", tab') \/ c = Reading(r, "count", "all")
    BY <2>1
  <2>3. "load" \in Reads /\ "count" \in Reads
    BY DEF Reads
  <2>4. TAKE c \in calls'
  <2>5. CASE c \in kept
    BY <2>5
  <2>6. CASE c = Reading(s, "load", tab')
    <3>1. CallGood(p, c) /\ c.effect = "load" /\ ~c.done
      BY <2>3, <2>6, ReadingGood
    <3> QED BY <2>3, <3>1
  <2>7. CASE c = Reading(r, "count", "all")
    <3>1. CallGood(p, c) /\ c.effect = "count" /\ ~c.done
      BY <2>3, <2>7, ReadingGood
    <3> QED BY <2>3, <3>1
  <2> QED BY <2>2, <2>5, <2>6, <2>7
<1>2. StateTyped'
  <2>1. p # None
    BY RowPagesAssumption
  <2>2. IsList(shown')
    BY DEF Mounted, IsList
  <2>3. /\ twice' = {} /\ loading' = TRUE /\ busy' = [m \in Markers |-> None]
        /\ tab' = IF p = "PendingApprovals" THEN "pending" ELSE "all"
    BY DEF Mounted, Idle
  <2> QED BY <2>1, <2>2, <2>3 DEF StateTyped, IsList
<1>3. DialogTyped'
  BY DEF DialogTyped, Mounted
<1> QED BY <1>1, <1>2, <1>3 DEF TypeInv

-----------------------------------------------------------------------------
(* What an answer makes of the list. *)

(* A call of a page is of one of five kinds. *)
LEMMA Effects ==
    ASSUME NEW p, NEW c, CallGood(p, c), c.effect \notin Reads
    PROVE  /\ c.effect \in OnRow \cup {"append", "all"}
           /\ c.effect # "all" /\ c.done => c.id \in Ids
           /\ c.effect \in OnRow => c.id \in Ids
           /\ c.effect = "all" <=> c.op = "readAll"
BY RowPagesAssumption DEF CallGood, Kind, OnRow, Ids

(* On the call's own row, and on every other. *)
LEMMA PatchedAt ==
    ASSUME IsList(shown), NEW p, NEW c, CallGood(p, c), c.effect \notin Reads, c.effect # "all",
           c.done, c.row # Refused
    PROVE  /\ IsList(Patched(c))
           /\ c.id \in DOMAIN Patched(c) <=> Present(c)
           /\ Present(c) => Patched(c)[c.id] = RowAfter(c)
           /\ \A i \in Ids \ {c.id} :
                 /\ i \in DOMAIN Patched(c) <=> i \in DOMAIN shown
                 /\ i \in DOMAIN shown => Patched(c)[i] = shown[i]
<1>1. c.id \in Ids /\ c.effect \in {"row", "assume", "drop", "append"}
  BY Effects DEF OnRow
<1>2. CASE c.effect \in {"row", "assume"} /\ c.id \in DOMAIN shown
  <2>1. Patched(c) = [shown EXCEPT ![c.id] = RowAfter(c)]
    BY <1>2 DEF Patched, RowAfter
  <2>2. RowAfter(c) \in Row
    <3>1. CASE c.effect = "row"
      BY <3>1 DEF RowAfter, CallGood
    <3>2. CASE c.effect = "assume"
      BY <3>2, <1>2, AssumedTyped DEF RowAfter, CallGood, IsList
    <3> QED BY <1>2, <3>1, <3>2
  <2>3. Present(c)
    BY <1>2 DEF Present
  <2> HIDE DEF IsList
  <2> QED BY <1>1, <1>2, <2>1, <2>2, <2>3 DEF IsList
<1>3. CASE c.effect \in {"row", "assume"} /\ c.id \notin DOMAIN shown
  <2>1. Patched(c) = shown
    BY <1>3 DEF Patched
  <2> QED BY <1>3, <2>1 DEF Present
<1>4. CASE c.effect = "drop"
  <2>1. Patched(c) = [i \in DOMAIN shown \ {c.id} |-> shown[i]]
    BY <1>4 DEF Patched
  <2> QED BY <1>4, <2>1 DEF Present, IsList
<1>5. CASE c.effect = "append"
  <2>1. Patched(c) = [i \in DOMAIN shown \cup {c.id} |-> IF i = c.id THEN c.row ELSE shown[i]]
    BY <1>5 DEF Patched
  <2>2. c.row \in Row
    BY <1>5 DEF CallGood
  <2>3. RowAfter(c) = c.row /\ Present(c)
    BY <1>5 DEF RowAfter, Present
  <2> QED BY <1>1, <1>5, <2>1, <2>2, <2>3 DEF IsList
<1> QED BY <1>1, <1>2, <1>3, <1>4, <1>5

LEMMA PatchedAll ==
    ASSUME IsList(shown), NEW c, c.effect = "all"
    PROVE  /\ IsList(Patched(c)) /\ DOMAIN Patched(c) = DOMAIN shown
           /\ \A i \in DOMAIN shown :
                 Patched(c)[i].rest = shown[i].rest /\ Patched(c)[i].st = {"read"}
<1>1. Patched(c) = [i \in DOMAIN shown |-> [shown[i] EXCEPT !.st = {"read"}]]
  BY DEF Patched
<1>2. \A i \in DOMAIN shown :
         /\ [shown[i] EXCEPT !.st = {"read"}] \in Row
         /\ [shown[i] EXCEPT !.st = {"read"}].rest = shown[i].rest
         /\ [shown[i] EXCEPT !.st = {"read"}].st = {"read"}
  BY DEF IsList, Row, Flags
<1> QED BY <1>1, <1>2 DEF IsList

-----------------------------------------------------------------------------
LEMMA SendMakes ==
    ASSUME TypeInv, page # None, NEW k \in Controls(page), NEW i, NEW arg, NEW was, NEW sure,
           Send(k, i, arg, was, sure),
           k.effect \in OnRow => i \in Ids, k.effect \in {"append", "all"} => i = None,
           k.op \in WithRow => arg \in Row
    PROVE  /\ busy' = [m \in Markers |-> busy'[m]]
           /\ \E c : /\ calls' = calls \cup {c} /\ CallGood(page, c)
                     /\ c.effect = k.effect /\ c.op = k.op /\ c.id = i /\ ~c.done /\ c.live
<1>1. page \in AllPages
  BY DEF TypeInv, StateTyped
<1>2. PICK s \in Free : calls' = calls \cup {Call(s, k, i, arg, was, sure /\ CallsOn(i) = {})}
  BY DEF Send
<1>3. PICK c : c = Call(s, k, i, arg, was, sure /\ CallsOn(i) = {})
  OBVIOUS
<1>4. /\ CallGood(page, c) /\ c.effect = k.effect /\ c.op = k.op /\ c.id = i /\ ~c.done /\ c.live
  BY <1>1, <1>3, SentGood
<1>5. busy' = [m \in Markers |-> busy'[m]]
  BY DEF Send, TypeInv, StateTyped
<1> QED BY <1>2, <1>3, <1>4, <1>5

(* A click sends a call about the row, with what the row shows. *)
LEMMA ClickMakes ==
    ASSUME TypeInv, page # None, NEW k \in Controls(page), NEW i \in Ids, Click(k, i)
    PROVE  /\ busy' = [m \in Markers |-> busy'[m]]
           /\ i \in DOMAIN shown /\ ~Disabled(k, i) /\ ~loading /\ k.effect \in OnRow
           /\ page = "AllGuests" => dialog = None
           /\ UNCHANGED <<page, tab, server, shown, twice, loading, dialog>>
           /\ \E c : /\ calls' = calls \cup {c} /\ CallGood(page, c)
                     /\ c.effect = k.effect /\ c.op = k.op /\ c.id = i /\ ~c.done /\ c.live
           /\ doubt' = IF CallsOn(i) # {} /\ Excused(k, i) THEN doubt \cup {i} ELSE doubt
<1>1. PICK arg \in Arguments(page, k.op, shown[i]) : Send(k, i, arg, shown[i], i \notin doubt)
  BY DEF Click
<1>2. /\ i \in DOMAIN shown /\ shown[i] \in Row /\ page \in AllPages
  BY DEF Click, TypeInv, StateTyped, IsList
<1>3. k.op \in WithRow => arg \in Row
  BY <1>1, <1>2, ArgumentsTyped
<1>4. k.effect \in OnRow
  <2>1. ~k.asks /\ k.op # "readAll" /\ Kind(page, k.op, k.effect)
    BY <1>2, ControlKind DEF Click
  <2>2. k.op # "create"
    BY <1>2, <2>1 DEF Controls, AllBookingsControls, TodayControls, DeskControls,
       StaffDeskControls, MyBookingsControls, BookingDetailsControls, GuestControls,
       StaffControls, RoomControls, RoomTypeControls, PricingControls, BlackoutControls,
       ReviewControls, NotificationControls, Control, AllPages
  <2> QED BY <2>1, <2>2 DEF Kind, OnRow
<1>5. i # None
  BY RowPagesAssumption DEF Ids
<1>6. /\ busy' = [m \in Markers |-> busy'[m]]
      /\ \E c : /\ calls' = calls \cup {c} /\ CallGood(page, c)
                /\ c.effect = k.effect /\ c.op = k.op /\ c.id = i /\ ~c.done /\ c.live
  <2>1. k.effect \notin {"append", "all"}
    BY <1>4 DEF OnRow
  <2> QED BY <1>1, <1>3, <1>4, <2>1, SendMakes
<1>7. doubt' = IF CallsOn(i) # {} /\ Excused(k, i) THEN doubt \cup {i} ELSE doubt
  BY <1>1, <1>5 DEF Send
<1> QED BY <1>2, <1>4, <1>6, <1>7 DEF Click

(* So does the confirmation of a dialog, with the row it was opened with; a *)
(* form may make a new one.                                                 *)
LEMMA SubmitMakes ==
    ASSUME TypeInv, page # None, NEW k \in Controls(page), Submit(k)
    PROVE  /\ busy' = [m \in Markers |-> busy'[m]]
           /\ dialog # None /\ dialog.op = k.op /\ ~dialog.sent
           /\ dialog' = IF page = "AllGuests" THEN [dialog EXCEPT !.sent = TRUE] ELSE dialog
           /\ page = "AllGuests" \/ ~Disabled(k, dialog.id)
           /\ dialog.id \in Ids => dialog.id \in DOMAIN shown \/ page \in {"AllGuests", "RoomTypes"}
           /\ UNCHANGED <<page, tab, server, shown, twice, loading>>
           /\ \E c : /\ calls' = calls \cup {c} /\ CallGood(page, c)
                     /\ c.effect = k.effect /\ c.op = k.op /\ c.id = dialog.id /\ ~c.done /\ c.live
           /\ doubt' = IF dialog.id # None /\ CallsOn(dialog.id) # {} /\ Excused(k, dialog.id)
                       THEN doubt \cup {dialog.id} ELSE doubt
           /\ k.op # "readAll"
<1>1. page \in AllPages /\ Kind(page, k.op, k.effect)
  BY ControlKind DEF TypeInv, StateTyped
<1>2. /\ dialog # None /\ dialog.op = k.op /\ dialog.op # "readAll"
      /\ dialog.op = "create" <=> dialog.id = None
      /\ dialog.id # None => dialog.id \in Ids /\ dialog.was \in Row
  BY DEF Submit, TypeInv, DialogTyped
<1>3. PICK arg, was, sure :
         /\ arg \in IF k.op = "status" THEN {[dialog.was EXCEPT !.st = {"cancelled"}]}
                    ELSE IF dialog.id = None THEN {None}
                    ELSE Arguments(page, k.op, dialog.was)
         /\ Send(k, dialog.id, arg, was, sure)
  BY DEF Submit
<1>4. k.op \in WithRow => arg \in Row
  <2>1. ASSUME k.op \in WithRow PROVE dialog.id # None /\ dialog.was \in Row
    BY <1>2, <2>1 DEF WithRow
  <2>2. CASE k.op = "status"
    BY <1>3, <2>1, <2>2 DEF WithRow, Row, Flags
  <2>3. CASE k.op # "status"
    BY <1>3, <2>1, <2>3, ArgumentsTyped
  <2> QED BY <2>2, <2>3
<1>5. /\ k.effect \in OnRow => dialog.id \in Ids
      /\ k.effect \in {"append", "all"} => dialog.id = None
  BY <1>1, <1>2 DEF Kind, OnRow
<1>6. /\ busy' = [m \in Markers |-> busy'[m]]
      /\ \E c : /\ calls' = calls \cup {c} /\ CallGood(page, c)
                /\ c.effect = k.effect /\ c.op = k.op /\ c.id = dialog.id /\ ~c.done /\ c.live
  BY <1>3, <1>4, <1>5, SendMakes
<1>7. doubt' = IF dialog.id # None /\ CallsOn(dialog.id) # {} /\ Excused(k, dialog.id)
               THEN doubt \cup {dialog.id} ELSE doubt
  BY <1>3 DEF Send
<1>8. /\ ~dialog.sent
      /\ dialog' = IF page = "AllGuests" THEN [dialog EXCEPT !.sent = TRUE] ELSE dialog
      /\ page = "AllGuests" \/ ~Disabled(k, dialog.id)
      /\ dialog.id # None => dialog.id \in DOMAIN shown \/ page \in {"AllGuests", "RoomTypes"}
      /\ UNCHANGED <<page, tab, server, shown, twice, loading>>
  BY DEF Submit
<1>9. dialog.id \in Ids => dialog.id # None
  BY RowPagesAssumption DEF Ids
<1> QED BY <1>2, <1>6, <1>7, <1>8, <1>9

-----------------------------------------------------------------------------
(* The answers of the server, as calls. *)

LEMMA ServeListMakes ==
    ASSUME NEW c, CallGood(page, c), ServeList(c)
    PROVE  \E d : /\ calls' = (calls \ {c}) \cup {d} /\ CallGood(page, d)
                  /\ d.effect = c.effect /\ d.tab = c.tab /\ d.op = c.op /\ d.id = None
                  /\ d.slot = c.slot
                  /\ d.list = [i \in {j \in Ids : Listed(page, c.tab, server[j])} |-> server[i]]
<1>1. PICK l : l = [i \in {j \in Ids : Listed(page, c.tab, server[j])} |-> server[i]]
  OBVIOUS
<1>2. PICK d : d = [c EXCEPT !.done = TRUE, !.list = l]
  OBVIOUS
<1>3. calls' = (calls \ {c}) \cup {d} /\ c.effect \in Reads
  BY <1>1, <1>2 DEF ServeList, Reads
<1>4. /\ Shaped(d) /\ d.op = c.op /\ d.marker = c.marker /\ d.effect = c.effect
      /\ d.id = c.id /\ d.arg = c.arg /\ d.tab = c.tab /\ d.list = l /\ d.slot = c.slot
  <2> DEFINE e == [slot |-> c.slot, op |-> c.op, marker |-> c.marker,
                   effect |-> c.effect, id |-> c.id, arg |-> c.arg,
                   was |-> c.was, sure |-> c.sure, live |-> c.live,
                   tab |-> c.tab, done |-> TRUE, row |-> c.row, list |-> l,
                   moved |-> c.moved]
  <2>1. Shaped(c)
    BY DEF CallGood
  <2>2. d = e
    BY <1>2, <2>1 DEF Shaped
  <2>3. Shaped(e)
    BY DEF Shaped
  <2> QED BY ONLY <2>2, <2>3
<1>5. CallGood(page, d)
  BY <1>3, <1>4 DEF CallGood, Reads, OnRow
<1> QED BY <1>1, <1>3, <1>4, <1>5 DEF CallGood

LEMMA ServeMakes ==
    ASSUME NEW c, CallGood(page, c), Serve(c), StateTyped
    PROVE  /\ c.effect \in OnRow /\ c.id \in Ids /\ ~c.done
           /\ server' = [i \in Ids |-> server'[i]]
           /\ \A i \in Ids : server'[i] = None \/ server'[i] \in Row
           /\ \A i \in Ids \ {c.id} : server'[i] = server[i]
           /\ doubt' = IF c.live THEN doubt ELSE doubt \cup {c.id}
           /\ UNCHANGED <<page, tab, shown, twice, loading, busy, dialog>>
           /\ \E d : /\ calls' = Moved((calls \ {c}) \cup {d}, c.id) /\ CallGood(page, d)
                     /\ d.done /\ (d.live = c.live) /\ d.effect = c.effect /\ d.op = c.op
                     /\ d.id = c.id /\ d.arg = c.arg /\ d.slot = c.slot /\ d.was = c.was
                     /\ d.row = Served(c.op, server[c.id], c.arg)
                     /\ d.row \in Row \cup {None, Refused}
                     /\ server[c.id] = None => d.row = Refused
                     /\ server'[c.id] = IF d.row = Refused THEN server[c.id] ELSE d.row
<1>1. PICK r : r = Served(c.op, server[c.id], c.arg)
  OBVIOUS
<1>2. PICK d : d = [c EXCEPT !.done = TRUE, !.row = r]
  OBVIOUS
<1>3. /\ c.effect \in OnRow /\ ~c.done
      /\ server' = IF r = Refused THEN server ELSE [server EXCEPT ![c.id] = r]
      /\ calls' = Moved((calls \ {c}) \cup {d}, c.id)
      /\ doubt' = IF c.live THEN doubt ELSE doubt \cup {c.id}
      /\ UNCHANGED <<page, tab, shown, twice, loading, busy, dialog>>
  BY <1>1, <1>2 DEF Serve, OnRow
<1>4. /\ Shaped(d) /\ d.op = c.op /\ d.marker = c.marker /\ d.effect = c.effect
      /\ d.id = c.id /\ d.arg = c.arg /\ d.tab = c.tab /\ d.row = r /\ d.done = TRUE
      /\ d.live = c.live /\ d.slot = c.slot /\ d.was = c.was
  <2> DEFINE e == [slot |-> c.slot, op |-> c.op, marker |-> c.marker,
                   effect |-> c.effect, id |-> c.id, arg |-> c.arg,
                   was |-> c.was, sure |-> c.sure, live |-> c.live,
                   tab |-> c.tab, done |-> TRUE, row |-> r, list |-> c.list,
                   moved |-> c.moved]
  <2>1. Shaped(c)
    BY DEF CallGood
  <2>2. d = e
    BY <1>2, <2>1 DEF Shaped
  <2>3. Shaped(e)
    BY DEF Shaped
  <2> QED BY ONLY <2>2, <2>3
<1>5. c.id \in Ids /\ server[c.id] \in Row \cup {None} /\ Kind(page, c.op, c.effect)
  BY <1>3 DEF CallGood, StateTyped, OnRow, Reads
<1>6. /\ r \in Row \cup {None, Refused}
      /\ c.effect # "drop" => r \in Row \cup {Refused}
      /\ server[c.id] = None => r = Refused
  BY <1>1, <1>3, <1>5, ServedTyped DEF CallGood
<1>7. CallGood(page, d)
  BY <1>3, <1>4, <1>5, <1>6 DEF CallGood, OnRow, Reads
<1>8. server = [i \in Ids |-> server[i]] /\ \A i \in Ids : server[i] = None \/ server[i] \in Row
  BY DEF StateTyped
<1>9. /\ server' = [i \in Ids |-> server'[i]]
      /\ \A i \in Ids : server'[i] = None \/ server'[i] \in Row
      /\ \A i \in Ids \ {c.id} : server'[i] = server[i]
      /\ server'[c.id] = IF r = Refused THEN server[c.id] ELSE r
  BY <1>3, <1>5, <1>6, <1>8
<1> HIDE DEF Served, Moved
<1>10. d.done
  BY <1>4
<1> QED BY <1>1, <1>3, <1>4, <1>5, <1>6, <1>7, <1>9, <1>10

LEMMA ServeNewMakes ==
    ASSUME NEW c, CallGood(page, c), ServeNew(c), StateTyped
    PROVE  /\ server[NewRow] = None /\ CallsOn(NewRow) = {} /\ ~c.done /\ c.effect = "append"
           /\ server' = [i \in Ids |-> server'[i]]
           /\ \A i \in Ids : server'[i] = None \/ server'[i] \in Row
           /\ \A i \in Ids \ {NewRow} : server'[i] = server[i]
           /\ doubt' = IF c.live THEN doubt ELSE doubt \cup {NewRow}
           /\ UNCHANGED <<page, tab, shown, twice, loading, busy, dialog>>
           /\ \E d : /\ calls' = Moved((calls \ {c}) \cup {d}, NewRow) /\ CallGood(page, d)
                     /\ d.done /\ (d.live = c.live) /\ d.effect = "append" /\ d.op = "create"
                     /\ d.id = NewRow /\ d.row \in Row /\ server'[NewRow] = d.row
                     /\ d.slot = c.slot
<1>1. PICK r : r = [st |-> {}, rest |-> 0]
  OBVIOUS
<1>2. PICK d : d = [c EXCEPT !.id = NewRow, !.done = TRUE, !.row = r]
  OBVIOUS
<1>3. /\ c.effect = "append" /\ ~c.done /\ server[NewRow] = None /\ CallsOn(NewRow) = {}
      /\ server' = [server EXCEPT ![NewRow] = r]
      /\ calls' = Moved((calls \ {c}) \cup {d}, NewRow)
      /\ doubt' = IF c.live THEN doubt ELSE doubt \cup {NewRow}
      /\ UNCHANGED <<page, tab, shown, twice, loading, busy, dialog>>
  BY <1>1, <1>2 DEF ServeNew
<1>4. /\ Shaped(d) /\ d.op = c.op /\ d.marker = c.marker /\ d.effect = c.effect
      /\ d.id = NewRow /\ d.arg = c.arg /\ d.tab = c.tab /\ d.row = r /\ d.done = TRUE
      /\ d.live = c.live /\ d.slot = c.slot
  <2> DEFINE e == [slot |-> c.slot, op |-> c.op, marker |-> c.marker,
                   effect |-> c.effect, id |-> NewRow, arg |-> c.arg, was |-> c.was,
                   sure |-> c.sure, live |-> c.live, tab |-> c.tab,
                   done |-> TRUE, row |-> r, list |-> c.list, moved |-> c.moved]
  <2>1. Shaped(c)
    BY DEF CallGood
  <2>2. d = e
    BY <1>2, <2>1 DEF Shaped
  <2>3. Shaped(e)
    BY DEF Shaped
  <2> QED BY ONLY <2>2, <2>3
<1>5. r \in Row
  BY <1>1 DEF Row
<1>6. c.op = "create"
  BY <1>3 DEF CallGood, Kind, Reads
<1>7. CallGood(page, d)
  BY <1>3, <1>4, <1>5, <1>6 DEF CallGood, OnRow, Reads, WithRow
<1>8. NewRow \in Ids
  BY DEF Ids
<1>9. /\ server' = [i \in Ids |-> server'[i]]
      /\ \A i \in Ids : server'[i] = None \/ server'[i] \in Row
      /\ \A i \in Ids \ {NewRow} : server'[i] = server[i]
      /\ server'[NewRow] = r
  BY <1>3, <1>5, <1>8 DEF StateTyped
<1>10. d.done
  BY <1>4
<1> QED BY <1>1, <1>3, <1>4, <1>5, <1>6, <1>7, <1>9, <1>10

LEMMA ServeAllMakes ==
    ASSUME NEW c \in calls, \A b \in calls : CallGood(page, b), ServeAll(c), StateTyped
    PROVE  /\ c.effect = "all" /\ c.op = "readAll" /\ page = "Notifications" /\ ~c.done
           /\ server' = [i \in Ids |-> server'[i]]
           /\ \A i \in Ids : server'[i] = None \/ server'[i] \in Row
           /\ \A i \in Ids : server[i] = None => server'[i] = None
           /\ \A i \in Ids : server[i] # None =>
                 server'[i] # None /\ server'[i].rest = server[i].rest /\ server'[i].st = {"read"}
           /\ \A i \in Ids : server[i] # None /\ server[i].st = {"read"} => server'[i] = server[i]
           /\ doubt' = IF c.live THEN doubt ELSE Ids
           /\ UNCHANGED <<page, tab, shown, twice, loading, busy, dialog>>
           /\ \A b \in calls' : CallGood(page, b)
           /\ \A b \in calls' : b.effect = "load" /\ b.done => b.moved = Ids /\ \E e \in calls :
                 /\ e.effect = "load" /\ e.done /\ b.list = e.list
           /\ \A b \in calls' : b \in calls \/ b.effect \in Reads
                  \/ (b.effect = "all" /\ b.done /\ (b.live = c.live) /\ b.op = "readAll" /\ b.row = None)
           /\ \E d \in calls' : d.effect = "all" /\ d.done /\ (d.live = c.live) /\ d.op = "readAll" /\ d.row = None
<1>1. PICK d : d = [c EXCEPT !.done = TRUE]
  OBVIOUS
<1>2. /\ c.effect = "all" /\ ~c.done
      /\ server' = [i \in Ids |-> IF server[i] = None THEN None ELSE Served("read", server[i], None)]
      /\ calls' = {IF b.effect = "load" /\ b.done THEN [b EXCEPT !.moved = Ids] ELSE b
                   : b \in (calls \ {c}) \cup {d}}
      /\ doubt' = IF c.live THEN doubt ELSE Ids
      /\ UNCHANGED <<page, tab, shown, twice, loading, busy, dialog>>
  BY <1>1 DEF ServeAll
<1>3. /\ Shaped(d) /\ d.op = c.op /\ d.marker = c.marker /\ d.effect = c.effect
      /\ d.id = c.id /\ d.arg = c.arg /\ d.row = c.row /\ d.done = TRUE /\ d.live = c.live
  <2>1. Shaped(c)
    BY DEF CallGood
  <2> QED BY <1>1, <2>1, DoneCall
<1>4. c.op = "readAll" /\ page = "Notifications" /\ c.row = None
  BY <1>2 DEF CallGood, Kind, Reads
<1>5. CallGood(page, d)
  BY <1>2, <1>3, <1>4 DEF CallGood, OnRow, Reads, WithRow
<1>6. \A i \in Ids : server[i] # None =>
         /\ Served("read", server[i], None) = [server[i] EXCEPT !.st = {"read"}]
         /\ Served("read", server[i], None) \in Row /\ Served("read", server[i], None) # None
         /\ Served("read", server[i], None).rest = server[i].rest
         /\ Served("read", server[i], None).st = {"read"}
         /\ server[i].st = {"read"} => Served("read", server[i], None) = server[i]
  <2>1. TAKE i \in Ids
  <2>2. HAVE server[i] # None
  <2>3. PICK s \in SUBSET Flags, n \in Nat : server[i] = [st |-> s, rest |-> n]
    BY <2>2 DEF StateTyped, Row
  <2>4. Served("read", server[i], None) = [server[i] EXCEPT !.st = {"read"}]
    BY <2>2 DEF Served
  <2>5. [server[i] EXCEPT !.st = {"read"}] = [st |-> {"read"}, rest |-> n]
    BY <2>3
  <2>6. [st |-> {"read"}, rest |-> n] \in Row
    BY DEF Row, Flags
  <2> QED BY <2>3, <2>4, <2>5, <2>6, RowPagesAssumption
<1>7. \A b \in calls' : \E e \in (calls \ {c}) \cup {d} :
         b = IF e.effect = "load" /\ e.done THEN [e EXCEPT !.moved = Ids] ELSE e
  BY <1>2
<1>8. \A b \in calls' :
         /\ CallGood(page, b)
         /\ b.effect = "load" /\ b.done => b.moved = Ids /\ \E e \in calls :
               e.effect = "load" /\ e.done /\ b.list = e.list
         /\ b \in calls \/ b.effect \in Reads \/ b = d
  <2>1. TAKE b \in calls'
  <2>2. PICK e \in (calls \ {c}) \cup {d} :
            b = IF e.effect = "load" /\ e.done THEN [e EXCEPT !.moved = Ids] ELSE e
    BY <1>7
  <2>3. CallGood(page, e)
    BY <1>5
  <2>4. CASE e.effect = "load" /\ e.done
    <3>1. e \in calls
      BY <1>2, <1>3, <2>4
    <3>2. b = [e EXCEPT !.moved = Ids]
      BY <2>2, <2>4
    <3>3. /\ Shaped(b) /\ b.op = e.op /\ b.marker = e.marker /\ b.effect = e.effect /\ b.id = e.id
          /\ b.arg = e.arg /\ b.done = e.done /\ b.row = e.row /\ b.list = e.list /\ b.moved = Ids
      BY <3>2, <2>3, MovedCall DEF CallGood
    <3>4. CallGood(page, b)
      BY <2>3, <3>3 DEF CallGood
    <3> QED BY <2>4, <3>1, <3>3, <3>4 DEF Reads
  <2>5. CASE ~(e.effect = "load" /\ e.done)
    BY <2>2, <2>3, <2>5
  <2> QED BY <2>4, <2>5
<1>9. d \in calls'
  BY <1>2, <1>3
<1>10. d.done
  BY <1>3
<1>11. /\ server' = [i \in Ids |-> server'[i]]
       /\ \A i \in Ids : server'[i] = IF server[i] = None THEN None ELSE Served("read", server[i], None)
  BY <1>2
<1> HIDE DEF Served
<1>12. /\ \A i \in Ids : server'[i] = None \/ server'[i] \in Row
       /\ \A i \in Ids : server[i] = None => server'[i] = None
       /\ \A i \in Ids : server[i] # None =>
             server'[i] # None /\ server'[i].rest = server[i].rest /\ server'[i].st = {"read"}
       /\ \A i \in Ids : server[i] # None /\ server[i].st = {"read"} => server'[i] = server[i]
  BY <1>6, <1>11
<1>13. d.effect = "all" /\ d.done /\ (d.live = c.live) /\ d.op = "readAll" /\ d.row = None
  BY <1>2, <1>3, <1>4, <1>10
<1>14. \A b \in calls' :
          \/ b \in calls \/ b.effect \in Reads
          \/ b.effect = "all" /\ b.done /\ (b.live = c.live) /\ b.op = "readAll" /\ b.row = None
  BY <1>8, <1>13
<1>15. c.effect = "all" /\ c.op = "readAll" /\ page = "Notifications" /\ ~c.done
       /\ doubt' = (IF c.live THEN doubt ELSE Ids)
       /\ UNCHANGED <<page, tab, shown, twice, loading, busy, dialog>>
  BY <1>2, <1>4
<1> QED BY ONLY <1>8, <1>9, <1>11, <1>12, <1>13, <1>14, <1>15

-----------------------------------------------------------------------------
(* Every step keeps the types. *)

LEMMA InitTyped ==
    ASSUME Init
    PROVE  TypeInv
<1>1. IsList(shown)
  BY DEF Init, IsList
<1> QED BY <1>1, RowPagesAssumption DEF Init, TypeInv, StateTyped, DialogTyped, Idle

LEMMA EnterTyped ==
    ASSUME NEW p \in Pages, Enter(p)
    PROVE  TypeInv' /\ \A c \in calls' : c.effect \in Reads /\ ~c.done
<1>1. p \in AllPages /\ Mounted(p, {}) /\ page' = p
  BY RowPagesAssumption DEF Enter
<1>2. PICK rows \in [Rows -> InitialRow(p)] :
         server' = [i \in Ids |-> IF i \in Rows THEN rows[i] ELSE None]
  BY DEF Enter
<1>3. /\ server' = [i \in Ids |-> server'[i]]
      /\ \A i \in Ids : server'[i] = None \/ server'[i] \in Row
  BY <1>2, InitialTyped
<1> QED BY <1>1, <1>3, MountedTyped

LEMMA ReturnTyped ==
    ASSUME TypeInv, Return
    PROVE  /\ TypeInv' /\ page \in AllPages /\ page' = page
           /\ \A d \in calls' :
                 \/ d.effect \in Reads /\ ~d.done
                 \/ \E c \in calls : /\ d.op = c.op /\ d.effect = c.effect /\ (d.done = c.done)
                                     /\ c.effect \notin Reads
<1> DEFINE kept == {[c EXCEPT !.live = FALSE] : c \in {d \in calls : d.effect \notin {"load", "count"}}}
<1>1. page \in AllPages /\ page' = page /\ Mounted(page, kept) /\ server' = server
  BY DEF Return, TypeInv, StateTyped
<1>2. \A d \in kept : /\ CallGood(page, d)
                      /\ \E c \in calls : /\ d.op = c.op /\ d.effect = c.effect /\ (d.done = c.done)
                                          /\ c.effect \notin Reads
  <2>1. TAKE d \in kept
  <2>2. PICK c \in calls : d = [c EXCEPT !.live = FALSE] /\ c.effect \notin Reads
    BY DEF Reads
  <2>3. CallGood(page, c)
    BY DEF TypeInv
  <2> HIDE DEF kept
  <2>4. /\ Shaped(d) /\ d.op = c.op /\ d.marker = c.marker /\ d.effect = c.effect /\ d.id = c.id
        /\ d.arg = c.arg /\ d.done = c.done /\ d.row = c.row
    <3>1. Shaped(c)
      BY <2>3 DEF CallGood
    <3>2. QED
      BY <2>2, <3>1, DeadCall
  <2>5. CallGood(page, d)
    BY <2>3, <2>4 DEF CallGood
  <2> QED BY <2>2, <2>4, <2>5
<1> HIDE DEF kept
<1>3. /\ server' = [i \in Ids |-> server'[i]]
      /\ \A i \in Ids : server'[i] = None \/ server'[i] \in Row
  BY <1>1 DEF TypeInv, StateTyped
<1>4. /\ TypeInv'
      /\ \A c \in calls' : c \in kept \/ (c.effect \in Reads /\ ~c.done)
  BY <1>1, <1>2, <1>3, MountedTyped
<1> QED BY <1>1, <1>2, <1>4

(* Where no call changes but one that a list asks for, and no row does. *)
LEMMA AskTyped ==
    ASSUME TypeInv, page \in AllPages, NEW s, NEW t, calls' = calls \cup {Reading(s, "load", t)},
           UNCHANGED <<page, server, shown, twice, busy, dialog>>, loading' = TRUE,
           page \notin {"AllBookings", "PendingApprovals"} => tab' = tab
    PROVE  TypeInv' /\ \A c \in calls' : c \in calls \/ (c.effect \in Reads /\ c.op \in Reads /\ ~c.done)
<1>1. PICK r : r = Reading(s, "load", t)
  OBVIOUS
<1>2. CallGood(page, r) /\ r.effect = "load" /\ r.op = "load" /\ ~r.done
  BY <1>1, ReadingGood DEF Reads
<1>3. \A c \in calls' : CallGood(page, c) /\ (c \in calls \/ (c.effect \in Reads /\ c.op \in Reads /\ ~c.done))
  BY <1>1, <1>2 DEF TypeInv, Reads
<1>4. StateTyped'
  BY RowPagesAssumption DEF TypeInv, StateTyped, IsList
<1>5. DialogTyped'
  BY DEF TypeInv, DialogTyped
<1> QED BY <1>3, <1>4, <1>5 DEF TypeInv

(* Where only calls, the busy markers and the history change. *)
LEMMA CallsTyped ==
    ASSUME TypeInv, page # None, UNCHANGED <<page, tab, server, shown, twice, loading, dialog>>,
           busy' = [m \in Markers |-> busy'[m]],
           \A c \in calls' : CallGood(page, c)
    PROVE  TypeInv'
<1>1. StateTyped'
  BY DEF TypeInv, StateTyped, IsList
<1>2. DialogTyped'
  BY DEF TypeInv, DialogTyped
<1> QED BY <1>1, <1>2 DEF TypeInv

(* Where the rows do too. *)
LEMMA ServerTyped ==
    ASSUME TypeInv, page # None, UNCHANGED <<page, tab, shown, twice, loading, busy, dialog>>,
           server' = [i \in Ids |-> server'[i]],
           \A i \in Ids : server'[i] = None \/ server'[i] \in Row,
           \A c \in calls' : CallGood(page, c)
    PROVE  TypeInv'
<1>1. StateTyped'
  BY DEF TypeInv, StateTyped, IsList
<1>2. DialogTyped'
  BY DEF TypeInv, DialogTyped
<1> QED BY <1>1, <1>2 DEF TypeInv

LEMMA OpenDialogTyped ==
    ASSUME TypeInv, page # None, NEW k \in Controls(page), NEW i, OpenDialog(k, i)
    PROVE  TypeInv'
<1>1. page \in AllPages
  BY DEF TypeInv, StateTyped
<1>2. /\ Kind(page, k.op, k.effect) /\ (k.op = "readAll" => ~k.asks)
      /\ k.effect = "append" => k.asks
      /\ page = "AllGuests" /\ k.asks => k.op \in {"ban", "loyalty"}
  BY <1>1, ControlKind
<1>3. PICK n, w : /\ dialog' = [op |-> k.op, id |-> n, was |-> w, sent |-> FALSE]
                  /\ \/ k.effect = "append" /\ n = None
                     \/ /\ k.effect # "append" /\ n \in Ids /\ n # None /\ w \in Row
                        /\ k.asks \/ k.op = "status"
  BY RowPagesAssumption DEF OpenDialog, TypeInv, StateTyped, IsList, Ids
<1>4. /\ k.op # "readAll" /\ (k.op = "create" <=> k.effect = "append")
      /\ page = "AllGuests" => k.op \in {"ban", "loyalty"}
  BY <1>2, <1>3 DEF Kind
<1>5. DialogTyped'
  <2>1. dialog'.op = k.op /\ dialog'.id = n /\ dialog'.was = w /\ dialog'.sent = FALSE
    BY <1>3
  <2>2. /\ dialog' = [op |-> dialog'.op, id |-> dialog'.id, was |-> dialog'.was, sent |-> dialog'.sent]
        /\ dialog'.op # "readAll" /\ (dialog'.op = "create" <=> dialog'.id = None)
        /\ dialog'.id # None => dialog'.id \in Ids /\ dialog'.was \in Row
        /\ page = "AllGuests" => dialog'.op \in {"ban", "loyalty"}
    BY <1>3, <1>4, <2>1
  <2>3. page' = page
    BY DEF OpenDialog
  <2> QED BY <2>2, <2>3 DEF DialogTyped
<1>6. StateTyped'
  BY DEF TypeInv, StateTyped, IsList, OpenDialog
<1>7. \A c \in calls' : CallGood(page', c)
  BY DEF TypeInv, OpenDialog
<1> QED BY <1>5, <1>6, <1>7 DEF TypeInv

LEMMA SubmitTyped ==
    ASSUME TypeInv, page # None, NEW k \in Controls(page), Submit(k)
    PROVE  TypeInv' /\ \A c \in calls' : c \in calls \/ (c.effect \notin Reads /\ ~c.done)
<1>1. PICK c : /\ calls' = calls \cup {c} /\ CallGood(page, c)
               /\ c.effect = k.effect /\ c.op = k.op /\ c.id = dialog.id /\ ~c.done /\ c.live
  BY SubmitMakes
<1>2. k.effect \notin Reads
  BY ControlKind DEF TypeInv, StateTyped, Kind, Reads
<1>3. /\ busy' = [m \in Markers |-> busy'[m]] /\ dialog # None
      /\ dialog' = IF page = "AllGuests" THEN [dialog EXCEPT !.sent = TRUE] ELSE dialog
      /\ UNCHANGED <<page, tab, server, shown, twice, loading>>
  BY SubmitMakes
<1>4. StateTyped'
  BY <1>3 DEF TypeInv, StateTyped, IsList
<1>5. DialogTyped'
  BY <1>3 DEF TypeInv, DialogTyped
<1>6. \A d \in calls' : CallGood(page', d) /\ (d \in calls \/ (d.effect \notin Reads /\ ~d.done))
  BY <1>1, <1>2, <1>3 DEF TypeInv
<1> QED BY <1>4, <1>5, <1>6 DEF TypeInv

LEMMA ReadAllTyped ==
    ASSUME TypeInv, page # None, NEW k \in Controls(page), ReadAll(k)
    PROVE  /\ TypeInv' /\ page = "Notifications"
           /\ \E c : /\ calls' = calls \cup {c} /\ CallGood(page, c) /\ c.op = "readAll"
                     /\ c.effect = "all" /\ ~c.done /\ c.live
<1>1. page \in AllPages
  BY DEF TypeInv, StateTyped
<1>2. PICK s, no : calls' = calls \cup {Call(s, k, None, None, None, no)}
  BY DEF ReadAll
<1>3. PICK c : c = Call(s, k, None, None, None, no)
  OBVIOUS
<1>4. Kind(page, k.op, k.effect) /\ k.op = "readAll"
  BY <1>1, ControlKind DEF ReadAll
<1>5. page = "Notifications" /\ k.effect = "all"
  BY <1>4 DEF Kind
<1>6. k.effect \notin OnRow /\ k.op \notin WithRow
  BY <1>4, <1>5 DEF OnRow, WithRow
<1>7. /\ CallGood(page, c) /\ c.effect = k.effect /\ c.op = k.op /\ ~c.done /\ c.live
  BY <1>1, <1>3, <1>6, SentGood
<1>8. \A d \in calls' : CallGood(page, d)
  BY <1>2, <1>3, <1>7 DEF TypeInv
<1>9. UNCHANGED <<page, tab, server, shown, twice, loading, dialog>> /\ busy' = busy
  BY DEF ReadAll
<1>10. busy' = [m \in Markers |-> busy'[m]]
  BY <1>9 DEF TypeInv, StateTyped
<1>11. TypeInv'
  BY <1>8, <1>9, <1>10, CallsTyped
<1> QED BY <1>2, <1>3, <1>4, <1>5, <1>7, <1>11

LEMMA ClickTyped ==
    ASSUME TypeInv, page # None, NEW k \in Controls(page), NEW i \in Ids, Click(k, i)
    PROVE  TypeInv' /\ \A c \in calls' : c \in calls \/ (c.effect \notin Reads /\ ~c.done)
<1>1. PICK c : /\ calls' = calls \cup {c} /\ CallGood(page, c)
               /\ c.effect = k.effect /\ c.op = k.op /\ c.id = i /\ ~c.done /\ c.live
  BY ClickMakes
<1>2. k.effect \in OnRow /\ busy' = [m \in Markers |-> busy'[m]]
      /\ UNCHANGED <<page, tab, server, shown, twice, loading, dialog>>
  BY ClickMakes
<1>3. \A d \in calls' : CallGood(page, d) /\ (d \in calls \/ (d.effect \notin Reads /\ ~d.done))
  BY <1>1, <1>2 DEF TypeInv, OnRow, Reads
<1> QED BY <1>2, <1>3, CallsTyped

LEMMA ElsewhereMakes ==
    ASSUME TypeInv, NEW i \in Ids, Elsewhere(i)
    PROVE  /\ TypeInv' /\ page # None /\ page' = page
           /\ \A j \in Ids \ {i} : server'[j] = server[j]
           /\ page \notin OnBookings => server'[i] = None \/ server'[i].st = server[i].st
<1>1. PICK row \in (IF page \in OnBookings THEN {[server[i] EXCEPT !.st = s] : s \in AStatus}
                   ELSE {[server[i] EXCEPT !.rest = @ + 1], None}) :
         server' = [server EXCEPT ![i] = row]
  BY DEF Elsewhere
<1>2. /\ page # None /\ calls' = Moved(calls, i) /\ server[i] # None
      /\ UNCHANGED <<page, tab, shown, twice, loading, busy, dialog>>
  BY DEF Elsewhere
<1>3. PICK s \in SUBSET Flags, n \in Nat : server[i] = [st |-> s, rest |-> n]
  BY <1>2 DEF TypeInv, StateTyped, Row
<1>4. row = None \/ (row \in Row /\ (page \notin OnBookings => row.st = server[i].st))
  <2>1. CASE page \in OnBookings
    <3>1. PICK t \in AStatus : row = [server[i] EXCEPT !.st = t]
      BY <1>1, <2>1
    <3>2. t \in SUBSET Flags
      BY RowPagesAssumption DEF AStatus, Flags
    <3> QED BY <1>3, <2>1, <3>1, <3>2 DEF Row
  <2>2. CASE page \notin OnBookings
    BY <1>1, <1>3, <2>2 DEF Row
  <2> QED BY <2>1, <2>2
<1>5. /\ server' = [j \in Ids |-> server'[j]] /\ server'[i] = row
      /\ \A j \in Ids : server'[j] = None \/ server'[j] \in Row
      /\ \A j \in Ids \ {i} : server'[j] = server[j]
  BY <1>1, <1>4 DEF TypeInv, StateTyped
<1>6. \A c \in calls' : CallGood(page, c)
  BY <1>2, MovedGood DEF TypeInv
<1>7. TypeInv'
  BY <1>2, <1>5, <1>6, ServerTyped
<1> QED BY <1>2, <1>4, <1>5, <1>7

LEMMA ServeListTyped ==
    ASSUME TypeInv, page # None, NEW c \in calls, ServeList(c)
    PROVE  TypeInv'
<1>1. PICK d : calls' = (calls \ {c}) \cup {d} /\ CallGood(page, d)
  BY ServeListMakes DEF TypeInv
<1>2. \A b \in calls' : CallGood(page, b)
  BY <1>1 DEF TypeInv
<1>3. UNCHANGED <<page, tab, server, shown, twice, loading, dialog>> /\ busy' = [m \in Markers |-> busy'[m]]
  BY DEF ServeList, TypeInv, StateTyped
<1> QED BY <1>2, <1>3, CallsTyped

LEMMA ServeTyped ==
    ASSUME TypeInv, page # None, NEW c \in calls, Serve(c)
    PROVE  TypeInv'
<1>1. StateTyped /\ CallGood(page, c)
  BY DEF TypeInv
<1>2. PICK d : calls' = Moved((calls \ {c}) \cup {d}, c.id) /\ CallGood(page, d)
  BY <1>1, ServeMakes
<1>3. \A b \in (calls \ {c}) \cup {d} : CallGood(page, b)
  BY <1>2 DEF TypeInv
<1>4. \A b \in calls' : CallGood(page, b)
  BY <1>2, <1>3, MovedGood
<1>5. /\ server' = [i \in Ids |-> server'[i]]
      /\ \A i \in Ids : server'[i] = None \/ server'[i] \in Row
      /\ UNCHANGED <<page, tab, shown, twice, loading, busy, dialog>>
  BY <1>1, ServeMakes
<1> QED BY <1>4, <1>5, ServerTyped

LEMMA ServeNewTyped ==
    ASSUME TypeInv, page # None, NEW c \in calls, ServeNew(c)
    PROVE  TypeInv'
<1>1. StateTyped /\ CallGood(page, c)
  BY DEF TypeInv
<1>2. PICK d : calls' = Moved((calls \ {c}) \cup {d}, NewRow) /\ CallGood(page, d)
  BY <1>1, ServeNewMakes
<1>3. \A b \in (calls \ {c}) \cup {d} : CallGood(page, b)
  BY <1>2 DEF TypeInv
<1>4. \A b \in calls' : CallGood(page, b)
  BY <1>2, <1>3, MovedGood
<1>5. /\ server' = [i \in Ids |-> server'[i]]
      /\ \A i \in Ids : server'[i] = None \/ server'[i] \in Row
      /\ UNCHANGED <<page, tab, shown, twice, loading, busy, dialog>>
  BY <1>1, ServeNewMakes
<1> QED BY <1>4, <1>5, ServerTyped

LEMMA ServeAllTyped ==
    ASSUME TypeInv, page # None, NEW c \in calls, ServeAll(c)
    PROVE  TypeInv'
<1>1. StateTyped /\ \A b \in calls : CallGood(page, b)
  BY DEF TypeInv
<1>2. /\ \A b \in calls' : CallGood(page, b)
      /\ server' = [i \in Ids |-> server'[i]]
      /\ \A i \in Ids : server'[i] = None \/ server'[i] \in Row
      /\ UNCHANGED <<page, tab, shown, twice, loading, busy, dialog>>
  BY <1>1, ServeAllMakes
<1> QED BY <1>2, ServerTyped

LEMMA ListArrivesTyped ==
    ASSUME TypeInv, page # None, NEW c \in calls, ListArrives(c), ListGood(c)
    PROVE  TypeInv'
<1>1. IsList(shown') /\ twice' = {} /\ loading' = FALSE /\ calls' \subseteq calls
      /\ UNCHANGED <<page, tab, server, busy, dialog>>
  BY DEF ListArrives, ListGood
<1>2. StateTyped'
  BY <1>1 DEF TypeInv, StateTyped, IsList
<1>3. DialogTyped'
  BY <1>1 DEF TypeInv, DialogTyped
<1> QED BY <1>1, <1>2, <1>3 DEF TypeInv

LEMMA CountArrivesTyped ==
    ASSUME TypeInv, page # None, NEW c \in calls, CountArrives(c)
    PROVE  TypeInv'
<1>1. UNCHANGED <<page, tab, server, shown, twice, loading, dialog>> /\ busy' = [m \in Markers |-> busy'[m]]
  BY DEF CountArrives, TypeInv, StateTyped
<1>2. \A b \in calls' : CallGood(page, b)
  BY DEF CountArrives, TypeInv
<1> QED BY <1>1, <1>2, CallsTyped

LEMMA ListFailsTyped ==
    ASSUME TypeInv, page # None, NEW c \in calls, ListFails(c)
    PROVE  TypeInv'
<1>1. /\ twice' \subseteq Ids /\ loading' \in BOOLEAN /\ calls' \subseteq calls
      /\ UNCHANGED <<page, tab, server, busy, dialog>>
  BY DEF ListFails, TypeInv, StateTyped
<1>2. IsList(shown')
  BY DEF ListFails, TypeInv, StateTyped, IsList
<1>3. StateTyped'
  BY <1>1, <1>2 DEF TypeInv, StateTyped, IsList
<1>4. DialogTyped'
  BY <1>1 DEF TypeInv, DialogTyped
<1> QED BY <1>1, <1>3, <1>4 DEF TypeInv

LEMMA SucceedTyped ==
    ASSUME TypeInv, page # None, NEW c \in calls, Succeed(c)
    PROVE  TypeInv'
<1>1. CallGood(page, c) /\ IsList(shown) /\ c.effect \notin Reads /\ c.done /\ c.row # Refused
  BY DEF TypeInv, StateTyped, Succeed, Reads
<1>2. IsList(Patched(c))
  BY <1>1, PatchedAt, PatchedAll
<1>3. c.effect = "append" => c.id \in Ids
  BY <1>1, Effects
<1>4. IsList(shown') /\ twice' \subseteq Ids
  BY <1>2, <1>3 DEF Succeed, TypeInv, StateTyped
<1>5. busy' = [m \in Markers |-> busy'[m]]
  BY DEF Succeed, Freed, TypeInv, StateTyped
<1>6. UNCHANGED <<page, tab, server, loading>> /\ calls' \subseteq calls /\ dialog' \in {dialog, None}
  BY DEF Succeed
<1>7. StateTyped'
  BY <1>4, <1>5, <1>6 DEF TypeInv, StateTyped, IsList
<1>8. DialogTyped'
  BY <1>6 DEF TypeInv, DialogTyped
<1> QED BY <1>6, <1>7, <1>8 DEF TypeInv

LEMMA FailTyped ==
    ASSUME TypeInv, page # None, NEW c \in calls, Fail(c)
    PROVE  TypeInv'
<1>1. busy' = [m \in Markers |-> busy'[m]]
  BY DEF Fail, Freed, TypeInv, StateTyped
<1>2. /\ UNCHANGED <<page, tab, server, shown, twice, loading>> /\ calls' \subseteq calls
      /\ dialog' \in {dialog, None}
  BY DEF Fail
<1>3. StateTyped'
  BY <1>1, <1>2 DEF TypeInv, StateTyped, IsList
<1>4. DialogTyped'
  BY <1>2 DEF TypeInv, DialogTyped
<1> QED BY <1>2, <1>3, <1>4 DEF TypeInv

-----------------------------------------------------------------------------
(* Every step keeps what is known of the lists on their way. *)

LEMMA ReadServed ==
    ASSUME NEW row \in Row, NEW arg
    PROVE  /\ Served("read", row, arg) \in Row /\ Served("read", row, arg).rest = row.rest
           /\ Served("read", row, arg).st = {"read"}
           /\ row.st = {"read"} => Served("read", row, arg) = row
<1>1. PICK s \in SUBSET Flags, n \in Nat : row = [st |-> s, rest |-> n]
  BY DEF Row
<1>2. Served("read", row, arg) = [row EXCEPT !.st = {"read"}]
  BY RowPagesAssumption DEF Served
<1> QED BY <1>1, <1>2 DEF Row, Flags

LEMMA ListsKept ==
    ASSUME ListsGood, server' = server, page' = page,
           \A d \in calls' : \/ d \in calls \/ ~d.done
                             \/ \E c \in calls : /\ d.op = c.op /\ d.effect = c.effect
                                                 /\ (d.done = c.done) /\ c.effect \notin Reads
    PROVE  ListsGood'
<1>1. SUFFICES ASSUME NEW d \in calls' PROVE ListGood(d)' /\ AllRead(d)'
  BY DEF ListsGood
<1>2. CASE d \in calls
  BY <1>2 DEF ListsGood, ListGood, AllRead, Listed
<1>3. CASE ~d.done
  BY <1>3 DEF ListGood, AllRead
<1>4. CASE \E c \in calls : d.op = c.op /\ d.effect = c.effect /\ (d.done = c.done) /\ c.effect \notin Reads
  BY <1>4 DEF ListsGood, ListGood, AllRead, Reads
<1> QED BY <1>1, <1>2, <1>3, <1>4

(* Where one row moves, and no list is answered. *)
LEMMA ListsMoved ==
    ASSUME ListsGood, NEW i \in Ids, NEW cs, calls' = Moved(cs, i), page' = page,
           \A x \in cs : CallGood(page, x) /\ (x \in calls \/ (x.effect \notin Reads /\ x.op # "readAll")),
           \A j \in Ids \ {i} : server'[j] = server[j],
           page = "Notifications" =>
              \/ server'[i] = None \/ server'[i].st = {"read"}
              \/ server[i] # None /\ server'[i].st = server[i].st
    PROVE  ListsGood'
<1>1. SUFFICES ASSUME NEW d \in calls' PROVE ListGood(d)' /\ AllRead(d)'
  BY DEF ListsGood
<1>2. PICK c \in cs : Follows(c, d, i)
  <2>1. d \in Moved(cs, i) /\ \A x \in cs : CallGood(page, x)
    BY <1>1
  <2> QED BY ONLY <2>1, MovedGood
<1>3. ListGood(d)'
  <2>1. SUFFICES ASSUME d.effect = "load", d.done
        PROVE  IsList(d.list) /\ \A j \in Ids \ d.moved :
                  /\ j \in DOMAIN d.list <=> Listed(page', d.tab, server'[j])
                  /\ j \in DOMAIN d.list => d.list[j] = server'[j]
    BY DEF ListGood, Listed, IsList
  <2>2. c \in calls /\ c.effect = "load" /\ c.done /\ d.moved = c.moved \cup {i}
    BY <1>2, <2>1 DEF Reads, Follows
  <2>3. IsList(c.list) /\ \A j \in Ids \ c.moved :
           /\ j \in DOMAIN c.list <=> Listed(page, c.tab, server[j])
           /\ j \in DOMAIN c.list => c.list[j] = server[j]
    BY <2>2 DEF ListsGood, ListGood
  <2> QED BY <1>2, <2>2, <2>3 DEF Follows
<1>4. AllRead(d)'
  <2>1. SUFFICES ASSUME d.op = "readAll", d.done, NEW j \in Ids, server'[j] # None
        PROVE  server'[j].st = {"read"}
    BY DEF AllRead
  <2>2. c \in calls /\ c.op = "readAll" /\ c.done
    BY <1>2, <2>1 DEF Follows
  <2>3. page = "Notifications"
    BY <2>2 DEF CallGood, Kind, Reads
  <2>4. \A n \in Ids : server[n] # None => server[n].st = {"read"}
    BY <2>2 DEF ListsGood, AllRead
  <2> QED BY <2>1, <2>3, <2>4
<1> QED BY <1>3, <1>4

LEMMA ServeLists ==
    ASSUME TypeInv, ListsGood, page # None, NEW c \in calls, Serve(c)
    PROVE  ListsGood'
<1>1. StateTyped /\ CallGood(page, c)
  BY DEF TypeInv
<1>2. /\ c.effect \in OnRow /\ c.id \in Ids /\ page' = page
      /\ \A i \in Ids \ {c.id} : server'[i] = server[i]
  BY <1>1, ServeMakes
<1>3. PICK d : /\ calls' = Moved((calls \ {c}) \cup {d}, c.id) /\ CallGood(page, d)
               /\ d.effect = c.effect /\ d.op = c.op
               /\ d.row = Served(c.op, server[c.id], c.arg)
               /\ server[c.id] = None => d.row = Refused
               /\ server'[c.id] = IF d.row = Refused THEN server[c.id] ELSE d.row
  BY <1>1, ServeMakes
<1>4. c.op # "readAll" /\ d.effect \notin Reads
  BY <1>1, <1>2, <1>3, Effects DEF OnRow, Reads
<1>5. ASSUME page = "Notifications", server[c.id] # None PROVE server'[c.id].st = {"read"} \/ d.row = Refused
  <2>1. c.op = "read"
    BY <1>1, <1>2, <1>5 DEF CallGood, Kind, OnRow, Reads
  <2>2. server[c.id] \in Row
    BY <1>2, <1>5 DEF TypeInv, StateTyped
  <2> QED BY <1>3, <2>1, <2>2, ReadServed
<1>6. \A x \in (calls \ {c}) \cup {d} :
         CallGood(page, x) /\ (x \in calls \/ (x.effect \notin Reads /\ x.op # "readAll"))
  BY <1>3, <1>4 DEF TypeInv
<1>7. page = "Notifications" =>
         \/ server'[c.id] = None \/ server'[c.id].st = {"read"}
         \/ server[c.id] # None /\ server'[c.id].st = server[c.id].st
  BY <1>3, <1>5
<1> QED BY <1>2, <1>3, <1>6, <1>7, ListsMoved

LEMMA ServeNewLists ==
    ASSUME TypeInv, ListsGood, page # None, NEW c \in calls, ServeNew(c)
    PROVE  ListsGood'
<1>1. StateTyped /\ CallGood(page, c) /\ NewRow \in Ids
  BY DEF TypeInv, Ids
<1>2. /\ \A i \in Ids \ {NewRow} : server'[i] = server[i]
      /\ page' = page /\ page # "Notifications"
  BY <1>1, ServeNewMakes DEF CallGood, Kind, Reads
<1>3. PICK d : /\ calls' = Moved((calls \ {c}) \cup {d}, NewRow) /\ CallGood(page, d)
               /\ d.effect = "append" /\ d.op = "create"
  BY <1>1, ServeNewMakes
<1>4. \A x \in (calls \ {c}) \cup {d} :
         CallGood(page, x) /\ (x \in calls \/ (x.effect \notin Reads /\ x.op # "readAll"))
  BY <1>3 DEF TypeInv, Reads
<1> QED BY <1>1, <1>2, <1>3, <1>4, ListsMoved

LEMMA ElsewhereLists ==
    ASSUME TypeInv, ListsGood, NEW i \in Ids, Elsewhere(i)
    PROVE  ListsGood'
<1>1. /\ page # None /\ page' = page /\ calls' = Moved(calls, i) /\ server[i] # None
      /\ \A j \in Ids \ {i} : server'[j] = server[j]
      /\ page \notin OnBookings => server'[i] = None \/ server'[i].st = server[i].st
  BY ElsewhereMakes DEF Elsewhere
<1>2. \A x \in calls : CallGood(page, x)
  BY DEF TypeInv
<1>3. page = "Notifications" => page \notin OnBookings
  BY DEF OnBookings
<1> QED BY <1>1, <1>2, <1>3, ListsMoved

LEMMA ServeAllLists ==
    ASSUME TypeInv, ListsGood, page # None, NEW c \in calls, ServeAll(c)
    PROVE  ListsGood'
<1>1. StateTyped /\ \A b \in calls : CallGood(page, b)
  BY DEF TypeInv
<1>2. /\ \A i \in Ids : server'[i] # None => server'[i].st = {"read"}
      /\ \A b \in calls' : b.effect = "load" /\ b.done => b.moved = Ids /\ \E e \in calls :
                 e.effect = "load" /\ e.done /\ b.list = e.list
  BY <1>1, ServeAllMakes
<1>3. \A b \in calls' : AllRead(b)'
  BY <1>2 DEF AllRead
<1>4. \A b \in calls' : ListGood(b)'
  BY <1>2 DEF ListGood, ListsGood, IsList
<1> QED BY <1>3, <1>4 DEF ListsGood

LEMMA ServeListLists ==
    ASSUME TypeInv, ListsGood, page # None, NEW c \in calls, ServeList(c)
    PROVE  ListsGood'
<1>1. CallGood(page, c)
  BY DEF TypeInv
<1>2. PICK d : /\ calls' = (calls \ {c}) \cup {d} /\ CallGood(page, d)
               /\ d.effect = c.effect /\ d.tab = c.tab /\ d.op = c.op
               /\ d.list = [i \in {j \in Ids : Listed(page, c.tab, server[j])} |-> server[i]]
  BY <1>1, ServeListMakes
<1>3. server' = server /\ page' = page /\ c.effect \in Reads
  BY DEF ServeList, Reads
<1>4. \A i \in Ids : Listed(page, c.tab, server[i]) => server[i] \in Row
  BY DEF Listed, TypeInv, StateTyped
<1>5. IsList(d.list)
  BY <1>2, <1>4 DEF IsList
<1>6. ListGood(d)'
  BY <1>2, <1>3, <1>5 DEF ListGood, Listed, IsList
<1>7. d.op # "readAll"
  BY <1>1, <1>2, <1>3 DEF CallGood, Reads
<1>8. \A b \in calls' : b = d \/ (ListGood(b)' /\ AllRead(b)')
  <2>1. SUFFICES ASSUME NEW b \in calls PROVE ListGood(b)' /\ AllRead(b)'
    BY <1>2
  <2>2. ListGood(b) /\ AllRead(b)
    BY DEF ListsGood
  <2>3. ListGood(b)'
    BY <1>3, <2>2 DEF ListGood, Listed, IsList
  <2>4. AllRead(b)'
    BY <1>3, <2>2 DEF AllRead
  <2> QED BY <2>3, <2>4
<1> QED BY <1>6, <1>7, <1>8 DEF ListsGood, AllRead

-----------------------------------------------------------------------------
(* A dialog of the modal page finds its row's marker free. *)

LEMMA OpenDialogGood ==
    ASSUME TypeInv, page # None, NEW k \in Controls(page), NEW i, OpenDialog(k, i)
    PROVE  DialogGood'
<1>1. SUFFICES ASSUME page = "AllGuests", dialog'.op = "ban"
      PROVE  busy["acting"] = None \/ busy["acting"][1] # dialog'.id
  BY DEF DialogGood, OpenDialog
<1>2. k.op = dialog'.op
  BY DEF OpenDialog
<1>3. k.effect # "append" /\ k.guard = "acting"
  BY <1>1, <1>2, ControlKind DEF Kind, AllPages
<1>4. dialog'.id = i /\ ~Disabled(k, i)
  BY <1>1, <1>2, <1>3 DEF OpenDialog
<1>5. busy["acting"] = None \/ busy["acting"][1] # i
  BY <1>1, <1>3, <1>4, RowPagesAssumption DEF Disabled, Markers
<1> QED BY <1>4, <1>5

LEMMA SubmitGood ==
    ASSUME TypeInv, page # None, NEW k \in Controls(page), Submit(k)
    PROVE  DialogGood'
<1>1. /\ page' = page
      /\ dialog' = IF page = "AllGuests" THEN [dialog EXCEPT !.sent = TRUE] ELSE dialog
      /\ dialog # None
  BY SubmitMakes
<1>2. dialog = [op |-> dialog.op, id |-> dialog.id, was |-> dialog.was, sent |-> dialog.sent]
  BY <1>1 DEF TypeInv, DialogTyped
<1>3. page = "AllGuests" => dialog'.sent
  BY <1>1, <1>2
<1> QED BY <1>1, <1>3 DEF DialogGood

LEMMA FreedGood ==
    ASSUME StateTyped, DialogGood, NEW c, busy' = Freed(c), dialog' \in {dialog, None}, page' = page
    PROVE  DialogGood'
<1>1. busy'["acting"] = busy["acting"] \/ busy'["acting"] = None
  BY DEF Freed, StateTyped, Markers
<1> QED BY <1>1 DEF DialogGood

-----------------------------------------------------------------------------
(* A row's calls. *)

LEMMA OnOwn ==
    ASSUME TypeInv, page # "Notifications", NEW i \in Ids, NEW c \in CallsOn(i)
    PROVE  /\ c \in calls /\ CallGood(page, c) /\ c.id = i /\ c.op # "readAll"
           /\ c.effect \in OnRow \cup {"append"} /\ c.op \in Ops
<1>1. c \in calls /\ CallGood(page, c) /\ (c.id = i \/ c.op = "readAll")
  BY DEF CallsOn, TypeInv
<1>2. c.op # "readAll"
  BY <1>1 DEF CallGood, Kind, Reads
<1>3. c.effect \notin Reads
  BY <1>1, <1>2, RowPagesAssumption DEF CallGood, Ids
<1>4. c.effect \in OnRow \cup {"append"}
  BY <1>1, <1>2, <1>3, Effects
<1>5. c.op \in Ops
  BY <1>1, <1>3 DEF CallGood, Kind, Ops
<1> QED BY <1>1, <1>2, <1>4, <1>5

LEMMA RowKept ==
    ASSUME TypeInv, NEW i \in Ids, RowGood(i), page' = page, tab' = tab, server'[i] = server[i],
           i \in DOMAIN shown' <=> i \in DOMAIN shown, i \in DOMAIN shown => shown'[i] = shown[i],
           i \in twice' => i \in twice, CallsOn(i)' = CallsOn(i)
    PROVE  RowGood(i)'
<1>1. CASE page = "Notifications"
  <2>1. NoticeGood(i)
    BY <1>1 DEF RowGood
  <2>2. NoticeGood(i)'
    BY <2>1 DEF NoticeGood, Carried
  <2> QED BY <1>1, <2>2 DEF RowGood
<1>2. CASE page # "Notifications"
  <2>1. SingleGood(i)
    BY <1>2 DEF RowGood
  <2>2. \A present, row : Agree(i, present, row)' <=> Agree(i, present, row)
    BY DEF Agree
  <2>3. \A r1, r2 : Agree(i, FALSE, r1) => Agree(i, FALSE, r2)
    BY DEF Agree
  <2>4. (\A c \in CallsOn(i) : ~Carried(c)) => Agree(i, i \in DOMAIN shown', shown'[i])
    BY <2>1 DEF SingleGood, Agree
  <2>5. ASSUME NEW c \in CallsOn(i), Carried(c)
        PROVE  Agree(i, Present(c)', RowAfter(c)')
    <3>1. c.id = i /\ c.effect \in OnRow \cup {"append"}
      BY <1>2, OnOwn
    <3>2. Agree(i, Present(c), RowAfter(c))
      BY <2>1, <2>5 DEF SingleGood
    <3>3. Present(c)' = Present(c)
      BY <3>1 DEF Present
    <3>4. CASE c.effect = "assume"
      <4>1. CASE i \in DOMAIN shown
        <5>1. RowAfter(c)' = RowAfter(c)
          BY <3>1, <4>1 DEF RowAfter
        <5> QED BY <3>2, <3>3, <5>1
      <4>2. CASE i \notin DOMAIN shown
        <5>1. Present(c) = FALSE
          BY <3>1, <3>4, <4>2 DEF Present
        <5> QED BY <3>2, <3>3, <5>1, <2>3
      <4> QED BY <4>1, <4>2
    <3>5. CASE c.effect # "assume"
      <4>1. RowAfter(c)' = RowAfter(c)
        BY <3>5 DEF RowAfter
      <4> QED BY <3>2, <3>3, <4>1
    <3> QED BY <3>4, <3>5
  <2>6. SingleGood(i)'
    <3>1. \A c \in CallsOn(i)' : Carried(c)' <=> Carried(c)
      BY DEF Carried
    <3>2. i \notin twice'
      BY <2>1 DEF SingleGood
    <3>3. \A c \in CallsOn(i) :
          /\ c.live /\ (\A d \in CallsOn(i) : c = d)
          /\ c.effect \in OnRow => i \in DOMAIN shown' \/ page' \in {"AllGuests", "RoomTypes"}
          /\ Carried(c) /\ c.effect = "append" => i \notin DOMAIN shown'
      BY <2>1 DEF SingleGood
    <3> QED BY <2>2, <2>4, <2>5, <3>1, <3>2, <3>3 DEF SingleGood
  <2> QED BY <1>2, <2>6 DEF RowGood
<1> QED BY <1>1, <1>2

LEMMA MarkerHeld ==
    ASSUME TypeInv, page \in AllPages, page # "Notifications", NEW i \in Ids, NEW k \in Controls(page),
           ~Excused(k, i)
    PROVE  /\ k.guard # None /\ busy[k.guard] # None /\ busy[k.guard][1] = i
           /\ Disabled(k, i)
<1>1. PICK c \in CallsOn(i) :
         /\ c.effect # "append" /\ k.guard = c.marker /\ c.marker # None
         /\ busy[c.marker] = <<c.id, c.op>>
         /\ page = "TodaySummary" => c.op = k.op
  BY DEF Excused
<1>2. c.id = i /\ c.op \in Ops
  BY OnOwn
<1>3. <<i, c.op>> # None
  BY <1>2, RowPagesAssumption DEF Ids
<1>4. busy[k.guard] = <<i, c.op>>
  BY <1>1, <1>2
<1> QED BY <1>1, <1>3, <1>4 DEF Disabled

-----------------------------------------------------------------------------
(* Every step keeps what is known of the rows. *)

LEMMA SentRows ==
    ASSUME TypeInv, page \in AllPages, RowsGood, UNCHANGED <<page, tab, server, shown, twice, loading>>,
           NEW k \in Controls(page), NEW n, NEW c, calls' = calls \cup {c},
           c.effect = k.effect, c.op = k.op, c.op # "readAll", c.id = n, ~c.done, c.live,
           n \in Ids => n \in DOMAIN shown \/ page \in {"AllGuests", "RoomTypes"},
           doubt' = IF n # None /\ CallsOn(n) # {} /\ Excused(k, n) THEN doubt \cup {n} ELSE doubt,
           n \in Ids /\ page # "Notifications" => Excused(k, n)
    PROVE  RowsGood'
<1>1. SUFFICES ASSUME ~loading, NEW i \in Ids \ doubt' PROVE RowGood(i)'
  BY DEF RowsGood
<1>2. i \in Ids \ doubt /\ RowGood(i)
  BY <1>1, RowPagesAssumption DEF RowsGood
<1>3. CallsOn(i)' = CallsOn(i) \cup (IF n = i THEN {c} ELSE {})
  BY DEF CallsOn
<1>4. CASE n # i
  <2>1. CallsOn(i)' = CallsOn(i)
    BY <1>3, <1>4
  <2> QED BY <1>2, <2>1, RowKept
<1>5. CASE n = i /\ page = "Notifications"
  <2>1. NoticeGood(i)
    BY <1>2, <1>5 DEF RowGood
  <2>2. CallsOn(i)' = CallsOn(i) \cup {c} /\ ~Carried(c)
    BY <1>3, <1>5 DEF Carried
  <2>3. NoticeGood(i)'
    BY <2>1, <2>2 DEF NoticeGood, Carried
  <2> QED BY <1>5, <2>3 DEF RowGood
<1>6. CASE n = i /\ page # "Notifications"
  <2>1. SingleGood(i)
    BY <1>2, <1>6 DEF RowGood
  <2>2. Excused(k, i) /\ i # None
    BY <1>2, <1>6, RowPagesAssumption DEF Ids
  <2>3. CallsOn(i) = {}
    BY <1>1, <1>6, <2>2
  <2>4. CallsOn(i)' = {c} /\ ~Carried(c)
    BY <1>3, <1>6, <2>3 DEF Carried
  <2>5. Agree(i, i \in DOMAIN shown, shown[i])' /\ i \notin twice
    BY <2>1, <2>3 DEF SingleGood, Agree
  <2>6. SingleGood(i)'
    BY <1>2, <1>6, <2>4, <2>5 DEF SingleGood, Carried
  <2> QED BY <1>6, <2>6 DEF RowGood
<1> QED BY <1>4, <1>5, <1>6

LEMMA ClickRows ==
    ASSUME TypeInv, page \in AllPages, RowsGood, NEW k \in Controls(page), NEW i \in Ids, Click(k, i)
    PROVE  RowsGood'
<1>1. page # None /\ i # None
  BY RowPagesAssumption DEF Ids
<1>2. /\ i \in DOMAIN shown /\ ~Disabled(k, i)
      /\ UNCHANGED <<page, tab, server, shown, twice, loading>>
      /\ doubt' = IF i # None /\ CallsOn(i) # {} /\ Excused(k, i) THEN doubt \cup {i} ELSE doubt
  BY <1>1, ClickMakes
<1>3. PICK c : /\ calls' = calls \cup {c}
               /\ c.effect = k.effect /\ c.op = k.op /\ c.id = i /\ ~c.done /\ c.live
  BY <1>1, ClickMakes
<1>4. c.op # "readAll"
  BY <1>3 DEF Click
<1>5. page # "Notifications" => Excused(k, i)
  BY <1>2, MarkerHeld
<1> QED BY <1>2, <1>3, <1>4, <1>5, SentRows

(* The markers, and the covering modal, leave no second call on a row that *)
(* has no excuse.                                                          *)
LEMMA SubmitExcused ==
    ASSUME TypeInv, DialogGood, page \in AllPages, NEW k \in Controls(page), Submit(k),
           dialog.id \in Ids, page # "Notifications"
    PROVE  Excused(k, dialog.id)
<1>1. SUFFICES ASSUME ~Excused(k, dialog.id) PROVE FALSE
  OBVIOUS
<1>2. /\ dialog # None /\ dialog.op = k.op /\ ~dialog.sent
      /\ page = "AllGuests" \/ ~Disabled(k, dialog.id)
  <2>1. page # None
    BY RowPagesAssumption
  <2> QED BY <2>1, SubmitMakes
<1>3. /\ k.guard # None /\ busy[k.guard] # None /\ busy[k.guard][1] = dialog.id
      /\ Disabled(k, dialog.id)
  BY <1>1, MarkerHeld
<1>4. page = "AllGuests"
  BY <1>2, <1>3
<1>5. k.op # "ban"
  <2>1. ASSUME k.op = "ban" PROVE FALSE
    <3>1. k.guard = "acting"
      BY <1>4, <2>1, ControlKind
    <3> QED BY <1>2, <1>3, <1>4, <2>1, <3>1 DEF DialogGood
  <2> QED BY <2>1
<1>6. k.op # "loyalty"
  BY <1>3, <1>4, ControlKind
<1> QED BY <1>2, <1>4, <1>5, <1>6 DEF TypeInv, DialogTyped

LEMMA SubmitRows ==
    ASSUME TypeInv, DialogGood, page \in AllPages, RowsGood, NEW k \in Controls(page), Submit(k)
    PROVE  RowsGood'
<1>1. page # None
  BY RowPagesAssumption
<1>2. /\ dialog # None /\ dialog.op = k.op /\ ~dialog.sent
      /\ page = "AllGuests" \/ ~Disabled(k, dialog.id)
      /\ dialog.id \in Ids => dialog.id \in DOMAIN shown \/ page \in {"AllGuests", "RoomTypes"}
      /\ UNCHANGED <<page, tab, server, shown, twice, loading>>
      /\ doubt' = IF dialog.id # None /\ CallsOn(dialog.id) # {} /\ Excused(k, dialog.id)
                  THEN doubt \cup {dialog.id} ELSE doubt
      /\ k.op # "readAll"
  BY <1>1, SubmitMakes
<1>3. PICK c : /\ calls' = calls \cup {c}
               /\ c.effect = k.effect /\ c.op = k.op /\ c.id = dialog.id /\ ~c.done /\ c.live
  BY <1>1, SubmitMakes
<1>4. dialog.id \in Ids /\ page # "Notifications" => Excused(k, dialog.id)
  BY SubmitExcused
<1> QED BY <1>2, <1>3, <1>4, SentRows

(* What the answer will make of the list agrees with what the server has   *)
(* made of the row.                                                        *)
LEMMA ServedAgrees ==
    ASSUME TypeInv, NEW c, CallGood(page, c), c.effect \in OnRow, c.id \in Ids, page # "Notifications",
           Agree(c.id, c.id \in DOMAIN shown, shown[c.id]),
           c.id \in DOMAIN shown \/ page \in {"AllGuests", "RoomTypes"},
           NEW d, d.effect = c.effect, d.id = c.id, d.op = c.op, d.arg = c.arg,
           d.row = Served(c.op, server[c.id], c.arg), d.row # Refused,
           server'[c.id] = d.row, server[c.id] # None,
           UNCHANGED <<page, tab, shown>>
    PROVE  Agree(c.id, Present(d), RowAfter(d))'
<1>1. Kind(page, c.op, c.effect) /\ server[c.id] \in Row
  BY DEF CallGood, TypeInv, StateTyped, OnRow, Reads
<1>2. page \notin {"AllBookings", "PendingApprovals"} => tab = "all"
  BY DEF TypeInv, StateTyped
<1>3. CASE c.effect = "row"
  <2>1. Present(d)' = (c.id \in DOMAIN shown) /\ RowAfter(d)' = d.row
    BY <1>3 DEF Present, RowAfter
  <2>2. c.id \notin DOMAIN shown => ~Listed(page, tab, server[c.id])
    BY DEF Agree
  <2>3. c.id \in DOMAIN shown
    BY <1>2, <2>2 DEF Listed
  <2> QED BY <2>1, <2>3 DEF Agree
<1>4. CASE c.effect = "assume"
  <2>1. page \notin {"AllGuests", "RoomTypes"}
    BY <1>1, <1>4 DEF Kind
  <2>2. c.id \in DOMAIN shown /\ shown[c.id] \in Row
    BY <2>1 DEF TypeInv, StateTyped, IsList
  <2>3. Present(d)' = TRUE /\ RowAfter(d)' = Assumed(c.op, shown[c.id], c.arg)
    BY <1>4, <2>2 DEF Present, RowAfter
  <2>4. PICK s \in SUBSET Flags, n \in Nat : shown[c.id] = [st |-> s, rest |-> n]
    BY <2>2 DEF Row
  <2>5. \/ shown[c.id] = server[c.id]
        \/ /\ page = "TodaySummary" /\ shown[c.id].st = {"confirmed"}
           /\ server[c.id] = [shown[c.id] EXCEPT !.st = {"completed"}]
    BY <2>2 DEF Agree
  <2>6. \/ server'[c.id] = Assumed(c.op, shown[c.id], c.arg)
        \/ /\ page = "TodaySummary" /\ Assumed(c.op, shown[c.id], c.arg).st = {"confirmed"}
           /\ server'[c.id] = [Assumed(c.op, shown[c.id], c.arg) EXCEPT !.st = {"completed"}]
    <3>1. CASE page # "TodaySummary"
      <4>1. shown[c.id] = server[c.id] /\ c.op \in {"status", "cancel"}
        BY <1>1, <1>4, <2>5, <3>1 DEF Kind
      <4> QED BY <4>1 DEF Served, Assumed
    <3>2. CASE page = "TodaySummary" /\ c.op = "confirm"
      <4>1. /\ Assumed(c.op, shown[c.id], c.arg) = [shown[c.id] EXCEPT !.st = {"confirmed"}]
            /\ server'[c.id] = [server[c.id] EXCEPT !.st = {"confirmed"}]
        BY <3>2 DEF Served, Assumed
      <4> QED BY <2>4, <2>5, <4>1
    <3>3. CASE page = "TodaySummary" /\ c.op = "checkin"
      <4>1. /\ Assumed(c.op, shown[c.id], c.arg) = [shown[c.id] EXCEPT !.st = {"confirmed"}]
            /\ server[c.id].st = {"confirmed"}
            /\ server'[c.id] = [server[c.id] EXCEPT !.st = {"completed"}]
        BY <3>3 DEF Served, Assumed
      <4>2. {"completed"} # {"confirmed"}
        OBVIOUS
      <4>3. shown[c.id] = server[c.id]
        BY <2>4, <2>5, <4>1, <4>2
      <4> QED BY <2>4, <3>3, <4>1, <4>3
    <3> QED BY <1>1, <1>4, <3>1, <3>2, <3>3 DEF Kind
  <2> QED BY <2>3, <2>6 DEF Agree
<1>5. CASE c.effect = "drop"
  <2>1. Present(d)' = FALSE
    BY <1>5 DEF Present
  <2>2. Listed(page, tab, server'[c.id]) => page = "RoomsList" /\ "active" \notin server'[c.id].st
    <3>1. CASE c.op = "delete"
      BY <3>1 DEF Served, Listed
    <3>2. CASE c.op = "retire" /\ page = "RoomsList"
      <4>1. server'[c.id] = [server[c.id] EXCEPT !.st = @ \ {"active"}]
        BY <3>2 DEF Served
      <4>2. "active" \notin server'[c.id].st
        BY <1>1, <4>1 DEF Row
      <4> QED BY <3>2, <4>2
    <3>3. CASE c.op \in {"checkin", "checkout"} /\ page \in Desks
      <4>1. {"completed"} # {"confirmed"}
        OBVIOUS
      <4>2. server'[c.id].st = {"completed"}
        BY <1>1, <3>3 DEF Served, Row
      <4> QED BY <3>3, <4>1, <4>2 DEF Listed, Desks
    <3> QED BY <1>1, <1>5, <3>1, <3>2, <3>3 DEF Kind
  <2> QED BY <2>1, <2>2 DEF Agree
<1> QED BY <1>3, <1>4, <1>5 DEF OnRow

LEMMA MovedCallsOn ==
    ASSUME NEW cs, NEW j, NEW i \in Ids, \A x \in cs : CallGood(page, x), calls' = Moved(cs, j)
    PROVE  CallsOn(i)' = {x \in cs : x.id = i \/ x.op = "readAll"}
<1>1. \A x \in cs : x.effect \in Reads => x.id # i /\ x.op # "readAll"
  BY RowPagesAssumption DEF CallGood, Reads, Ids
<1>2. \A d \in calls' : CallGood(page, d) /\ \E c \in cs : Follows(c, d, j)
  <2>1. TAKE d \in calls'
  <2>2. d \in Moved(cs, j)
    OBVIOUS
  <2> QED BY <2>2, MovedGood
<1>3. \A d \in calls' : d.id = i \/ d.op = "readAll" => d \in cs
  BY <1>1, <1>2 DEF Follows
<1>4. \A c \in cs : c.effect \notin Reads => c \in calls'
  BY DEF Moved, Reads
<1> QED BY <1>1, <1>3, <1>4 DEF CallsOn

LEMMA ServeRows ==
    ASSUME TypeInv, page # None, RowsGood, NEW c \in calls, Serve(c)
    PROVE  RowsGood'
<1>1. StateTyped /\ CallGood(page, c)
  BY DEF TypeInv
<1>2. /\ c.effect \in OnRow /\ c.id \in Ids /\ ~c.done
      /\ \A i \in Ids \ {c.id} : server'[i] = server[i]
      /\ doubt' = IF c.live THEN doubt ELSE doubt \cup {c.id}
      /\ UNCHANGED <<page, tab, shown, twice, loading>>
  BY <1>1, ServeMakes
<1>3. PICK d :
         /\ calls' = Moved((calls \ {c}) \cup {d}, c.id) /\ CallGood(page, d)
         /\ d.done /\ (d.live = c.live) /\ d.effect = c.effect /\ d.op = c.op
         /\ d.id = c.id /\ d.arg = c.arg
         /\ d.row = Served(c.op, server[c.id], c.arg)
         /\ d.row \in Row \cup {None, Refused}
         /\ server[c.id] = None => d.row = Refused
         /\ server'[c.id] = IF d.row = Refused THEN server[c.id] ELSE d.row
  BY <1>1, ServeMakes
<1>4. SUFFICES ASSUME ~loading, NEW i \in Ids \ doubt' PROVE RowGood(i)'
  BY <1>2 DEF RowsGood
<1>5. i \in Ids /\ i \notin doubt /\ RowGood(i)
  BY <1>2, <1>4 DEF RowsGood
<1>6. CallsOn(i)' = {x \in (calls \ {c}) \cup {d} : x.id = i \/ x.op = "readAll"}
  <2>1. \A x \in (calls \ {c}) \cup {d} : CallGood(page, x)
    BY <1>3 DEF TypeInv
  <2> QED BY <1>3, <2>1, MovedCallsOn
<1>7. c.op # "readAll"
  BY <1>1, <1>2, Effects DEF OnRow, Reads
<1>8. CASE i # c.id
  <2>1. CallsOn(i)' = CallsOn(i)
    BY <1>3, <1>6, <1>7, <1>8 DEF CallsOn
  <2> QED BY <1>2, <1>5, <1>8, <2>1, RowKept
<1>9. CASE i = c.id /\ page # "Notifications"
  <2>1. SingleGood(i) /\ c \in CallsOn(i) /\ ~Carried(c)
    BY <1>2, <1>5, <1>9 DEF RowGood, CallsOn, Carried
  <2>2. CallsOn(i) = {c}
    BY <2>1 DEF SingleGood
  <2>3. CallsOn(i)' = {d}
    BY <1>3, <1>6, <1>7, <1>9, <2>2 DEF CallsOn
  <2>4. /\ Agree(i, i \in DOMAIN shown, shown[i]) /\ i \notin twice /\ c.live
        /\ i \in DOMAIN shown \/ page \in {"AllGuests", "RoomTypes"}
    BY <1>2, <2>1, <2>2 DEF SingleGood
  <2>5. CASE d.row = Refused
    <3>1. ~Carried(d) /\ server'[i] = server[i]
      BY <1>3, <1>9, <2>5 DEF Carried
    <3>2. Agree(i, i \in DOMAIN shown, shown[i])'
      BY <1>2, <2>4, <3>1 DEF Agree
    <3>3. d.live
      BY <1>3, <2>4
    <3> HIDE DEF Agree
    <3>4. SingleGood(i)'
      BY <1>2, <2>3, <2>4, <3>1, <3>2, <3>3 DEF SingleGood, Carried
    <3> QED BY <1>2, <1>9, <3>4 DEF RowGood
  <2>6. CASE d.row # Refused
    <3>1. Agree(i, Present(d), RowAfter(d))'
      BY <1>1, <1>2, <1>3, <1>9, <2>4, <2>6, ServedAgrees
    <3>2. Carried(d) /\ d.live /\ d.effect # "append"
      BY <1>2, <1>3, <2>4, <2>6 DEF Carried, OnRow
    <3>3. SingleGood(i)'
      BY <1>2, <2>3, <2>4, <3>1, <3>2 DEF SingleGood, Carried
    <3> QED BY <1>2, <1>9, <3>3 DEF RowGood
  <2> QED BY <2>5, <2>6
<1>10. CASE i = c.id /\ page = "Notifications"
  <2>1. NoticeGood(i) /\ c.op = "read"
    BY <1>1, <1>2, <1>5, <1>10 DEF RowGood, CallGood, Kind, OnRow, Reads
  <2>2. \A x \in CallsOn(i)' : x = d \/ x \in CallsOn(i)
    BY <1>6 DEF CallsOn
  <2>3. \A x \in CallsOn(i) : x # c => x \in CallsOn(i)'
    BY <1>6 DEF CallsOn
  <2>4. d \in CallsOn(i)'
    BY <1>3, <1>6, <1>10
  <2>5. CASE d.row = Refused
    <3>1. ~Carried(d) /\ ~Carried(c) /\ server'[i] = server[i]
      BY <1>2, <1>3, <1>10, <2>5 DEF Carried
    <3>2. NoticeGood(i)'
      BY <1>2, <2>1, <2>2, <2>3, <3>1 DEF NoticeGood, Carried
    <3> QED BY <1>2, <1>10, <3>2 DEF RowGood
  <2>6. CASE d.row # Refused
    <3>1. server[i] # None /\ server[i] \in Row
      BY <1>3, <1>5, <1>10, <2>6 DEF TypeInv, StateTyped
    <3>2. /\ server'[i] = d.row /\ d.row \in Row /\ d.row.rest = server[i].rest /\ d.row.st = {"read"}
          /\ server[i].st = {"read"} => d.row = server[i]
      BY <1>3, <1>10, <2>1, <2>6, <3>1, ReadServed
    <3>3. i \in DOMAIN shown /\ d.row # None
      BY <2>1, <3>1, <3>2, RowPagesAssumption DEF NoticeGood
    <3>4. c.live => Carried(d)
      BY <1>3, <2>6 DEF Carried
    <3>5. c.live
      BY <1>2, <1>4, <1>10
    <3>6. NoticeGood(i)'
      BY <1>2, <2>1, <2>2, <2>4, <3>1, <3>2, <3>3, <3>4, <3>5 DEF NoticeGood, Carried
    <3> QED BY <1>2, <1>10, <3>6 DEF RowGood
  <2> QED BY <2>5, <2>6
<1> QED BY <1>8, <1>9, <1>10

LEMMA ServeNewRows ==
    ASSUME TypeInv, page # None, RowsGood, NEW c \in calls, ServeNew(c)
    PROVE  RowsGood'
<1>1. StateTyped /\ CallGood(page, c) /\ NewRow \in Ids /\ NewRow # None
  BY RowPagesAssumption DEF TypeInv, Ids
<1>2. /\ server[NewRow] = None /\ CallsOn(NewRow) = {} /\ ~c.done /\ c.effect = "append"
      /\ \A i \in Ids \ {NewRow} : server'[i] = server[i]
      /\ doubt' = IF c.live THEN doubt ELSE doubt \cup {NewRow}
      /\ UNCHANGED <<page, tab, shown, twice, loading>>
  BY <1>1, ServeNewMakes
<1>3. PICK d :
         /\ calls' = Moved((calls \ {c}) \cup {d}, NewRow) /\ CallGood(page, d)
         /\ d.done /\ (d.live = c.live) /\ d.effect = "append" /\ d.op = "create"
         /\ d.id = NewRow /\ d.row \in Row /\ server'[NewRow] = d.row
  BY <1>1, ServeNewMakes
<1>4. SUFFICES ASSUME ~loading, NEW i \in Ids \ doubt' PROVE RowGood(i)'
  BY <1>2 DEF RowsGood
<1>5. i \in Ids /\ i \notin doubt /\ RowGood(i)
  BY <1>2, <1>4 DEF RowsGood
<1>6. CallsOn(i)' = {x \in (calls \ {c}) \cup {d} : x.id = i \/ x.op = "readAll"}
  <2>1. \A x \in (calls \ {c}) \cup {d} : CallGood(page, x)
    BY <1>3 DEF TypeInv
  <2> QED BY <1>3, <2>1, MovedCallsOn
<1>7. c.op = "create" /\ page # "Notifications" /\ c.id = None
  BY <1>1, <1>2 DEF CallGood, Kind, Reads
<1>8. i # None
  BY RowPagesAssumption DEF Ids
<1>9. CASE i # NewRow
  <2>1. CallsOn(i)' = CallsOn(i)
    BY <1>3, <1>6, <1>7, <1>8, <1>9 DEF CallsOn
  <2> QED BY <1>2, <1>5, <1>9, <2>1, RowKept
<1>10. CASE i = NewRow
  <2>1. SingleGood(i)
    BY <1>5, <1>7 DEF RowGood
  <2>2. CallsOn(i)' = {d}
    BY <1>2, <1>3, <1>6, <1>7, <1>8, <1>10 DEF CallsOn
  <2>3. Agree(i, i \in DOMAIN shown, shown[i]) /\ i \notin twice
    BY <1>2, <1>10, <2>1 DEF SingleGood
  <2>4. i \notin DOMAIN shown
    <3>1. SUFFICES ASSUME i \in DOMAIN shown PROVE FALSE
      OBVIOUS
    <3>2. shown[i] \in Row
      BY <3>1 DEF TypeInv, StateTyped, IsList
    <3>3. [shown[i] EXCEPT !.st = {"completed"}] \in Row
      BY <3>2 DEF Row, Flags
    <3> QED BY <1>2, <1>10, <2>3, <3>1, <3>2, <3>3, RowPagesAssumption DEF Agree
  <2>5. c.live
    BY <1>2, <1>4, <1>10
  <2>6. Carried(d) /\ d.live
    BY <1>3, <2>5, RowPagesAssumption DEF Carried
  <2>7. Present(d)' = TRUE /\ RowAfter(d)' = d.row
    BY <1>3 DEF Present, RowAfter
  <2>8. Agree(i, TRUE, d.row)'
    BY <1>3, <1>10 DEF Agree
  <2>9. d.effect \notin OnRow
    BY <1>3 DEF OnRow
  <2>10. SingleGood(i)'
    BY <1>2, <2>2, <2>3, <2>4, <2>6, <2>7, <2>8, <2>9 DEF SingleGood, Carried
  <2> QED BY <1>2, <1>7, <2>10 DEF RowGood
<1> QED BY <1>9, <1>10

LEMMA ServeAllRows ==
    ASSUME TypeInv, page # None, RowsGood, NEW c \in calls, ServeAll(c)
    PROVE  RowsGood'
<1>1. StateTyped /\ \A b \in calls : CallGood(page, b)
  BY DEF TypeInv
<1>2. /\ page = "Notifications" /\ ~c.done /\ c.op = "readAll"
      /\ \A i \in Ids : server[i] = None => server'[i] = None
      /\ \A i \in Ids : server[i] # None =>
            server'[i] # None /\ server'[i].rest = server[i].rest /\ server'[i].st = {"read"}
      /\ \A i \in Ids : server[i] # None /\ server[i].st = {"read"} => server'[i] = server[i]
      /\ doubt' = IF c.live THEN doubt ELSE Ids
      /\ UNCHANGED <<page, tab, shown, twice, loading>>
  BY <1>1, ServeAllMakes
<1>3. /\ \A b \in calls' : CallGood(page, b)
      /\ \A b \in calls' : b \in calls \/ b.effect \in Reads
            \/ (b.effect = "all" /\ b.done /\ (b.live = c.live) /\ b.op = "readAll" /\ b.row = None)
      /\ \E d \in calls' : d.effect = "all" /\ d.done /\ (d.live = c.live) /\ d.op = "readAll" /\ d.row = None
  BY <1>1, ServeAllMakes
<1>4. SUFFICES ASSUME ~loading, NEW i \in Ids \ doubt' PROVE RowGood(i)'
  BY <1>2 DEF RowsGood
<1>5. i \in Ids /\ i \notin doubt /\ NoticeGood(i) /\ c.live
  BY <1>2, <1>4 DEF RowsGood, RowGood
<1>6. \A b \in CallsOn(i)' : b \in CallsOn(i) \/ (b.done /\ b.live /\ b.op = "readAll" /\ b.row = None)
  <2>1. TAKE b \in CallsOn(i)'
  <2>2. b \in calls' /\ (b.id = i \/ b.op = "readAll")
    BY DEF CallsOn
  <2>3. b.effect \notin Reads
    BY <1>3, <2>2, RowPagesAssumption DEF CallGood, Reads, Ids
  <2> QED BY <1>3, <1>5, <2>2, <2>3 DEF CallsOn
<1>7. \E d \in CallsOn(i)' : Carried(d)
  BY <1>3, <1>5, RowPagesAssumption DEF CallsOn, Carried
<1>8. NoticeGood(i)'
  <2>1. \A b \in CallsOn(i)' : Carried(b) =>
          /\ i \in DOMAIN shown => server'[i].st = {"read"}
          /\ b.op = "read" => i \in DOMAIN shown /\ b.row = server'[i]
    <3>1. TAKE b \in CallsOn(i)'
    <3>2. HAVE Carried(b)
    <3>3. i \in DOMAIN shown => server'[i].st = {"read"}
      BY <1>2, <1>5 DEF NoticeGood
    <3>4. ASSUME b.op = "read" PROVE i \in DOMAIN shown /\ b.row = server'[i]
      <4>1. b \in CallsOn(i)
        BY <1>6, <3>4
      <4>2. i \in DOMAIN shown /\ b.row = server[i] /\ server[i].st = {"read"}
        BY <1>5, <3>2, <3>4, <4>1 DEF NoticeGood
      <4> QED BY <1>2, <1>5, <4>2 DEF NoticeGood
    <3> QED BY <3>3, <3>4
  <2>2. i \notin twice /\ (i \in DOMAIN shown <=> server'[i] # None)
        /\ (i \in DOMAIN shown => shown[i].rest = server'[i].rest)
    BY <1>2, <1>5 DEF NoticeGood
  <2> QED BY <1>2, <1>7, <2>1, <2>2 DEF NoticeGood, Carried
<1> QED BY <1>2, <1>8 DEF RowGood

LEMMA ElsewhereRows ==
    ASSUME TypeInv, RowsGood, NEW j \in Ids, Elsewhere(j)
    PROVE  RowsGood'
<1>1. /\ page # None /\ \A i \in Ids \ {j} : server'[i] = server[i]
      /\ calls' = Moved(calls, j) /\ doubt' = doubt \cup {j}
      /\ UNCHANGED <<page, tab, shown, twice, loading>>
  BY ElsewhereMakes DEF Elsewhere
<1>2. SUFFICES ASSUME ~loading, NEW i \in Ids \ doubt' PROVE RowGood(i)'
  BY <1>1 DEF RowsGood
<1>3. i \in Ids /\ i # j /\ RowGood(i)
  BY <1>1, <1>2 DEF RowsGood
<1>4. CallsOn(i)' = CallsOn(i)
  <2>1. \A x \in calls : CallGood(page, x)
    BY DEF TypeInv
  <2>2. CallsOn(i)' = {x \in calls : x.id = i \/ x.op = "readAll"}
    BY <1>1, <1>3, <2>1, MovedCallsOn
  <2> QED BY <2>2 DEF CallsOn
<1> QED BY <1>1, <1>3, <1>4, RowKept

(* Where only reads come and go. *)
LEMMA ReadsRows ==
    ASSUME TypeInv, page # None, RowsGood, UNCHANGED <<page, tab, server, shown, twice, loading>>,
           doubt \subseteq doubt', \A b \in calls' : CallGood(page, b),
           \A b \in calls' : b \in calls \/ b.effect \in Reads,
           \A b \in calls : b \in calls' \/ b.effect \in Reads
    PROVE  RowsGood'
<1>1. SUFFICES ASSUME ~loading, NEW i \in Ids \ doubt' PROVE RowGood(i)'
  BY DEF RowsGood
<1>2. i \in Ids /\ RowGood(i)
  BY <1>1 DEF RowsGood
<1>3. CallsOn(i)' = CallsOn(i)
  <2>1. \A b \in calls \cup calls' : b.effect \in Reads => b.id # i /\ b.op # "readAll"
    BY RowPagesAssumption DEF CallGood, Reads, Ids, TypeInv
  <2> QED BY <2>1 DEF CallsOn
<1> QED BY <1>2, <1>3, RowKept

LEMMA ListArrivesRows ==
    ASSUME TypeInv, ListsGood, page # None, NEW c \in calls, ListArrives(c)
    PROVE  RowsGood'
<1>1. /\ c.effect = "load" /\ c.done /\ calls' = calls \ {c} /\ shown' = c.list /\ twice' = {}
      /\ doubt' = c.moved \cup {d.id : d \in calls \ {c}} \cup (IF c.tab # tab THEN Ids ELSE {})
      /\ UNCHANGED <<page, tab, server>>
  BY DEF ListArrives
<1>2. SUFFICES ASSUME NEW i \in Ids \ doubt' PROVE RowGood(i)'
  BY DEF RowsGood
<1>3. /\ i \in Ids /\ i \notin c.moved /\ c.tab = tab
      /\ \A b \in CallsOn(i)' : b \in calls /\ b.op = "readAll"
  BY <1>1, <1>2 DEF CallsOn
<1>4. /\ i \in DOMAIN shown' <=> Listed(page, tab, server[i])
      /\ i \in DOMAIN shown' => shown'[i] = server[i]
  BY <1>1, <1>3 DEF ListsGood, ListGood
<1>5. CASE page = "Notifications"
  <2>1. tab = "all"
    BY <1>5 DEF TypeInv, StateTyped
  <2>2. i \in DOMAIN shown' <=> server[i] # None
    BY <1>4, <1>5, <2>1 DEF Listed
  <2>3. \A b \in CallsOn(i)' : Carried(b) /\ i \in DOMAIN shown' => server[i].st = {"read"}
    BY <1>3, <2>2 DEF ListsGood, AllRead, Carried
  <2>4. NoticeGood(i)'
    BY <1>1, <1>3, <1>4, <2>2, <2>3 DEF NoticeGood, Carried
  <2> QED BY <1>1, <1>5, <2>4 DEF RowGood
<1>6. CASE page # "Notifications"
  <2>1. CallsOn(i)' = {}
    <3>1. \A b \in CallsOn(i)' : b \in CallsOn(i)
      BY <1>3 DEF CallsOn
    <3> QED BY <1>3, <1>6, <3>1, OnOwn
  <2>2. Agree(i, i \in DOMAIN shown, shown[i])'
    BY <1>1, <1>4 DEF Agree
  <2>3. SingleGood(i)'
    BY <1>1, <2>1, <2>2 DEF SingleGood
  <2> QED BY <1>1, <1>6, <2>3 DEF RowGood
<1> QED BY <1>5, <1>6

LEMMA ListFailsRows ==
    ASSUME TypeInv, page # None, RowsGood, NEW c \in calls, ListFails(c)
    PROVE  RowsGood'
<1>1. CASE c.effect = "count"
  <2>1. UNCHANGED <<page, tab, server, shown, twice, loading, doubt>>
        /\ calls' = calls \ {c} /\ c.effect \in Reads
    BY <1>1 DEF ListFails, Reads
  <2> QED BY <2>1, ReadsRows DEF TypeInv
<1>2. CASE c.effect = "load"
  <2>1. doubt' = Ids
    BY <1>2 DEF ListFails
  <2> QED BY <2>1 DEF RowsGood
<1> QED BY <1>1, <1>2 DEF ListFails

LEMMA ReadAllRows ==
    ASSUME TypeInv, page # None, RowsGood, NEW k \in Controls(page), ReadAll(k)
    PROVE  RowsGood'
<1>1. PICK c : /\ calls' = calls \cup {c} /\ c.op = "readAll" /\ ~c.done
  BY ReadAllTyped
<1>2. page = "Notifications" /\ UNCHANGED <<page, tab, server, shown, twice, loading, doubt>>
  BY ReadAllTyped DEF ReadAll
<1>3. SUFFICES ASSUME ~loading, NEW i \in Ids \ doubt PROVE NoticeGood(i)'
  BY <1>2 DEF RowsGood, RowGood
<1>4. NoticeGood(i)
  BY <1>2, <1>3 DEF RowsGood, RowGood
<1>5. CallsOn(i)' = CallsOn(i) \cup {c} /\ ~Carried(c)
  BY <1>1 DEF CallsOn, Carried
<1> QED BY <1>2, <1>4, <1>5 DEF NoticeGood, Carried

(* An answer that arrives makes of the list what it promised. *)
LEMMA SucceedRows ==
    ASSUME TypeInv, page # None, RowsGood, NEW c \in calls, Succeed(c)
    PROVE  RowsGood'
<1>1. /\ CallGood(page, c) /\ IsList(shown) /\ c.effect \notin Reads /\ c.done /\ c.row # Refused
      /\ calls' = calls \ {c} /\ UNCHANGED <<page, tab, server, loading, doubt>>
  BY DEF TypeInv, StateTyped, Succeed, Reads
<1>2. SUFFICES ASSUME ~loading, NEW i \in Ids \ doubt PROVE RowGood(i)'
  BY <1>1 DEF RowsGood
<1>3. RowGood(i)
  BY <1>2, <1>1 DEF RowsGood
<1>4. CallsOn(i)' = CallsOn(i) \ {c}
  BY <1>1 DEF CallsOn
<1>5. c \in CallsOn(i) <=> (c.id = i \/ c.op = "readAll")
  BY DEF CallsOn
<1>6. CASE ~c.live
  <2>1. UNCHANGED <<shown, twice>> /\ ~Carried(c)
    BY <1>6 DEF Succeed, Carried
  <2>2. CASE page = "Notifications"
    <3>1. NoticeGood(i)
      BY <1>3, <2>2 DEF RowGood
    <3>2. NoticeGood(i)'
      BY <1>1, <1>4, <2>1, <3>1 DEF NoticeGood, Carried
    <3> QED BY <1>1, <2>2, <3>2 DEF RowGood
  <2>3. CASE page # "Notifications"
    <3>1. c \notin CallsOn(i)
      BY <1>3, <1>6, <2>3 DEF RowGood, SingleGood
    <3>2. CallsOn(i)' = CallsOn(i)
      BY <1>4, <3>1
    <3> QED BY <1>1, <1>3, <2>1, <3>2, RowKept
  <2> QED BY <2>2, <2>3
<1>7. CASE c.live /\ page = "Notifications"
  <2>1. NoticeGood(i) /\ Carried(c)
    BY <1>1, <1>3, <1>7 DEF RowGood, Carried
  <2>2. shown' = Patched(c) /\ twice' = twice \cap DOMAIN shown'
    BY <1>1, <1>7 DEF Succeed, CallGood, Kind
  <2>3. CASE c.op = "readAll"
    <3>1. c.effect = "all"
      BY <1>1, <2>3, Effects
    <3>2. /\ DOMAIN shown' = DOMAIN shown
          /\ \A j \in DOMAIN shown : shown'[j].rest = shown[j].rest /\ shown'[j].st = {"read"}
      BY <1>1, <2>2, <3>1, PatchedAll
    <3>3. i \in DOMAIN shown => server[i].st = {"read"}
      BY <1>5, <2>1, <2>3 DEF NoticeGood
    <3>4. NoticeGood(i)'
      BY <1>1, <1>4, <2>1, <2>2, <3>2, <3>3 DEF NoticeGood, Carried
    <3> QED BY <1>1, <1>7, <3>4 DEF RowGood
  <2>4. CASE c.op = "read"
    <3>1. c.effect = "row" /\ c.id \in Ids
      BY <1>1, <1>7, <2>4, Effects DEF CallGood, Kind, OnRow
    <3>2. /\ c.id \in DOMAIN shown' <=> Present(c)
          /\ Present(c) => shown'[c.id] = RowAfter(c)
          /\ \A j \in Ids \ {c.id} :
                /\ j \in DOMAIN shown' <=> j \in DOMAIN shown
                /\ j \in DOMAIN shown => shown'[j] = shown[j]
      BY <1>1, <2>2, <3>1, PatchedAt
    <3>3. CASE i # c.id
      <4>1. CallsOn(i)' = CallsOn(i)
        BY <1>4, <1>5, <2>4, <3>3
      <4> QED BY <1>1, <1>3, <2>2, <3>2, <3>3, <4>1, RowKept
    <3>4. CASE i = c.id
      <4>1. i \in DOMAIN shown /\ c.row = server[i] /\ server[i].st = {"read"}
        BY <1>5, <2>1, <2>4, <3>4 DEF NoticeGood
      <4>2. i \in DOMAIN shown' /\ shown'[i] = server[i]
        BY <3>1, <3>2, <3>4, <4>1 DEF Present, RowAfter
      <4>3. NoticeGood(i)'
        BY <1>1, <1>4, <2>1, <2>2, <4>1, <4>2 DEF NoticeGood, Carried
      <4> QED BY <1>1, <1>7, <4>3 DEF RowGood
    <3> QED BY <3>3, <3>4
  <2> QED BY <1>1, <1>7, <2>3, <2>4 DEF CallGood, Kind
<1>8. CASE c.live /\ page # "Notifications"
  <2>1. SingleGood(i) /\ Carried(c)
    BY <1>1, <1>3, <1>8 DEF RowGood, Carried
  <2>2. c.effect # "all" /\ c.op # "readAll" /\ c.id \in Ids
    BY <1>1, <1>8, Effects DEF CallGood, Kind
  <2>3. /\ shown' = Patched(c)
        /\ twice' = IF c.effect = "append" /\ c.id \in DOMAIN shown
                    THEN twice \cup {c.id} ELSE twice \cap DOMAIN shown'
    BY <1>8 DEF Succeed
  <2>4. /\ c.id \in DOMAIN shown' <=> Present(c)
        /\ Present(c) => shown'[c.id] = RowAfter(c)
        /\ \A j \in Ids \ {c.id} :
              /\ j \in DOMAIN shown' <=> j \in DOMAIN shown
              /\ j \in DOMAIN shown => shown'[j] = shown[j]
    BY <1>1, <2>2, <2>3, PatchedAt
  <2>5. CASE i # c.id
    <3>1. CallsOn(i)' = CallsOn(i)
      BY <1>4, <1>5, <2>2, <2>5
    <3>2. i \in twice' => i \in twice
      BY <2>3, <2>5
    <3> QED BY <1>1, <1>3, <2>4, <2>5, <3>1, <3>2, RowKept
  <2>6. CASE i = c.id
    <3>1. c \in CallsOn(i)
      BY <1>5, <2>6
    <3>2. CallsOn(i)' = {}
      BY <1>4, <2>1, <3>1 DEF SingleGood
    <3>3. Agree(i, Present(c), RowAfter(c)) /\ i \notin twice
          /\ (c.effect = "append" => i \notin DOMAIN shown)
      BY <2>1, <3>1 DEF SingleGood
    <3>4. i \notin twice'
      BY <2>3, <2>6, <3>3
    <3>5. Agree(i, i \in DOMAIN shown, shown[i])'
      BY <1>1, <2>4, <2>6, <3>3 DEF Agree
    <3>6. SingleGood(i)'
      BY <3>2, <3>4, <3>5 DEF SingleGood
    <3> QED BY <1>1, <1>8, <3>6 DEF RowGood
  <2> QED BY <2>5, <2>6
<1> QED BY <1>6, <1>7, <1>8

(* A failure changes no list; where the server had done the call, the row  *)
(* is in doubt.                                                            *)
LEMMA FailRows ==
    ASSUME TypeInv, page # None, RowsGood, NEW c \in calls, Fail(c)
    PROVE  RowsGood'
<1>1. /\ CallGood(page, c) /\ c.effect \notin Reads /\ calls' = calls \ {c}
      /\ doubt' = IF c.done /\ c.row # Refused
                  THEN doubt \cup (IF c.effect = "all" THEN Ids ELSE {c.id}) ELSE doubt
      /\ UNCHANGED <<page, tab, server, shown, twice, loading>>
  BY DEF TypeInv, Fail, Reads
<1>2. SUFFICES ASSUME ~loading, NEW i \in Ids \ doubt' PROVE RowGood(i)'
  BY <1>1 DEF RowsGood
<1>3. i \in Ids /\ RowGood(i)
  BY <1>1, <1>2 DEF RowsGood
<1>4. CallsOn(i)' = CallsOn(i) \ {c}
  BY <1>1 DEF CallsOn
<1>5. c \in CallsOn(i) => ~Carried(c)
  BY <1>1, <1>2, Effects DEF CallsOn, Carried
<1>6. CASE page = "Notifications"
  <2>1. NoticeGood(i)
    BY <1>3, <1>6 DEF RowGood
  <2>2. NoticeGood(i)'
    BY <1>1, <1>4, <1>5, <2>1 DEF NoticeGood, Carried
  <2> QED BY <1>1, <1>6, <2>2 DEF RowGood
<1>7. CASE page # "Notifications" /\ c \notin CallsOn(i)
  <2>1. CallsOn(i)' = CallsOn(i)
    BY <1>4, <1>7
  <2> QED BY <1>1, <1>3, <2>1, RowKept
<1>8. CASE page # "Notifications" /\ c \in CallsOn(i)
  <2>1. SingleGood(i)
    BY <1>3, <1>8 DEF RowGood
  <2>2. CallsOn(i) = {c}
    BY <1>8, <2>1 DEF SingleGood
  <2>3. CallsOn(i)' = {}
    BY <1>4, <2>2
  <2>4. Agree(i, i \in DOMAIN shown, shown[i])
    BY <1>5, <1>8, <2>1, <2>2 DEF SingleGood
  <2>5. Agree(i, i \in DOMAIN shown, shown[i])'
    BY <1>1, <2>4 DEF Agree
  <2>6. SingleGood(i)'
    BY <1>1, <2>1, <2>3, <2>5 DEF SingleGood
  <2> QED BY <1>1, <1>8, <2>6 DEF RowGood
<1> QED BY <1>6, <1>7, <1>8

-----------------------------------------------------------------------------
(* The invariant. *)

LEMMA InitRows ==
    ASSUME Init
    PROVE  RowsInv
<1>1. TypeInv
  BY InitTyped
<1>2. DialogGood /\ ListsGood /\ RowsGood
  BY DEF Init, DialogGood, ListsGood, RowsGood
<1> QED BY <1>1, <1>2 DEF RowsInv

LEMMA SomePage ==
    ASSUME TypeInv
    PROVE  /\ page # None <=> page \in AllPages
           /\ calls # {} \/ dialog # None => page # None
BY RowPagesAssumption DEF TypeInv, StateTyped

LEMMA EnterRows ==
    ASSUME RowsInv, NEW p \in Pages, Enter(p)
    PROVE  RowsInv'
<1>1. TypeInv' /\ \A c \in calls' : c.effect \in Reads /\ ~c.done
  BY EnterTyped
<1>2. DialogGood' /\ RowsGood'
  BY DEF Enter, Mounted, DialogGood, RowsGood
<1>3. ListsGood'
  BY <1>1 DEF ListsGood, ListGood, AllRead
<1> QED BY <1>1, <1>2, <1>3 DEF RowsInv

LEMMA ReturnRows ==
    ASSUME RowsInv, Return
    PROVE  RowsInv'
<1>1. /\ TypeInv' /\ page' = page /\ server' = server /\ ListsGood
      /\ \A d \in calls' :
            \/ d.effect \in Reads /\ ~d.done
            \/ \E c \in calls : /\ d.op = c.op /\ d.effect = c.effect /\ (d.done = c.done)
                                /\ c.effect \notin Reads
  BY ReturnTyped DEF RowsInv, Return
<1>2. DialogGood' /\ RowsGood'
  BY DEF Return, Mounted, DialogGood, RowsGood
<1>3. ListsGood'
  BY <1>1, ListsKept
<1> QED BY <1>1, <1>2, <1>3 DEF RowsInv

LEMMA AskRows ==
    ASSUME RowsInv, Retry \/ \E t \in {"all", "pending"} : ChooseTab(t)
    PROVE  RowsInv'
<1>1. PICK s, t : calls' = calls \cup {Reading(s, "load", t)}
  BY DEF Retry, ChooseTab
<1>2. /\ page \in {"AllGuests", "StaffAccounts", "AllBookings"}
      /\ UNCHANGED <<page, server, shown, twice, busy, dialog>> /\ loading' = TRUE
      /\ page # "AllBookings" => tab' = tab
  BY DEF Retry, ChooseTab
<1>3. TypeInv' /\ \A c \in calls' : c \in calls \/ (c.effect \in Reads /\ c.op \in Reads /\ ~c.done)
  BY <1>1, <1>2, AskTyped DEF RowsInv, AllPages
<1>4. DialogGood' /\ RowsGood'
  BY <1>2 DEF RowsInv, DialogGood, RowsGood
<1>5. ListsGood'
  BY <1>2, <1>3, ListsKept DEF RowsInv
<1> QED BY <1>3, <1>4, <1>5 DEF RowsInv

LEMMA DialogRows ==
    ASSUME RowsInv, UNCHANGED <<page, tab, server, shown, twice, loading, busy, calls, doubt>>,
           TypeInv', DialogGood'
    PROVE  RowsInv'
<1>1. ListsGood'
  BY ListsKept DEF RowsInv
<1>2. RowsGood'
  <2>1. page = None => RowsGood'
    BY DEF RowsGood
  <2>2. page # None => RowsGood'
    BY ReadsRows DEF RowsInv, TypeInv
  <2> QED BY <2>1, <2>2
<1> QED BY <1>1, <1>2 DEF RowsInv

LEMMA DismissRows ==
    ASSUME RowsInv, Dismiss
    PROVE  RowsInv'
<1>1. UNCHANGED <<page, tab, server, shown, twice, loading, busy, calls, doubt>> /\ dialog' = None
  BY DEF Dismiss
<1>2. TypeInv'
  <2>1. StateTyped'
    BY <1>1 DEF RowsInv, TypeInv, StateTyped, IsList
  <2>2. DialogTyped'
    BY <1>1 DEF DialogTyped
  <2> QED BY <1>1, <2>1, <2>2 DEF RowsInv, TypeInv
<1>3. DialogGood'
  BY <1>1 DEF DialogGood
<1> QED BY <1>1, <1>2, <1>3, DialogRows

LEMMA StutterRows ==
    ASSUME RowsInv, UNCHANGED vars
    PROVE  RowsInv'
<1>1. UNCHANGED <<page, tab, server, shown, twice, loading, busy, dialog, calls, doubt>>
  BY DEF vars
<1>2. TypeInv'
  <2>1. StateTyped'
    BY <1>1 DEF RowsInv, TypeInv, StateTyped, IsList
  <2>2. DialogTyped'
    BY <1>1 DEF RowsInv, TypeInv, DialogTyped
  <2> QED BY <1>1, <2>1, <2>2 DEF RowsInv, TypeInv
<1>3. DialogGood'
  BY <1>1 DEF RowsInv, DialogGood
<1> QED BY <1>1, <1>2, <1>3, DialogRows

(* What a control does. *)
LEMMA ControlRows ==
    ASSUME RowsInv, page # None, NEW k \in Controls(page),
           \/ Submit(k) \/ ReadAll(k) \/ OpenDialog(k, None)
           \/ \E i \in Ids : Click(k, i) \/ OpenDialog(k, i)
    PROVE  RowsInv'
<1> USE DEF RowsInv
<1>1. page \in AllPages
  BY SomePage
<1>2. CASE Submit(k)
  <2>1. TypeInv' /\ \A c \in calls' : c \in calls \/ (c.effect \notin Reads /\ ~c.done)
    BY <1>2, SubmitTyped
  <2>2. server' = server /\ page' = page
    BY <1>2 DEF Submit
  <2>3. ListsGood'
    BY <2>1, <2>2, ListsKept
  <2>4. DialogGood' /\ RowsGood'
    BY <1>1, <1>2, SubmitGood, SubmitRows
  <2> QED BY <2>1, <2>3, <2>4
<1>3. CASE ReadAll(k)
  <2>1. PICK c : calls' = calls \cup {c} /\ ~c.done
    BY <1>3, ReadAllTyped
  <2>2. UNCHANGED <<page, server, dialog, busy>>
    BY <1>3 DEF ReadAll
  <2>3. ListsGood'
    BY <2>1, <2>2, ListsKept
  <2>4. DialogGood'
    BY <2>2 DEF DialogGood
  <2> QED BY <1>3, <2>3, <2>4, ReadAllTyped, ReadAllRows
<1>4. ASSUME NEW i, OpenDialog(k, i) PROVE RowsInv'
  <2>1. UNCHANGED <<page, tab, server, shown, twice, loading, busy, calls, doubt>>
    BY <1>4 DEF OpenDialog
  <2>2. TypeInv' /\ DialogGood'
    BY <1>4, OpenDialogTyped, OpenDialogGood
  <2> QED BY <2>1, <2>2, DialogRows
<1>5. ASSUME NEW i \in Ids, Click(k, i) PROVE RowsInv'
  <2>1. TypeInv' /\ \A c \in calls' : c \in calls \/ (c.effect \notin Reads /\ ~c.done)
    BY <1>5, ClickTyped
  <2>2. UNCHANGED <<page, server, dialog>> /\ (page = "AllGuests" => dialog = None)
    BY <1>5, ClickMakes
  <2>3. ListsGood'
    BY <2>1, <2>2, ListsKept
  <2>4. DialogGood'
    BY <2>2 DEF DialogGood
  <2> QED BY <1>1, <1>5, <2>1, <2>3, <2>4, ClickRows
<1> QED BY <1>2, <1>3, <1>4, <1>5

(* What happens to a call. *)
LEMMA CallRows ==
    ASSUME RowsInv, NEW c \in calls,
           \/ ServeList(c) \/ Serve(c) \/ ServeNew(c) \/ ServeAll(c)
           \/ ListArrives(c) \/ CountArrives(c) \/ ListFails(c) \/ Succeed(c) \/ Fail(c)
    PROVE  RowsInv'
<1> USE DEF RowsInv
<1>1. page # None
  BY SomePage
<1>2. CASE Serve(c)
  <2>1. DialogGood'
    BY <1>2 DEF Serve, DialogGood
  <2> QED BY <1>1, <1>2, <2>1, ServeTyped, ServeLists, ServeRows
<1>3. CASE ServeNew(c)
  <2>1. DialogGood'
    BY <1>3 DEF ServeNew, DialogGood
  <2> QED BY <1>1, <1>3, <2>1, ServeNewTyped, ServeNewLists, ServeNewRows
<1>4. CASE ServeAll(c)
  <2>1. DialogGood'
    BY <1>4 DEF ServeAll, DialogGood
  <2> QED BY <1>1, <1>4, <2>1, ServeAllTyped, ServeAllLists, ServeAllRows
<1>5. CASE ServeList(c)
  <2>1. DialogGood'
    BY <1>5 DEF ServeList, DialogGood
  <2>2. RowsGood'
    <3>1. CallGood(page, c) /\ c.effect \in Reads
      BY <1>5 DEF TypeInv, ServeList, Reads
    <3>2. PICK d : calls' = (calls \ {c}) \cup {d} /\ CallGood(page, d) /\ d.effect = c.effect
      BY <1>5, <3>1, ServeListMakes
    <3>3. UNCHANGED <<page, tab, server, shown, twice, loading, doubt>>
      BY <1>5 DEF ServeList
    <3> QED BY <1>1, <3>1, <3>2, <3>3, ReadsRows DEF TypeInv
  <2> QED BY <1>1, <1>5, <2>1, <2>2, ServeListTyped, ServeListLists
<1>6. CASE ListArrives(c)
  <2>1. DialogGood' /\ page' = page /\ server' = server /\ calls' \subseteq calls
    BY <1>6 DEF ListArrives, DialogGood
  <2>2. ListsGood'
    BY <2>1, ListsKept
  <2>3. TypeInv'
    BY <1>1, <1>6, ListArrivesTyped DEF ListsGood
  <2> QED BY <1>1, <1>6, <2>1, <2>2, <2>3, ListArrivesRows
<1>7. CASE CountArrives(c)
  <2>1. /\ DialogGood' /\ calls' = calls \ {c} /\ c.effect \in Reads
        /\ UNCHANGED <<page, tab, server, shown, twice, loading, doubt>>
    BY <1>7 DEF CountArrives, DialogGood, Reads
  <2>2. ListsGood'
    BY <2>1, ListsKept
  <2>3. TypeInv'
    BY <1>1, <1>7, CountArrivesTyped
  <2>4. RowsGood'
    BY <1>1, <2>1, ReadsRows DEF TypeInv
  <2> QED BY <2>1, <2>2, <2>3, <2>4
<1>8. CASE ListFails(c)
  <2>1. DialogGood' /\ page' = page /\ server' = server /\ calls' \subseteq calls
    BY <1>8 DEF ListFails, DialogGood
  <2>2. ListsGood'
    BY <2>1, ListsKept
  <2> QED BY <1>1, <1>8, <2>1, <2>2, ListFailsTyped, ListFailsRows
<1>9. CASE Succeed(c)
  <2>1. /\ page' = page /\ server' = server /\ calls' \subseteq calls
        /\ (busy' = busy /\ dialog' = dialog) \/ (busy' = Freed(c) /\ dialog' \in {dialog, None})
    BY <1>9 DEF Succeed
  <2>2. DialogGood'
    BY <2>1, FreedGood DEF DialogGood, TypeInv
  <2>3. ListsGood'
    BY <2>1, ListsKept
  <2> QED BY <1>1, <1>9, <2>2, <2>3, SucceedTyped, SucceedRows
<1>10. CASE Fail(c)
  <2>1. /\ page' = page /\ server' = server /\ calls' \subseteq calls
        /\ (busy' = busy /\ dialog' = dialog) \/ (busy' = Freed(c) /\ dialog' \in {dialog, None})
    BY <1>10 DEF Fail
  <2>2. DialogGood'
    BY <2>1, FreedGood DEF DialogGood, TypeInv
  <2>3. ListsGood'
    BY <2>1, ListsKept
  <2> QED BY <1>1, <1>10, <2>2, <2>3, FailTyped, FailRows
<1> QED BY <1>2, <1>3, <1>4, <1>5, <1>6, <1>7, <1>8, <1>9, <1>10

LEMMA ElsewhereInv ==
    ASSUME RowsInv, NEW i \in Ids, Elsewhere(i)
    PROVE  RowsInv'
<1>1. DialogGood'
  BY DEF Elsewhere, RowsInv, DialogGood
<1> QED BY <1>1, ElsewhereMakes, ElsewhereLists, ElsewhereRows DEF RowsInv

LEMMA StepRows ==
    ASSUME RowsInv, [Next]_vars
    PROVE  RowsInv'
BY EnterRows, ReturnRows, AskRows, DismissRows, ElsewhereInv, ControlRows, CallRows, StutterRows
   DEF Next

THEOREM RowsAlwaysInv == Spec => []RowsInv
<1>1. Init => RowsInv
  BY InitRows
<1>2. RowsInv /\ [Next]_vars => RowsInv'
  BY StepRows
<1> QED BY <1>1, <1>2, PTL DEF Spec

(* A row the list shows is the server's, every row of the list is shown and *)
(* none twice, except where a call on it is in flight or a reason for doubt *)
(* is known (RowsExplained): whatever the page, its rows, the calls at once *)
(* and their number.                                                        *)
THEOREM RowsAlwaysExplained == Spec => []RowsExplained
<1>1. RowsInv => RowsExplained
  <2>1. SUFFICES ASSUME RowsInv, page # None, ~loading, NEW i \in Ids \ doubt, CallsOn(i) = {}
        PROVE  /\ i \in DOMAIN shown =>
                     \/ shown[i] = server[i]
                     \/ /\ page = "TodaySummary" /\ shown[i].st = {"confirmed"}
                        /\ server[i] # None /\ server[i].st = {"completed"}
               /\ Listed(page, tab, server[i]) =>
                     i \in DOMAIN shown \/ (page = "RoomsList" /\ "active" \notin server[i].st)
               /\ i \notin twice
    BY DEF RowsExplained
  <2>2. RowGood(i)
    BY <2>1 DEF RowsInv, RowsGood
  <2>3. CASE page # "Notifications"
    <3>1. Agree(i, i \in DOMAIN shown, shown[i]) /\ i \notin twice
      BY <2>1, <2>2, <2>3 DEF RowGood, SingleGood
    <3>2. i \in DOMAIN shown => shown[i] \in Row
      BY <2>1 DEF RowsInv, TypeInv, StateTyped, IsList
    <3>3. ASSUME i \in DOMAIN shown
          PROVE  /\ [shown[i] EXCEPT !.st = {"completed"}] \in Row
                 /\ [shown[i] EXCEPT !.st = {"completed"}].st = {"completed"}
      BY <3>2, <3>3 DEF Row, Flags
    <3> QED BY <3>1, <3>3, RowPagesAssumption DEF Agree
  <2>4. CASE page = "Notifications"
    <3>1. NoticeGood(i)
      BY <2>2, <2>4 DEF RowGood
    <3>2. /\ i \notin twice /\ (i \in DOMAIN shown <=> server[i] # None)
          /\ i \in DOMAIN shown => shown[i].rest = server[i].rest /\ shown[i].st = server[i].st
      BY <2>1, <3>1 DEF NoticeGood
    <3>3. i \in DOMAIN shown => shown[i] \in Row /\ server[i] \in Row
      BY <2>1, <3>2 DEF RowsInv, TypeInv, StateTyped, IsList
    <3>4. \A r1, r2 \in Row : r1.st = r2.st /\ r1.rest = r2.rest => r1 = r2
      BY DEF Row
    <3>5. i \in DOMAIN shown => shown[i] = server[i]
      BY <3>2, <3>3, <3>4
    <3> QED BY <3>2, <3>5 DEF Listed
  <2> QED BY <2>3, <2>4
<1> QED BY <1>1, RowsAlwaysInv, PTL

-----------------------------------------------------------------------------
(* What a click means.  A call sent on a row that was not in doubt, with no *)
(* other call on it, still finds the row as the click saw it: the invariant *)
(* adds that to what is known of the rows.                                  *)

(* Calls are told apart by their slots. *)
Apart(cs) == \A c, d \in cs : c.slot = d.slot => c = d

(* While a list is read no dialog is about a row the list shows. *)
DialogsApart ==
    /\ page = "TodaySummary" => dialog = None
    /\ page \in {"AllGuests", "StaffAccounts"} => \A c \in calls : c.effect # "append"
    /\ loading /\ page \notin {"AllBookings", "PendingApprovals"} /\ dialog # None /\ dialog.id # None =>
          page \in {"AllGuests", "StaffAccounts"} /\ DOMAIN shown = {}

(* The server has the row as the click saw it; or, a notification, up to    *)
(* its being read; or TodaySummary showed it wrongly.                       *)
SureGood(c) ==
    c.effect \in OnRow /\ ~c.done /\ c.live /\ c.sure /\ c.id \notin doubt =>
        /\ page # "Notifications" =>
              /\ \A d \in CallsOn(c.id) : d = c
              /\ \/ server[c.id] = c.was
                 \/ page = "TodaySummary" /\ c.op = "checkin" /\ server[c.id].st = {"completed"}
        /\ page = "Notifications" =>
              server[c.id] \in Row /\ c.was \in Row /\ server[c.id].rest = c.was.rest

SureInv == Apart(calls) /\ DialogsApart /\ \A c \in calls : SureGood(c)

(* Where a call that is done comes from: it was, or is a list or one of     *)
(* all, or has been served in this step.                                    *)
Traced ==
    \A d \in calls' : d.done => \E e \in calls :
        /\ e.slot = d.slot
        /\ e.done \/ e.effect \notin OnRow \/ d.row = Served(e.op, server[e.id], e.arg)

LEMMA ApartMoved ==
    ASSUME NEW cs, Apart(cs), NEW i, \A c \in cs : Shaped(c)
    PROVE  /\ Apart(Moved(cs, i))
           /\ \A d \in Moved(cs, i) : \E c \in cs : /\ d.slot = c.slot /\ (d.done = c.done)
                                                    /\ d.row = c.row /\ d.effect = c.effect
<1>1. ASSUME NEW d \in Moved(cs, i)
      PROVE  \E c \in cs : /\ d = IF c.effect \in Reads /\ c.done
                                  THEN [c EXCEPT !.moved = c.moved \cup {i}] ELSE c
                           /\ d.slot = c.slot /\ (d.done = c.done)
                           /\ d.row = c.row /\ d.effect = c.effect
  <2>1. PICK c \in cs : d = IF c.effect \in Reads /\ c.done
                            THEN [c EXCEPT !.moved = c.moved \cup {i}] ELSE c
    BY <1>1 DEF Moved, Reads
  <2>2. CASE c.effect \in Reads /\ c.done
    <3>1. d = [c EXCEPT !.moved = c.moved \cup {i}] /\ Shaped(c)
      BY <2>1, <2>2
    <3>2. d.slot = c.slot /\ d.done = c.done /\ d.row = c.row /\ d.effect = c.effect
      BY <3>1, MovedCall
    <3> QED BY <2>1, <3>2
  <2>3. CASE ~(c.effect \in Reads /\ c.done)
    BY <2>1, <2>3
  <2> QED BY <2>2, <2>3
<1>2. ASSUME NEW d1 \in Moved(cs, i), NEW d2 \in Moved(cs, i), d1.slot = d2.slot
      PROVE  d1 = d2
  <2>1. PICK c1 \in cs : /\ d1 = IF c1.effect \in Reads /\ c1.done
                                 THEN [c1 EXCEPT !.moved = c1.moved \cup {i}] ELSE c1
                         /\ d1.slot = c1.slot
    BY <1>1
  <2>2. PICK c2 \in cs : /\ d2 = IF c2.effect \in Reads /\ c2.done
                                 THEN [c2 EXCEPT !.moved = c2.moved \cup {i}] ELSE c2
                         /\ d2.slot = c2.slot
    BY <1>1
  <2>3. c1 = c2
    BY <1>2, <2>1, <2>2 DEF Apart
  <2> QED BY <2>1, <2>2, <2>3
<1> QED BY <1>1, <1>2 DEF Apart

(* The four ways the calls in flight change. *)
LEMMA FewerTraced ==
    ASSUME Apart(calls), calls' \subseteq calls
    PROVE  Apart(calls') /\ Traced
BY DEF Apart, Traced

LEMMA OneMoreTraced ==
    ASSUME Apart(calls), NEW n, calls' = calls \cup {n}, \A c \in calls : c.slot # n.slot, ~n.done
    PROVE  Apart(calls') /\ Traced
BY DEF Apart, Traced

LEMMA ReplacedTraced ==
    ASSUME Apart(calls), NEW c \in calls, NEW d, d.slot = c.slot, calls' = (calls \ {c}) \cup {d},
           c.effect \notin OnRow
    PROVE  Apart(calls') /\ Traced
BY DEF Apart, Traced

LEMMA ServedTraced ==
    ASSUME TypeInv, Apart(calls), NEW c \in calls, NEW d, CallGood(page, d), d.slot = c.slot, NEW i,
           calls' = Moved((calls \ {c}) \cup {d}, i),
           c.effect \notin OnRow \/ d.row = Served(c.op, server[c.id], c.arg)
    PROVE  Apart(calls') /\ Traced
<1> DEFINE cs == (calls \ {c}) \cup {d}
<1>1. Apart(cs) /\ \A x \in cs : Shaped(x)
  BY DEF Apart, TypeInv, CallGood
<1>2. calls' = Moved(cs, i)
  OBVIOUS
<1> HIDE DEF cs
<1>3. /\ Apart(calls')
      /\ \A b \in calls' : \E x \in cs : b.slot = x.slot /\ (b.done = x.done) /\ b.row = x.row
  <2>1. /\ Apart(Moved(cs, i))
        /\ \A b \in Moved(cs, i) : \E x \in cs : b.slot = x.slot /\ (b.done = x.done) /\ b.row = x.row
    <3>1. Apart(cs) /\ \A x \in cs : Shaped(x)
      BY <1>1
    <3> QED BY ONLY <3>1, ApartMoved
  <2> QED BY ONLY <1>2, <2>1
<1>4. ASSUME NEW b \in calls', b.done
      PROVE  \E e \in calls :
                /\ e.slot = b.slot
                /\ e.done \/ e.effect \notin OnRow \/ b.row = Served(e.op, server[e.id], e.arg)
  <2>1. PICK x \in cs : b.slot = x.slot /\ (b.done = x.done) /\ b.row = x.row
    BY <1>3, <1>4
  <2>2. x \in calls \/ x = d
    BY <2>1 DEF cs
  <2> QED BY <1>4, <2>1, <2>2
<1> QED BY <1>3, <1>4 DEF Traced

LEMMA AllServedTraced ==
    ASSUME TypeInv, Apart(calls), NEW c \in calls, ServeAll(c)
    PROVE  Apart(calls') /\ Traced
<1>1. PICK d : d = [c EXCEPT !.done = TRUE]
  OBVIOUS
<1>2. /\ calls' = {IF b.effect = "load" /\ b.done THEN [b EXCEPT !.moved = Ids] ELSE b
                   : b \in (calls \ {c}) \cup {d}}
      /\ c.effect \notin OnRow
  BY <1>1 DEF ServeAll, OnRow
<1>3. Shaped(d) /\ d.slot = c.slot /\ \A b \in calls : Shaped(b)
  <2>1. \A b \in calls : Shaped(b)
    BY DEF TypeInv, CallGood
  <2>2. Shaped(c)
    BY <2>1
  <2> QED BY <1>1, <2>1, <2>2, DoneCall
<1> DEFINE cs == (calls \ {c}) \cup {d}
<1>4. Apart(cs) /\ \A x \in cs : Shaped(x)
  BY <1>3 DEF Apart
<1>5. ASSUME NEW b \in calls'
      PROVE  \E x \in cs : /\ b = IF x.effect = "load" /\ x.done THEN [x EXCEPT !.moved = Ids] ELSE x
                           /\ b.slot = x.slot /\ (b.done = x.done)
  <2>1. PICK x \in cs : b = IF x.effect = "load" /\ x.done THEN [x EXCEPT !.moved = Ids] ELSE x
    BY <1>2, <1>5
  <2>2. CASE x.effect = "load" /\ x.done
    <3>1. b = [x EXCEPT !.moved = Ids] /\ Shaped(x)
      BY <1>4, <2>1, <2>2
    <3>2. b.slot = x.slot /\ b.done = x.done
      BY <3>1, MovedCall
    <3> QED BY <2>1, <3>2
  <2>3. CASE ~(x.effect = "load" /\ x.done)
    BY <2>1, <2>3
  <2> QED BY <2>2, <2>3
<1>6. ASSUME NEW b1 \in calls', NEW b2 \in calls', b1.slot = b2.slot
      PROVE  b1 = b2
  <2>1. PICK x1 \in cs :
           /\ b1 = IF x1.effect = "load" /\ x1.done THEN [x1 EXCEPT !.moved = Ids] ELSE x1
           /\ b1.slot = x1.slot
    BY <1>5
  <2>2. PICK x2 \in cs :
           /\ b2 = IF x2.effect = "load" /\ x2.done THEN [x2 EXCEPT !.moved = Ids] ELSE x2
           /\ b2.slot = x2.slot
    BY <1>5
  <2>3. x1 = x2
    BY <1>4, <1>6, <2>1, <2>2 DEF Apart
  <2> QED BY <2>1, <2>2, <2>3
<1>7. ASSUME NEW b \in calls', b.done
      PROVE  \E e \in calls : e.slot = b.slot /\ (e.done \/ e.effect \notin OnRow)
  <2>1. PICK x \in cs : b.slot = x.slot /\ (b.done = x.done)
    BY <1>5
  <2>2. x \in calls \/ x = d
    BY <2>1
  <2> QED BY <1>2, <1>3, <1>7, <2>1, <2>2
<1> QED BY <1>6, <1>7 DEF Apart, Traced

(* The calls a visit begins with, next to those of the last one. *)
LEMMA MountedTraced ==
    ASSUME NEW p, NEW kept, Mounted(p, kept), Apart(kept)
    PROVE  /\ Apart(calls')
           /\ \A c \in calls' : c \in kept \/ (c.effect \in Reads /\ ~c.done)
<1>1. PICK s, r \in {x \in Slots : \A c \in kept : c.slot # x} :
         /\ s # r <=> p \in {"AllBookings", "PendingApprovals"}
         /\ calls' = kept \cup {Reading(s, "load", tab')}
              \cup (IF p \in {"AllBookings", "PendingApprovals"}
                    THEN {Reading(r, "count", "all")} ELSE {})
  BY DEF Mounted
<1>2. PICK a, b : a = Reading(s, "load", tab') /\ b = Reading(r, "count", "all")
  OBVIOUS
<1>3. /\ a.slot = s /\ ~a.done /\ a.effect = "load"
      /\ b.slot = r /\ ~b.done /\ b.effect = "count"
  BY <1>2, ReadingGood DEF Reads
<1>4. calls' = IF p \in {"AllBookings", "PendingApprovals"} THEN kept \cup {a, b} ELSE kept \cup {a}
  BY <1>1, <1>2
<1> HIDE DEF Reading
<1>5. \A c \in calls' : c \in kept \/ (c.effect \in Reads /\ ~c.done)
  BY <1>3, <1>4 DEF Reads
<1>6. Apart(calls')
  BY <1>1, <1>3, <1>4 DEF Apart
<1> QED BY <1>5, <1>6

LEMMA ReturnTraced ==
    ASSUME TypeInv, Apart(calls), Return
    PROVE  /\ Apart(calls') /\ Traced
           /\ \A d \in calls' : d.effect \in Reads \/ (~d.live /\ \E c \in calls : d.effect = c.effect)
<1> DEFINE kept == {[c EXCEPT !.live = FALSE] : c \in {d \in calls : d.effect \notin {"load", "count"}}}
<1>1. Mounted(page, kept)
  BY DEF Return
<1>2. ASSUME NEW d \in kept
      PROVE  \E c \in calls : /\ d = [c EXCEPT !.live = FALSE] /\ d.slot = c.slot /\ (d.done = c.done)
                              /\ d.live = FALSE /\ d.effect = c.effect
  <2>1. PICK c \in calls : d = [c EXCEPT !.live = FALSE]
    BY <1>2
  <2>2. Shaped(c)
    BY DEF TypeInv, CallGood
  <2>3. d.slot = c.slot /\ (d.done = c.done) /\ d.live = FALSE /\ d.effect = c.effect
    BY <2>1, <2>2, DeadCall
  <2> QED BY <2>1, <2>3
<1> HIDE DEF kept
<1>3. Apart(kept)
  <2>1. ASSUME NEW d1 \in kept, NEW d2 \in kept, d1.slot = d2.slot PROVE d1 = d2
    <3>1. PICK c1 \in calls : d1 = [c1 EXCEPT !.live = FALSE] /\ d1.slot = c1.slot
      BY <1>2
    <3>2. PICK c2 \in calls : d2 = [c2 EXCEPT !.live = FALSE] /\ d2.slot = c2.slot
      BY <1>2
    <3>3. c1 = c2
      BY <2>1, <3>1, <3>2 DEF Apart
    <3> QED BY <3>1, <3>2, <3>3
  <2> QED BY <2>1 DEF Apart
<1>4. Apart(calls') /\ \A c \in calls' : c \in kept \/ (c.effect \in Reads /\ ~c.done)
  BY <1>1, <1>3, MountedTraced
<1>5. Traced
  <2>1. ASSUME NEW d \in calls', d.done PROVE \E e \in calls : e.slot = d.slot /\ e.done
    BY <1>2, <1>4, <2>1
  <2> QED BY <2>1 DEF Traced
<1> QED BY <1>2, <1>4, <1>5

-----------------------------------------------------------------------------
(* A call goes on being good where its row does not move and no other call  *)
(* on it comes.                                                             *)
LEMMA SureKept ==
    ASSUME NEW c, SureGood(c), page' = page, c.id \notin doubt' => c.id \notin doubt,
           server'[c.id] = server[c.id],
           page # "Notifications" => CallsOn(c.id)' \subseteq CallsOn(c.id)
    PROVE  SureGood(c)'
BY DEF SureGood

(* The dialogs of the pages. *)
LEMMA ControlsApart ==
    ASSUME NEW p \in AllPages, NEW k \in Controls(p)
    PROVE  /\ p \in {"AllGuests", "StaffAccounts"} => k.effect # "append"
           /\ p = "TodaySummary" => k.op \in {"confirm", "checkin"} /\ k.effect = "assume" /\ ~k.asks
BY DEF Controls, GuestControls, StaffControls, TodayControls, Control, AllPages

(* A call of a row that is one of the page's controls' is sure only when    *)
(* the list shows what the server has.                                      *)
LEMMA SureWhenSent ==
    ASSUME TypeInv, page # None, RowsGood, NEW i \in Ids \ doubt, ~loading, CallsOn(i) = {},
           i \in DOMAIN shown
    PROVE  /\ page # "Notifications" =>
                 \/ shown[i] = server[i]
                 \/ page = "TodaySummary" /\ shown[i].st = {"confirmed"} /\ server[i].st = {"completed"}
           /\ page = "Notifications" =>
                 shown[i] \in Row /\ server[i] \in Row /\ server[i].rest = shown[i].rest
<1>1. RowGood(i)
  BY DEF RowsGood
<1>2. shown[i] \in Row /\ (server[i] = None \/ server[i] \in Row)
  BY DEF TypeInv, StateTyped, IsList
<1>3. CASE page # "Notifications"
  <2>1. Agree(i, i \in DOMAIN shown, shown[i])
    BY <1>1, <1>3 DEF RowGood, SingleGood
  <2>2. [shown[i] EXCEPT !.st = {"completed"}].st = {"completed"}
    BY <1>2 DEF Row
  <2> QED BY <1>3, <2>1, <2>2 DEF Agree
<1>4. CASE page = "Notifications"
  BY <1>1, <1>2, <1>4 DEF RowGood, NoticeGood
<1> QED BY <1>3, <1>4

(* Sending a call: the new one is good, the old ones on its row go into     *)
(* doubt.                                                                   *)
LEMMA SentSure ==
    ASSUME TypeInv, page \in AllPages, RowsGood, SureInv,
           UNCHANGED <<page, server>>,
           NEW k \in Controls(page), NEW i, NEW arg, NEW was, NEW sure,
           Send(k, i, arg, was, sure),
           k.effect \in OnRow => i \in Ids, k.effect \in {"append", "all"} => i = None,
           k.op \in WithRow => arg \in Row,
           i \in Ids /\ page # "Notifications" => Excused(k, i),
           sure /\ k.effect \in OnRow =>
              /\ i \in DOMAIN shown /\ ~loading /\ was = shown[i] /\ i \notin doubt
              /\ page = "TodaySummary" => k.op = "checkin" \/ shown[i].st = {"pending"}
    PROVE  /\ Apart(calls') /\ Traced /\ \A c \in calls' : SureGood(c)'
           /\ \A c \in calls' : c \in calls \/ c.effect = k.effect
<1>1. PICK s \in Free : calls' = calls \cup {Call(s, k, i, arg, was, sure /\ CallsOn(i) = {})}
  BY DEF Send
<1>2. PICK n : n = Call(s, k, i, arg, was, sure /\ CallsOn(i) = {})
  OBVIOUS
<1>3. /\ n.effect = k.effect /\ n.op = k.op /\ n.id = i /\ ~n.done /\ n.live
      /\ n.slot = s /\ n.was = was /\ (n.sure = (sure /\ CallsOn(i) = {})) /\ CallGood(page, n)
  BY <1>2, SentGood
<1>4. calls' = calls \cup {n} /\ \A c \in calls : c.slot # n.slot
  BY <1>1, <1>2, <1>3 DEF Free
<1>5. Apart(calls') /\ Traced
  BY <1>3, <1>4, OneMoreTraced DEF SureInv
<1>6. doubt' = IF i # None /\ CallsOn(i) # {} /\ Excused(k, i) THEN doubt \cup {i} ELSE doubt
  BY DEF Send
<1>7. \A j : CallsOn(j)' \subseteq CallsOn(j) \cup {n}
  BY <1>4 DEF CallsOn
<1>8. ASSUME NEW c \in calls PROVE SureGood(c)'
  <2>1. CASE c.effect \notin OnRow
    BY <2>1 DEF SureGood
  <2>2. CASE c.effect \in OnRow /\ page = "Notifications"
    BY <1>6, <2>2, SureKept DEF SureInv
  <2>3. CASE c.effect \in OnRow /\ page # "Notifications" /\ c.id # i
    <3>1. c.id \in Ids /\ c.op # "readAll" /\ n.op # "readAll"
      BY <1>3, <2>3 DEF TypeInv, CallGood, Kind, Reads, OnRow
    <3>2. CallsOn(c.id)' \subseteq CallsOn(c.id)
      BY <1>3, <1>4, <2>3, <3>1 DEF CallsOn
    <3> QED BY <1>6, <3>2, SureKept DEF SureInv
  <2>4. CASE c.effect \in OnRow /\ page # "Notifications" /\ c.id = i
    <3>1. c.id \in Ids /\ c \in CallsOn(i)
      BY <2>4 DEF TypeInv, CallGood, CallsOn, OnRow, Reads
    <3>2. Excused(k, i) /\ i # None
      BY <2>4, <3>1, RowPagesAssumption DEF Ids
    <3>3. c.id \in doubt'
      BY <1>6, <2>4, <3>1, <3>2
    <3> QED BY <3>3 DEF SureGood
  <2> QED BY <2>1, <2>2, <2>3, <2>4
<1>9. SureGood(n)'
  <2>1. SUFFICES ASSUME k.effect \in OnRow, sure, CallsOn(i) = {}, i \notin doubt'
        PROVE  /\ page # "Notifications" =>
                    /\ \A d \in CallsOn(i)' : d = n
                    /\ \/ server[i] = was
                       \/ page = "TodaySummary" /\ k.op = "checkin" /\ server[i].st = {"completed"}
               /\ page = "Notifications" =>
                    server[i] \in Row /\ was \in Row /\ server[i].rest = was.rest
    BY <1>3 DEF SureGood
  <2>2. i \in Ids /\ i \notin doubt /\ i \in DOMAIN shown /\ ~loading /\ was = shown[i]
    BY <2>1
  <2>3. page # None
    BY RowPagesAssumption
  <2>4. /\ page # "Notifications" =>
                 \/ shown[i] = server[i]
                 \/ page = "TodaySummary" /\ shown[i].st = {"confirmed"} /\ server[i].st = {"completed"}
        /\ page = "Notifications" =>
                 shown[i] \in Row /\ server[i] \in Row /\ server[i].rest = shown[i].rest
    BY <2>1, <2>2, <2>3, SureWhenSent
  <2>5. {"pending"} # {"confirmed"}
    OBVIOUS
  <2> QED BY <1>7, <2>1, <2>2, <2>4, <2>5
<1> QED BY <1>3, <1>4, <1>5, <1>8, <1>9

LEMMA ClickSure ==
    ASSUME RowsInv, SureInv, page # None, NEW k \in Controls(page), NEW i \in Ids, Click(k, i)
    PROVE  SureInv' /\ Traced
<1>1. page \in AllPages /\ TypeInv /\ RowsGood
  BY SomePage DEF RowsInv
<1>2. PICK arg \in Arguments(page, k.op, shown[i]) : Send(k, i, arg, shown[i], i \notin doubt)
  BY DEF Click
<1>3. /\ i \in DOMAIN shown /\ ~Disabled(k, i) /\ ~loading /\ k.effect \in OnRow
      /\ UNCHANGED <<page, server, loading, dialog, shown>>
  BY <1>1, ClickMakes
<1>4. shown[i] \in Row
  BY <1>1, <1>3 DEF TypeInv, StateTyped, IsList
<1>5. k.op \in WithRow => arg \in Row
  BY <1>2, <1>4, ArgumentsTyped
<1>6. page # "Notifications" => Excused(k, i)
  BY <1>1, <1>3, MarkerHeld
<1>7. page = "TodaySummary" => k.op = "checkin" \/ shown[i].st = {"pending"}
  <2>1. page = "TodaySummary" => k.op \in {"confirm", "checkin"}
    BY <1>1, ControlsApart
  <2> QED BY <2>1 DEF Click, Offered
<1>8. k.effect \notin {"append", "all"}
  BY <1>3 DEF OnRow
<1>9. /\ Apart(calls') /\ Traced /\ \A c \in calls' : SureGood(c)'
      /\ \A c \in calls' : c \in calls \/ c.effect = k.effect
  BY <1>1, <1>2, <1>3, <1>5, <1>6, <1>7, <1>8, SentSure
<1>10. DialogsApart'
  BY <1>3, <1>8, <1>9 DEF SureInv, DialogsApart
<1> QED BY <1>9, <1>10 DEF SureInv

LEMMA SubmitSure ==
    ASSUME RowsInv, SureInv, page # None, NEW k \in Controls(page), Submit(k)
    PROVE  SureInv' /\ Traced
<1>1. page \in AllPages /\ TypeInv /\ RowsGood /\ DialogGood
  BY SomePage DEF RowsInv
<1>2. /\ dialog # None /\ dialog.op = k.op
      /\ dialog' = IF page = "AllGuests" THEN [dialog EXCEPT !.sent = TRUE] ELSE dialog
      /\ UNCHANGED <<page, server, loading, shown>>
  BY <1>1, SubmitMakes
<1>3. /\ dialog.op # "readAll" /\ (dialog.op = "create" <=> dialog.id = None)
      /\ dialog.id # None => dialog.id \in Ids /\ dialog.was \in Row
      /\ dialog = [op |-> dialog.op, id |-> dialog.id, was |-> dialog.was, sent |-> dialog.sent]
  BY <1>1, <1>2 DEF TypeInv, DialogTyped
<1>4. PICK arg, was, sure :
         /\ arg \in IF k.op = "status" THEN {[dialog.was EXCEPT !.st = {"cancelled"}]}
                    ELSE IF dialog.id = None THEN {None}
                    ELSE Arguments(page, k.op, dialog.was)
         /\ Send(k, dialog.id, arg, was, sure)
         /\ was = IF k.op = "status" THEN shown[dialog.id] ELSE dialog.was
         /\ sure = (/\ dialog.id \notin doubt
                    /\ dialog.id # None => dialog.id \in DOMAIN shown /\ shown[dialog.id] = dialog.was)
  BY DEF Submit
<1>5. Kind(page, k.op, k.effect)
  BY <1>1, ControlKind
<1>6. /\ k.effect \in OnRow => dialog.id \in Ids /\ dialog.id # None
      /\ k.effect \in {"append", "all"} => dialog.id = None
  BY <1>2, <1>3, <1>5 DEF Kind, OnRow
<1>7. k.op \in WithRow => arg \in Row
  <2>1. ASSUME k.op \in WithRow PROVE dialog.id # None /\ dialog.was \in Row
    BY <1>2, <1>3, <2>1 DEF WithRow
  <2>2. CASE k.op = "status"
    BY <1>4, <2>1, <2>2 DEF WithRow, Row, Flags
  <2>3. CASE k.op # "status"
    BY <1>4, <2>1, <2>3, ArgumentsTyped
  <2> QED BY <2>2, <2>3
<1>8. dialog.id \in Ids /\ page # "Notifications" => Excused(k, dialog.id)
  BY <1>1, SubmitExcused
<1>9. page # "TodaySummary"
  BY <1>2 DEF SureInv, DialogsApart
<1>10. ASSUME sure, k.effect \in OnRow
       PROVE  /\ dialog.id \in DOMAIN shown /\ ~loading /\ was = shown[dialog.id]
              /\ dialog.id \notin doubt
  <2>1. /\ dialog.id \in DOMAIN shown /\ was = shown[dialog.id] /\ dialog.id \notin doubt
    BY <1>4, <1>6, <1>10
  <2>2. ~loading
    <3>1. CASE page \in {"AllBookings", "PendingApprovals"}
      BY <3>1 DEF Submit
    <3>2. CASE page \notin {"AllBookings", "PendingApprovals"}
      BY <1>2, <1>6, <1>10, <2>1, <3>2 DEF SureInv, DialogsApart
    <3> QED BY <3>1, <3>2
  <2> QED BY <2>1, <2>2
<1>11. /\ Apart(calls') /\ Traced /\ \A c \in calls' : SureGood(c)'
       /\ \A c \in calls' : c \in calls \/ c.effect = k.effect
  BY <1>1, <1>2, <1>4, <1>6, <1>7, <1>8, <1>9, <1>10, SentSure
<1>12. DialogsApart'
  <2>1. dialog'.id = dialog.id
    BY <1>2, <1>3
  <2>2. page \in {"AllGuests", "StaffAccounts"} => k.effect # "append"
    BY <1>1, ControlsApart
  <2> QED BY <1>2, <1>9, <1>11, <2>1, <2>2 DEF SureInv, DialogsApart
<1> QED BY <1>11, <1>12 DEF SureInv

(* Where no row moves and no call on a row is sent. *)
LEMMA AskSure ==
    ASSUME SureInv, UNCHANGED <<page, server, doubt>>, NEW n, calls' = calls \cup {n},
           n.effect \notin OnRow, n.effect # "append",
           page # "Notifications" => n.effect \in Reads /\ n.op \in Reads /\ n.id = None,
           \A c \in calls : c.slot # n.slot, ~n.done, TypeInv
    PROVE  /\ Apart(calls') /\ Traced /\ \A c \in calls' : SureGood(c)'
           /\ \A c \in calls' : c.effect = "append" => c \in calls
<1>1. Apart(calls') /\ Traced
  BY OneMoreTraced DEF SureInv
<1>2. ASSUME NEW c \in calls PROVE SureGood(c)'
  <2>1. CASE c.effect \notin OnRow
    BY <2>1 DEF SureGood
  <2>2. CASE c.effect \in OnRow
    <3>1. c.id \in Ids
      BY <2>2 DEF TypeInv, CallGood, OnRow
    <3>2. c.id # None
      BY <3>1, RowPagesAssumption DEF Ids
    <3>3. page # "Notifications" => CallsOn(c.id)' \subseteq CallsOn(c.id)
      BY <3>2 DEF CallsOn, Reads
    <3> QED BY <3>3, SureKept DEF SureInv
  <2> QED BY <2>1, <2>2
<1>3. SureGood(n)'
  BY DEF SureGood
<1> QED BY <1>1, <1>2, <1>3

LEMMA ReadAllSure ==
    ASSUME RowsInv, SureInv, page # None, NEW k \in Controls(page), ReadAll(k)
    PROVE  SureInv' /\ Traced
<1>1. page \in AllPages /\ TypeInv /\ page = "Notifications" /\ k.op = "readAll"
  BY SomePage, ReadAllTyped DEF RowsInv, ReadAll
<1>2. PICK s, no : s \in Free /\ calls' = calls \cup {Call(s, k, None, None, None, no)}
  BY DEF ReadAll
<1>3. PICK n : n = Call(s, k, None, None, None, no)
  OBVIOUS
<1>4. k.effect = "all"
  <2>1. Kind(page, k.op, k.effect)
    BY <1>1, ControlKind
  <2> QED BY <1>1, <2>1 DEF Kind
<1>5. n.effect = "all" /\ n.slot = s /\ ~n.done
  <2>1. k.effect \notin OnRow /\ k.op \notin WithRow
    BY <1>1, <1>4 DEF OnRow, WithRow
  <2> QED BY <1>1, <1>3, <1>4, <2>1, SentGood
<1>6. UNCHANGED <<page, server, doubt, dialog, loading, shown>>
  BY DEF ReadAll
<1>7. calls' = calls \cup {n} /\ \A c \in calls : c.slot # n.slot
  BY <1>2, <1>3, <1>5 DEF Free
<1>8. Apart(calls') /\ Traced /\ \A c \in calls' : SureGood(c)'
  BY <1>1, <1>5, <1>6, <1>7, AskSure DEF OnRow
<1>9. DialogsApart'
  BY <1>1, <1>6 DEF SureInv, DialogsApart
<1> QED BY <1>8, <1>9 DEF SureInv

LEMMA ListSure ==
    ASSUME RowsInv, SureInv, Retry \/ \E t \in {"all", "pending"} : ChooseTab(t)
    PROVE  SureInv' /\ Traced
<1>1. TypeInv
  BY DEF RowsInv
<1>2. PICK s, t : s \in Free /\ calls' = calls \cup {Reading(s, "load", t)}
  BY DEF Retry, ChooseTab
<1>3. PICK n : n = Reading(s, "load", t)
  OBVIOUS
<1>4. n.effect = "load" /\ n.op = "load" /\ n.id = None /\ n.slot = s /\ ~n.done
  BY <1>3, ReadingGood DEF Reads
<1>5. calls' = calls \cup {n} /\ \A c \in calls : c.slot # n.slot
  BY <1>2, <1>3, <1>4 DEF Free
<1>6. /\ UNCHANGED <<page, server, doubt, dialog, shown>>
      /\ \/ page \in {"AllGuests", "StaffAccounts"} /\ DOMAIN shown = {}
         \/ page = "AllBookings"
  BY DEF Retry, ChooseTab
<1>7. /\ Apart(calls') /\ Traced /\ \A c \in calls' : SureGood(c)'
      /\ \A c \in calls' : c.effect = "append" => c \in calls
  BY <1>1, <1>4, <1>5, <1>6, AskSure DEF OnRow, Reads
<1>8. DialogsApart'
  BY <1>6, <1>7 DEF SureInv, DialogsApart
<1> QED BY <1>7, <1>8 DEF SureInv

(* Where no call and no row moves. *)
LEMMA StillSure ==
    ASSUME SureInv, UNCHANGED <<page, server, doubt, calls>>
    PROVE  Apart(calls') /\ Traced /\ \A c \in calls' : SureGood(c)'
<1>1. \A c \in calls : SureGood(c)'
  BY SureKept DEF SureInv, CallsOn
<1> QED BY <1>1, FewerTraced DEF SureInv

LEMMA DialogSure ==
    ASSUME RowsInv, SureInv, page # None, NEW k \in Controls(page), NEW i, OpenDialog(k, i)
    PROVE  SureInv' /\ Traced
<1>1. page \in AllPages
  BY SomePage DEF RowsInv
<1>2. UNCHANGED <<page, server, doubt, calls, loading, shown>>
  BY DEF OpenDialog
<1>3. page # "TodaySummary"
  BY <1>1, ControlsApart DEF OpenDialog
<1>4. dialog'.id = None \/ ~loading
  BY DEF OpenDialog
<1>5. DialogsApart'
  BY <1>2, <1>3, <1>4 DEF SureInv, DialogsApart
<1> QED BY <1>2, <1>5, StillSure DEF SureInv

LEMMA DismissSure ==
    ASSUME SureInv, Dismiss \/ UNCHANGED vars
    PROVE  SureInv' /\ Traced
<1>1. UNCHANGED <<page, server, doubt, calls, loading, shown>> /\ dialog' \in {dialog, None}
  BY DEF Dismiss, vars
<1>2. DialogsApart'
  BY <1>1 DEF SureInv, DialogsApart
<1> QED BY <1>1, <1>2, StillSure DEF SureInv

LEMMA EnterSure ==
    ASSUME NEW p \in Pages, Enter(p)
    PROVE  SureInv' /\ Traced
<1>1. Mounted(p, {}) /\ Apart({})
  BY DEF Enter, Apart
<1>2. Apart(calls') /\ \A c \in calls' : c.effect \in Reads /\ ~c.done
  BY <1>1, MountedTraced
<1>3. DialogsApart'
  BY <1>1, <1>2 DEF Mounted, DialogsApart, Reads
<1> QED BY <1>2, <1>3 DEF SureInv, SureGood, Traced, Reads, OnRow

LEMMA ReturnSure ==
    ASSUME RowsInv, SureInv, Return
    PROVE  SureInv' /\ Traced
<1>1. TypeInv /\ Apart(calls)
  BY DEF RowsInv, SureInv
<1>2. /\ Apart(calls') /\ Traced
      /\ \A d \in calls' : d.effect \in Reads \/ (~d.live /\ \E c \in calls : d.effect = c.effect)
  BY <1>1, ReturnTraced
<1>3. page' = page /\ dialog' = None
  BY DEF Return, Mounted
<1>4. DialogsApart'
  BY <1>2, <1>3 DEF SureInv, DialogsApart, Reads
<1> QED BY <1>2, <1>4 DEF SureInv, SureGood, Reads, OnRow

(* Answers that have come leave fewer calls. *)
LEMMA AnswersSure ==
    ASSUME RowsInv, SureInv, NEW c \in calls,
           \/ ListArrives(c) \/ CountArrives(c) \/ ListFails(c) \/ Succeed(c) \/ Fail(c)
    PROVE  SureInv' /\ Traced
<1>1. UNCHANGED <<page, server>> /\ calls' = calls \ {c} /\ TypeInv /\ StateTyped /\ CallGood(page, c)
  BY DEF ListArrives, CountArrives, ListFails, Succeed, Fail, RowsInv, TypeInv
<1>2. ASSUME NEW d \in calls', d.effect \in OnRow, d.id \notin doubt' PROVE d.id \notin doubt
  <2>1. d.id \in Ids /\ d \in calls
    BY <1>1, <1>2 DEF TypeInv, CallGood, OnRow
  <2>2. CASE ListArrives(c)
    BY <1>1, <1>2, <2>2 DEF ListArrives
  <2>3. CASE CountArrives(c) \/ Succeed(c) \/ Fail(c)
    BY <1>2, <2>3 DEF CountArrives, Succeed, Fail
  <2>4. CASE ListFails(c)
    BY <1>2, <2>1, <2>4 DEF ListFails
  <2> QED BY <2>2, <2>3, <2>4
<1>3. Apart(calls') /\ Traced /\ \A d \in calls' : SureGood(d)'
  <2>1. ASSUME NEW d \in calls' PROVE SureGood(d)'
    <3>1. CASE d.effect \notin OnRow
      BY <3>1 DEF SureGood
    <3>2. CASE d.effect \in OnRow
      BY <1>1, <1>2, <3>2, SureKept DEF SureInv, CallsOn
    <3> QED BY <3>1, <3>2
  <2> QED BY <1>1, <2>1, FewerTraced DEF SureInv
<1>4. DialogsApart'
  <2>1. dialog' = dialog \/ dialog' = None
    BY DEF ListArrives, CountArrives, ListFails, Succeed, Fail
  <2>2. loading' => loading
    BY DEF ListArrives, CountArrives, ListFails, Succeed, Fail
  <2>3. ASSUME page \in {"AllGuests", "StaffAccounts"}, DOMAIN shown = {}, loading'
        PROVE  DOMAIN shown' = {}
    <3>1. c.effect # "append"
      BY <2>3 DEF SureInv, DialogsApart
    <3>2. CASE ListArrives(c) \/ CountArrives(c) \/ ListFails(c) \/ Fail(c)
      BY <2>3, <3>2 DEF ListArrives, CountArrives, ListFails, Fail, Counted
    <3>3. CASE Succeed(c)
      <4>1. shown' = shown \/ shown' = Patched(c)
        BY <3>3 DEF Succeed
      <4>2. DOMAIN Patched(c) = {}
        BY <2>3, <3>1 DEF Patched
      <4> QED BY <2>3, <4>1, <4>2
    <3> QED BY <3>2, <3>3
  <2> QED BY <1>1, <2>1, <2>2, <2>3 DEF SureInv, DialogsApart
<1> QED BY <1>3, <1>4 DEF SureInv

LEMMA ServeListSure ==
    ASSUME RowsInv, SureInv, NEW c \in calls, ServeList(c)
    PROVE  SureInv' /\ Traced
<1>1. TypeInv /\ CallGood(page, c) /\ c.effect \in Reads
  BY DEF RowsInv, TypeInv, ServeList, Reads
<1>2. PICK d : /\ calls' = (calls \ {c}) \cup {d} /\ d.effect = c.effect /\ d.op = c.op
               /\ d.id = None /\ d.slot = c.slot
  BY <1>1, ServeListMakes
<1>3. UNCHANGED <<page, server, doubt, dialog, loading, shown>>
  BY DEF ServeList
<1>4. c.op \in Reads /\ c.effect \notin OnRow /\ c.effect # "append"
  BY <1>1 DEF CallGood, Reads, OnRow
<1>5. Apart(calls') /\ Traced
  BY <1>2, <1>4, ReplacedTraced DEF SureInv
<1>6. ASSUME NEW b \in calls' PROVE SureGood(b)'
  <2>1. CASE b.effect \notin OnRow
    BY <2>1 DEF SureGood
  <2>2. CASE b.effect \in OnRow
    <3>1. b \in calls
      BY <1>2, <1>4, <2>2
    <3>2. b.id \in Ids /\ b.id # None
      BY <1>1, <2>2, <3>1, RowPagesAssumption DEF TypeInv, CallGood, OnRow, Ids
    <3>3. CallsOn(b.id)' \subseteq CallsOn(b.id)
      BY <1>2, <1>4, <3>2 DEF CallsOn, Reads
    <3> QED BY <1>3, <3>1, <3>3, SureKept DEF SureInv
  <2> QED BY <2>1, <2>2
<1>7. DialogsApart'
  BY <1>2, <1>3, <1>4 DEF SureInv, DialogsApart
<1> QED BY <1>5, <1>6, <1>7 DEF SureInv

(* Where a row moves, and calls with it. *)
LEMMA MovedSure ==
    ASSUME TypeInv, SureInv, NEW i \in Ids, NEW cs, calls' = Moved(cs, i), page' = page,
           UNCHANGED <<dialog, loading, shown>>,
           \A x \in cs : CallGood(page, x) /\ (x.effect = "append" => \E c \in calls : c.effect = "append"),
           \A x \in cs : \/ x \in calls
                         \/ x.done /\ x.id = i /\ (page # "Notifications" => x.op # "readAll"),
           \A j \in Ids \ {i} : server'[j] = server[j], doubt \subseteq doubt',
           \A x \in cs \cap calls : x.id = i /\ x.effect \in OnRow => SureGood(x)'
    PROVE  DialogsApart' /\ \A b \in calls' : SureGood(b)'
<1>1. \A b \in calls' : \E x \in cs : b.effect = x.effect /\ (b.effect \notin Reads => b = x)
  <2>1. ASSUME NEW b \in calls'
        PROVE  \E x \in cs : b.effect = x.effect /\ (b.effect \notin Reads => b = x)
    <3>1. b \in Moved(cs, i) /\ \A x \in cs : CallGood(page, x)
      BY <2>1
    <3>2. PICK x \in cs : Follows(x, b, i)
      BY ONLY <3>1, MovedGood
    <3> QED BY <3>2 DEF Follows
  <2> QED BY <2>1
<1>2. ASSUME NEW b \in calls' PROVE SureGood(b)'
  <2>1. CASE b.effect \notin OnRow \/ b.done
    BY <2>1 DEF SureGood
  <2>2. CASE b.effect \in OnRow /\ ~b.done
    <3>1. b \in cs /\ b \in calls
      BY <1>1, <2>2 DEF OnRow, Reads
    <3>2. b.id \in Ids
      BY <2>2, <3>1 DEF TypeInv, CallGood, OnRow
    <3>3. CASE b.id = i
      BY <2>2, <3>1, <3>3
    <3>4. CASE b.id # i
      <4>1. CallsOn(b.id)' = {x \in cs : x.id = b.id \/ x.op = "readAll"}
        BY <3>2, MovedCallsOn
      <4>2. page # "Notifications" => CallsOn(b.id)' \subseteq CallsOn(b.id)
        BY <3>4, <4>1 DEF CallsOn
      <4>3. server'[b.id] = server[b.id] /\ SureGood(b)
        BY <3>1, <3>2, <3>4 DEF SureInv
      <4> QED BY <4>2, <4>3, SureKept
    <3> QED BY <3>3, <3>4
  <2> QED BY <2>1, <2>2
<1>3. DialogsApart'
  BY <1>1 DEF SureInv, DialogsApart
<1> QED BY <1>2, <1>3

LEMMA ElsewhereSure ==
    ASSUME RowsInv, SureInv, NEW i \in Ids, Elsewhere(i)
    PROVE  SureInv' /\ Traced
<1>1. TypeInv /\ (\A j \in Ids \ {i} : server'[j] = server[j])
  BY ElsewhereMakes DEF RowsInv
<1>2. /\ calls' = Moved(calls, i) /\ UNCHANGED <<page, dialog, loading, shown>>
      /\ doubt' = doubt \cup {i}
  BY DEF Elsewhere
<1>3. \A x \in calls : CallGood(page, x) /\ Shaped(x)
  BY <1>1 DEF TypeInv, CallGood
<1>4. \A x \in calls : x.id = i => SureGood(x)'
  BY <1>2 DEF SureGood
<1>5. DialogsApart' /\ \A b \in calls' : SureGood(b)'
  BY <1>1, <1>2, <1>3, <1>4, MovedSure
<1>6. /\ Apart(Moved(calls, i))
      /\ \A d \in Moved(calls, i) : \E c \in calls : d.slot = c.slot /\ (d.done = c.done)
  <2>1. Apart(calls) /\ \A x \in calls : Shaped(x)
    BY <1>3 DEF SureInv
  <2> QED BY ONLY <2>1, ApartMoved
<1>7. Apart(calls') /\ Traced
  BY <1>2, <1>6 DEF Traced
<1> QED BY <1>5, <1>7 DEF SureInv

LEMMA ServeSure ==
    ASSUME RowsInv, SureInv, NEW c \in calls, Serve(c)
    PROVE  SureInv' /\ Traced
<1>1. TypeInv /\ StateTyped /\ CallGood(page, c)
  BY DEF RowsInv, TypeInv
<1>2. /\ c.effect \in OnRow /\ c.id \in Ids /\ ~c.done
      /\ \A i \in Ids \ {c.id} : server'[i] = server[i]
      /\ \A i \in Ids : server'[i] = None \/ server'[i] \in Row
      /\ doubt \subseteq doubt'
      /\ UNCHANGED <<page, loading, dialog, shown>>
  BY <1>1, ServeMakes
<1>3. PICK d :
         /\ calls' = Moved((calls \ {c}) \cup {d}, c.id) /\ CallGood(page, d)
         /\ d.done /\ d.effect = c.effect /\ d.op = c.op /\ d.id = c.id /\ d.slot = c.slot
         /\ d.row = Served(c.op, server[c.id], c.arg)
         /\ server'[c.id] = IF d.row = Refused THEN server[c.id] ELSE d.row
  BY <1>1, ServeMakes
<1>4. Apart(calls') /\ Traced
  BY <1>1, <1>3, ServedTraced DEF SureInv
<1>5. Kind(page, c.op, c.effect)
  BY <1>1, <1>2 DEF CallGood, OnRow, Reads
<1>6. ASSUME NEW x \in calls \ {c}, x.id = c.id, x.effect \in OnRow PROVE SureGood(x)'
  <2>1. CASE page # "Notifications"
    <3>1. c \in CallsOn(x.id)
      BY <1>6 DEF CallsOn
    <3>2. SureGood(x)
      BY DEF SureInv
    <3> QED BY <1>2, <1>6, <2>1, <3>1, <3>2 DEF SureGood
  <2>2. CASE page = "Notifications"
    <3>1. SUFFICES ASSUME server[c.id] \in Row, x.was \in Row, server[c.id].rest = x.was.rest
          PROVE  server'[c.id] \in Row /\ server'[c.id].rest = x.was.rest
      BY <1>2, <1>6, <2>2 DEF SureInv, SureGood
    <3>2. c.op = "read"
      BY <1>2, <1>5, <2>2 DEF Kind, OnRow
    <3>3. d.row \in Row /\ d.row.rest = server[c.id].rest
      BY <1>3, <3>1, <3>2, ReadServed
    <3> QED BY <1>3, <3>1, <3>3, RowPagesAssumption
  <2> QED BY <2>1, <2>2
<1>7. page # "Notifications" => c.op # "readAll"
  BY <1>5 DEF Kind
<1> DEFINE cs == (calls \ {c}) \cup {d}
<1>8. /\ \A x \in cs : CallGood(page, x) /\ (x.effect = "append" => \E e \in calls : e.effect = "append")
      /\ \A x \in cs : \/ x \in calls
                       \/ x.done /\ x.id = c.id /\ (page # "Notifications" => x.op # "readAll")
  BY <1>1, <1>3, <1>7 DEF TypeInv
<1>9. \A x \in cs \cap calls : x.id = c.id /\ x.effect \in OnRow => SureGood(x)'
  <2>1. d.done => SureGood(d)'
    BY DEF SureGood
  <2> QED BY <1>3, <1>6, <2>1
<1>10. calls' = Moved(cs, c.id)
  BY <1>3
<1> HIDE DEF cs
<1>11. DialogsApart' /\ \A b \in calls' : SureGood(b)'
  BY <1>1, <1>2, <1>8, <1>9, <1>10, MovedSure
<1> QED BY <1>4, <1>11 DEF SureInv

LEMMA ServeNewSure ==
    ASSUME RowsInv, SureInv, NEW c \in calls, ServeNew(c)
    PROVE  SureInv' /\ Traced
<1>1. TypeInv /\ StateTyped /\ CallGood(page, c) /\ NewRow \in Ids
  BY DEF RowsInv, TypeInv, Ids
<1>2. /\ CallsOn(NewRow) = {} /\ ~c.done /\ c.effect = "append"
      /\ \A i \in Ids \ {NewRow} : server'[i] = server[i]
      /\ doubt \subseteq doubt'
      /\ UNCHANGED <<page, loading, dialog, shown>>
  BY <1>1, ServeNewMakes
<1>3. PICK d :
         /\ calls' = Moved((calls \ {c}) \cup {d}, NewRow) /\ CallGood(page, d)
         /\ d.done /\ d.effect = "append" /\ d.op = "create" /\ d.id = NewRow /\ d.slot = c.slot
  BY <1>1, ServeNewMakes
<1>4. Apart(calls') /\ Traced
  BY <1>1, <1>2, <1>3, ServedTraced DEF SureInv, OnRow
<1> DEFINE cs == (calls \ {c}) \cup {d}
<1>5. /\ \A x \in cs : CallGood(page, x) /\ (x.effect = "append" => \E e \in calls : e.effect = "append")
      /\ \A x \in cs : \/ x \in calls
                       \/ x.done /\ x.id = NewRow /\ (page # "Notifications" => x.op # "readAll")
  BY <1>1, <1>2, <1>3 DEF TypeInv
<1>6. \A x \in cs \cap calls : x.id = NewRow /\ x.effect \in OnRow => SureGood(x)'
  BY <1>2 DEF CallsOn
<1>7. calls' = Moved(cs, NewRow)
  BY <1>3
<1> HIDE DEF cs
<1>8. DialogsApart' /\ \A b \in calls' : SureGood(b)'
  BY <1>1, <1>2, <1>5, <1>6, <1>7, MovedSure
<1> QED BY <1>4, <1>8 DEF SureInv

LEMMA ServeAllSure ==
    ASSUME RowsInv, SureInv, NEW c \in calls, ServeAll(c)
    PROVE  SureInv' /\ Traced
<1>1. TypeInv /\ StateTyped /\ \A b \in calls : CallGood(page, b)
  BY DEF RowsInv, TypeInv
<1>2. Apart(calls') /\ Traced
  BY <1>1, AllServedTraced DEF SureInv
<1>3. /\ page = "Notifications" /\ page' = page
      /\ UNCHANGED <<page, loading, dialog, shown>>
      /\ \A i \in Ids : server[i] # None => server'[i] # None /\ server'[i].rest = server[i].rest
      /\ \A i \in Ids : server'[i] = None \/ server'[i] \in Row
      /\ \A b \in calls' : b \in calls \/ b.effect \in Reads \/ b.effect = "all"
  BY <1>1, ServeAllMakes
<1>4. ASSUME NEW b \in calls' PROVE SureGood(b)'
  <2>1. CASE b.effect \notin OnRow
    BY <2>1 DEF SureGood
  <2>2. CASE b.effect \in OnRow
    <3>1. b \in calls /\ SureGood(b)
      BY <1>3, <2>2 DEF OnRow, Reads, SureInv
    <3>2. b.id \in Ids
      BY <1>1, <2>2, <3>1 DEF CallGood, OnRow
    <3>3. b.id \notin doubt' => b.id \notin doubt
      BY <1>1, <3>2, ServeAllMakes
    <3>4. page = "Notifications"
      BY <1>1, ServeAllMakes
    <3>5. page' = page
      BY <1>3
    <3>6. server[b.id] \in Row => server'[b.id] \in Row /\ server'[b.id].rest = server[b.id].rest
      BY <1>3, <3>2, RowPagesAssumption
    <3> QED BY <3>1, <3>3, <3>4, <3>5, <3>6 DEF SureGood
  <2> QED BY <2>1, <2>2
<1>5. DialogsApart'
  BY <1>3 DEF SureInv, DialogsApart
<1> QED BY <1>2, <1>4, <1>5 DEF SureInv

LEMMA StepSure ==
    ASSUME RowsInv, SureInv, [Next]_vars
    PROVE  SureInv' /\ Traced
<1>1. CASE \E p \in Pages : Enter(p)
  BY <1>1, EnterSure
<1>2. CASE Return \/ Retry \/ Dismiss \/ (\E t \in {"all", "pending"} : ChooseTab(t)) \/ UNCHANGED vars
  BY <1>2, ReturnSure, ListSure, DismissSure
<1>3. CASE \E i \in Ids : Elsewhere(i)
  BY <1>3, ElsewhereSure
<1>4. CASE page # None /\ \E k \in Controls(page) :
              \/ Submit(k) \/ ReadAll(k) \/ OpenDialog(k, None)
              \/ \E i \in Ids : Click(k, i) \/ OpenDialog(k, i)
  BY <1>4, SubmitSure, ReadAllSure, DialogSure, ClickSure
<1>5. CASE \E c \in calls :
              \/ ServeList(c) \/ Serve(c) \/ ServeNew(c) \/ ServeAll(c)
              \/ ListArrives(c) \/ CountArrives(c) \/ ListFails(c) \/ Succeed(c) \/ Fail(c)
  BY <1>5, ServeListSure, ServeSure, ServeNewSure, ServeAllSure, AnswersSure
<1> QED BY <1>1, <1>2, <1>3, <1>4, <1>5 DEF Next

LEMMA InitSure ==
    ASSUME Init
    PROVE  SureInv
<1>1. page # "TodaySummary" /\ calls = {} /\ dialog = None
  BY RowPagesAssumption DEF Init, AllPages
<1> QED BY <1>1 DEF SureInv, Apart, DialogsApart

(* What was sure when it was sent means at the server what it meant on the  *)
(* page.                                                                    *)
LEMMA SureServed ==
    ASSUME TypeInv, NEW c \in calls, SureGood(c),
           c.effect \in OnRow, ~c.done, c.live, c.sure, c.id \notin doubt
    PROVE  \/ Served(c.op, server[c.id], c.arg) = Served(c.op, c.was, c.arg)
           \/ page = "TodaySummary" /\ c.op = "checkin" /\ server[c.id].st = {"completed"}
<1>1. CASE page # "Notifications"
  BY <1>1 DEF SureGood
<1>2. CASE page = "Notifications"
  <2>1. server[c.id] \in Row /\ c.was \in Row /\ server[c.id].rest = c.was.rest
    BY <1>2 DEF SureGood
  <2>2. c.op = "read"
    BY <1>2 DEF TypeInv, CallGood, Kind, OnRow, Reads
  <2>3. \A r1, r2 \in Row : r1.st = r2.st /\ r1.rest = r2.rest => r1 = r2
    BY DEF Row
  <2>4. /\ Served("read", server[c.id], c.arg) \in Row
        /\ Served("read", server[c.id], c.arg).rest = server[c.id].rest
        /\ Served("read", server[c.id], c.arg).st = {"read"}
    BY <2>1, ReadServed
  <2>5. /\ Served("read", c.was, c.arg) \in Row
        /\ Served("read", c.was, c.arg).rest = c.was.rest
        /\ Served("read", c.was, c.arg).st = {"read"}
    BY <2>1, ReadServed
  <2>6. Served("read", server[c.id], c.arg) = Served("read", c.was, c.arg)
    BY <2>1, <2>3, <2>4, <2>5
  <2> QED BY <2>2, <2>6
<1> QED BY <1>1, <1>2

(* Whatever happens between a click and its being served, the server makes  *)
(* of it what it meant on the row as the page showed it (IntentServed):     *)
(* no switch is thrown back, no field put back, unless the row was in doubt *)
(* or had another call on it.                                               *)
THEOREM ClicksAlwaysMeant == Spec => IntentServed
<1>1. Init => RowsInv /\ SureInv
  BY InitRows, InitSure
<1>2. RowsInv /\ SureInv /\ [Next]_vars => RowsInv' /\ SureInv'
  BY StepRows, StepSure
<1>3. RowsInv /\ SureInv /\ [Next]_vars =>
         [\A c \in calls, d \in calls' :
             /\ c.slot = d.slot /\ c.effect \in {"row", "assume", "drop"}
             /\ ~c.done /\ d.done /\ c.live
             /\ c.sure /\ c.id \notin doubt
             => \/ d.row = Served(c.op, c.was, c.arg)
                \/ page = "TodaySummary" /\ c.op = "checkin" /\ server[c.id].st = {"completed"}]_vars
  <2>1. SUFFICES ASSUME RowsInv, SureInv, [Next]_vars, NEW c \in calls, NEW d \in calls',
                        c.slot = d.slot, c.effect \in OnRow, ~c.done, d.done, c.live,
                        c.sure, c.id \notin doubt
        PROVE  \/ d.row = Served(c.op, c.was, c.arg)
               \/ page = "TodaySummary" /\ c.op = "checkin" /\ server[c.id].st = {"completed"}
    BY DEF OnRow
  <2>2. PICK e \in calls :
           /\ e.slot = d.slot
           /\ e.done \/ e.effect \notin OnRow \/ d.row = Served(e.op, server[e.id], e.arg)
    BY <2>1, StepSure DEF Traced
  <2>3. e = c
    BY <2>1, <2>2 DEF SureInv, Apart
  <2>4. d.row = Served(c.op, server[c.id], c.arg)
    BY <2>1, <2>2, <2>3
  <2>5. TypeInv /\ SureGood(c)
    BY <2>1 DEF RowsInv, SureInv
  <2> QED BY <2>1, <2>4, <2>5, SureServed
<1> QED BY <1>1, <1>2, <1>3, PTL DEF Spec, IntentServed

-----------------------------------------------------------------------------
(* The count on the tab "pending" of AllBookings.  It counts each booking   *)
(* as it was, while a change of its status has been carried out and not     *)
(* been answered, and as it is otherwise.                                   *)

Pending(i) == server[i] # None /\ server[i].st = {"pending"}
WasPending(c) == c.was.st = {"pending"}

Tallied ==
    {i \in Ids : \/ Pending(i) /\ \A c \in CallsOn(i) : ~Carried(c)
                 \/ \E c \in CallsOn(i) : Carried(c) /\ WasPending(c)}

(* A change of status, before and after it is carried out. *)
StatusGood(c) ==
    /\ c.live /\ \A d \in CallsOn(c.id) : d = c
    /\ Pending(c.id) <=> IF Carried(c) THEN c.arg.st = {"pending"} ELSE WasPending(c)

TallyGood ==
    tally # None /\ ~miscounted =>
        /\ tally = Cardinality(Tallied)
        /\ \A c \in calls : c.effect = "assume" => StatusGood(c)

(* The list that is counted has every booking, unless one moved since. *)
CountGood(c) ==
    c.effect = "count" =>
        /\ Counted /\ c.tab = "all"
        /\ c.done /\ c.moved = {} =>
              /\ DOMAIN c.list \subseteq Ids
              /\ \A i \in Ids : /\ i \in DOMAIN c.list <=> server[i] # None
                                /\ i \in DOMAIN c.list => c.list[i] = server[i]

TallyTyped ==
    /\ tally # None => Counted
    /\ Counted => \A c \in calls : c.effect \in Reads \cup {"assume"}

TallyInv == TallyTyped /\ TallyGood /\ \A c \in calls : CountGood(c)

LEMMA IdsFinite == IsFiniteSet(Ids) /\ \A S \in SUBSET Ids : IsFiniteSet(S)
BY FiniteAssumption, FS_AddElement, FS_Subset DEF Ids

LEMMA ControlsCounted ==
    ASSUME NEW p \in {"AllBookings", "PendingApprovals"}, NEW k \in Controls(p)
    PROVE  k.effect = "assume" /\ k.op = "status"
BY DEF Controls, AllBookingsControls, Control

(* The calls on a booking are changes of its status. *)
LEMMA CountedCalls ==
    ASSUME TypeInv, TallyTyped, Counted
    PROVE  /\ \A i \in Ids : \A c \in CallsOn(i) : c.effect = "assume" /\ c.id = i
           /\ \A c \in calls : c.effect = "assume" => c.id \in Ids /\ c.op = "status"
<1>1. page \in {"AllBookings", "PendingApprovals"}
  BY DEF Counted
<1>2. \A c \in calls : c.effect = "assume" => c.id \in Ids /\ c.op = "status"
  BY <1>1 DEF TypeInv, CallGood, OnRow, Kind, Reads
<1>3. \A c \in calls : c.effect \in Reads => c.op \in Reads /\ c.id = None
  BY DEF TypeInv, CallGood, Reads
<1>4. ASSUME NEW i \in Ids, NEW c \in CallsOn(i) PROVE c.effect = "assume" /\ c.id = i
  <2>1. c \in calls /\ (c.id = i \/ c.op = "readAll") /\ i # None
    BY RowPagesAssumption DEF CallsOn, Ids
  <2>2. c.effect = "assume"
    BY <1>3, <2>1 DEF TallyTyped, Reads
  <2> QED BY <1>2, <2>1, <2>2
<1> QED BY <1>2, <1>4

(* Where no status moves, and no change of one is sent. *)
LEMMA TallyStill ==
    ASSUME TallyTyped, TallyGood, UNCHANGED <<page, server, tally>>, ~miscounted' => ~miscounted,
           \A c \in calls' : c.effect = "assume" => c \in calls /\ c.id \in Ids,
           \A i \in Ids : Counted => CallsOn(i)' = CallsOn(i)
    PROVE  TallyGood'
<1>1. SUFFICES ASSUME tally # None, ~miscounted', Counted
      PROVE  /\ tally' = Cardinality(Tallied')
             /\ \A c \in calls' : c.effect = "assume" => StatusGood(c)'
  BY DEF TallyGood, TallyTyped
<1>2. Tallied' = Tallied
  BY <1>1 DEF Tallied, Pending, Carried, WasPending
<1>3. \A c \in calls' : c.effect = "assume" => StatusGood(c)'
  BY <1>1 DEF TallyGood, StatusGood, Pending, Carried, WasPending
<1> QED BY <1>1, <1>2, <1>3 DEF TallyGood

(* A call that ends takes its booking out of the count as it was, and puts  *)
(* it in as it is.                                                          *)
LEMMA TallyMoves ==
    ASSUME NEW S, NEW T, NEW i \in Ids, S \subseteq Ids, T \subseteq Ids,
           \A j \in Ids \ {i} : j \in S <=> j \in T, NEW n, n = Cardinality(S)
    PROVE  /\ n \in Nat /\ (i \in S => n > 0)
           /\ Cardinality(T) = IF i \in T THEN (IF i \in S THEN n - 1 ELSE n) + 1
                               ELSE IF i \in S THEN n - 1 ELSE n
<1>1. IsFiniteSet(S) /\ IsFiniteSet(T)
  BY IdsFinite
<1>2. n \in Nat /\ (n = 0 <=> S = {})
  BY <1>1, FS_CardinalityType, FS_EmptySet
<1>3. Cardinality(S \cup {i}) = IF i \in S THEN n ELSE n + 1
  BY <1>1, FS_AddElement
<1>4. Cardinality(S \ {i}) = IF i \in S THEN n - 1 ELSE n
  BY <1>1, FS_RemoveElement
<1>5. T = IF i \in T THEN S \cup {i} ELSE S \ {i}
  OBVIOUS
<1>6. i \in S => n > 0
  BY <1>2
<1>7. CASE i \in T
  <2>1. Cardinality(T) = IF i \in S THEN n ELSE n + 1
    BY <1>3, <1>5, <1>7
  <2>2. Cardinality(T) = (IF i \in S THEN n - 1 ELSE n) + 1
    BY ONLY <1>2, <2>1
  <2> QED BY <1>2, <1>6, <1>7, <2>2
<1>8. CASE i \notin T
  <2>1. Cardinality(T) = IF i \in S THEN n - 1 ELSE n
    BY <1>4, <1>5, <1>8
  <2> QED BY <1>2, <1>6, <1>8, <2>1
<1> QED BY <1>7, <1>8

(* Lists that are counted stay right where no row moves. *)
LEMMA CountsKept ==
    ASSUME UNCHANGED <<page, server>>, \A c \in calls : CountGood(c),
           \A d \in calls' : d \in calls \/ d.effect # "count" \/ (Counted /\ d.tab = "all" /\ ~d.done)
    PROVE  \A d \in calls' : CountGood(d)'
<1> SUFFICES ASSUME NEW d \in calls' PROVE CountGood(d)'
  OBVIOUS
<1>1. Counted' = Counted
  BY DEF Counted
<1>2. CASE d \in calls
  BY <1>1, <1>2 DEF CountGood
<1>3. CASE d.effect # "count" \/ (Counted /\ d.tab = "all" /\ ~d.done)
  BY <1>1, <1>3 DEF CountGood
<1> QED BY <1>2, <1>3

(* They are given up where one does. *)
LEMMA CountsMoved ==
    ASSUME NEW cs, NEW i, calls' = Moved(cs, i), page' = page, \A x \in cs : CallGood(page, x),
           \A x \in cs : x.effect = "count" => CountGood(x)
    PROVE  \A d \in calls' : CountGood(d)'
<1> SUFFICES ASSUME NEW d \in calls', d.effect = "count"
             PROVE  Counted' /\ d.tab = "all" /\ ~(d.done /\ d.moved = {})
  BY DEF CountGood
<1>1. PICK c \in cs : Follows(c, d, i)
  <2>1. d \in Moved(cs, i) /\ \A x \in cs : CallGood(page, x)
    OBVIOUS
  <2> QED BY ONLY <2>1, MovedGood
<1>2. c.effect = "count" /\ d.tab = c.tab /\ (d.done => d.moved = c.moved \cup {i})
  BY <1>1 DEF Follows, Reads
<1>3. Counted /\ c.tab = "all"
  BY <1>2 DEF CountGood
<1> QED BY <1>2, <1>3 DEF Counted

(* A change of a booking's status is sent when the list shows the booking   *)
(* as the server has it, or the count is given up.                          *)
LEMMA SentTally ==
    ASSUME TypeInv, RowsGood, TallyInv, page \in AllPages, UNCHANGED <<page, server, tally>>,
           NEW k \in Controls(page), NEW i, NEW arg, NEW was, NEW sure,
           Send(k, i, arg, was, sure),
           k.effect \in OnRow => i \in Ids, k.effect \in {"append", "all"} => i = None,
           k.op \in WithRow => arg \in Row,
           Counted => i \in DOMAIN shown /\ ~loading /\ was = shown[i]
    PROVE  TallyInv'
<1>1. PICK s, no : s \in Free /\ calls' = calls \cup {Call(s, k, i, arg, was, no)}
  BY DEF Send
<1>2. PICK n : n = Call(s, k, i, arg, was, no)
  OBVIOUS
<1>3. /\ n.effect = k.effect /\ n.op = k.op /\ n.id = i /\ ~n.done /\ n.live
      /\ n.was = was /\ CallGood(page, n)
  BY <1>2, SentGood
<1>4. calls' = calls \cup {n}
  BY <1>1, <1>2
<1>5. k.effect \notin Reads /\ (Counted => k.effect = "assume" /\ k.op = "status")
  <2>1. Kind(page, k.op, k.effect)
    BY ControlKind
  <2> QED BY <2>1, ControlsCounted DEF Kind, Reads, Counted
<1>6. TallyTyped'
  BY <1>3, <1>4, <1>5 DEF TallyInv, TallyTyped, Counted
<1>7. \A d \in calls' : CountGood(d)'
  BY <1>3, <1>4, <1>5, CountsKept DEF TallyInv, Reads
<1>8. TallyGood'
  <2>1. SUFFICES ASSUME tally # None, ~miscounted', Counted
        PROVE  /\ tally = Cardinality(Tallied')
               /\ \A c \in calls' : c.effect = "assume" => StatusGood(c)'
    BY DEF TallyGood, TallyInv, TallyTyped
  <2>2. /\ ~miscounted /\ i \notin doubt /\ CallsOn(i) = {} /\ i \in Ids
        /\ page \in {"AllBookings", "PendingApprovals"}
    BY <1>5, <2>1 DEF Send, OnRow, Counted
  <2>3. /\ tally = Cardinality(Tallied)
        /\ \A c \in calls : c.effect = "assume" => StatusGood(c)
    BY <2>1, <2>2 DEF TallyInv, TallyGood
  <2>4. \A j \in Ids : CallsOn(j)' = CallsOn(j) \cup (IF j = i THEN {n} ELSE {})
    BY <1>3, <1>4, <1>5, <2>1 DEF CallsOn
  <2>5. Tallied' = Tallied
    BY <1>3, <2>4 DEF Tallied, Pending, Carried, WasPending
  <2>6. shown[i] = server[i] /\ shown[i] \in Row
    <3>1. page # None
      BY RowPagesAssumption
    <3>2. shown[i] \in Row
      BY <2>1 DEF TypeInv, StateTyped, IsList
    <3> QED BY <2>1, <2>2, <3>1, <3>2, SureWhenSent
  <2>7. StatusGood(n)'
    <3>1. CallsOn(i)' = {n} /\ ~Carried(n)'
      BY <1>3, <2>2, <2>4 DEF Carried
    <3>2. Pending(i)' <=> WasPending(n)
      BY <1>3, <2>1, <2>6, RowPagesAssumption DEF Pending, WasPending
    <3> QED BY <1>3, <3>1, <3>2 DEF StatusGood, WasPending
  <2>8. ASSUME NEW c \in calls, c.effect = "assume" PROVE StatusGood(c)'
    <3>1. c.id \in Ids /\ c \in CallsOn(c.id)
      BY <2>1, <2>8, CountedCalls DEF TallyInv, CallsOn
    <3>2. c.id # i
      BY <2>2, <3>1
    <3>3. CallsOn(c.id)' = CallsOn(c.id)
      BY <2>4, <3>1, <3>2
    <3> QED BY <2>3, <2>8, <3>3 DEF StatusGood, Pending, Carried, WasPending
  <2> QED BY <1>4, <2>3, <2>5, <2>7, <2>8
<1> QED BY <1>6, <1>7, <1>8 DEF TallyInv

LEMMA ClickTally ==
    ASSUME RowsInv, TallyInv, page # None, NEW k \in Controls(page), NEW i \in Ids, Click(k, i)
    PROVE  TallyInv'
<1>1. page \in AllPages /\ TypeInv /\ RowsGood
  BY SomePage DEF RowsInv
<1>2. PICK arg \in Arguments(page, k.op, shown[i]) : Send(k, i, arg, shown[i], i \notin doubt)
  BY DEF Click
<1>3. i \in DOMAIN shown /\ ~loading /\ k.effect \in OnRow /\ UNCHANGED <<page, server, tally>>
  BY <1>1, ClickMakes DEF Click
<1>4. shown[i] \in Row
  BY <1>1, <1>3 DEF TypeInv, StateTyped, IsList
<1>5. k.op \in WithRow => arg \in Row
  BY <1>2, <1>4, ArgumentsTyped
<1>6. k.effect \notin {"append", "all"}
  BY <1>3 DEF OnRow
<1> QED BY <1>1, <1>2, <1>3, <1>5, <1>6, SentTally

LEMMA SubmitTally ==
    ASSUME RowsInv, TallyInv, page # None, NEW k \in Controls(page), Submit(k)
    PROVE  TallyInv'
<1>1. page \in AllPages /\ TypeInv /\ RowsGood
  BY SomePage DEF RowsInv
<1>2. dialog # None /\ dialog.op = k.op /\ UNCHANGED <<page, server, tally>>
  BY DEF Submit
<1>3. /\ dialog.op # "readAll" /\ (dialog.op = "create" <=> dialog.id = None)
      /\ dialog.id # None => dialog.id \in Ids /\ dialog.was \in Row
  BY <1>1, <1>2 DEF TypeInv, DialogTyped
<1>4. PICK arg, was, sure :
         /\ arg \in IF k.op = "status" THEN {[dialog.was EXCEPT !.st = {"cancelled"}]}
                    ELSE IF dialog.id = None THEN {None}
                    ELSE Arguments(page, k.op, dialog.was)
         /\ Send(k, dialog.id, arg, was, sure)
         /\ was = IF k.op = "status" THEN shown[dialog.id] ELSE dialog.was
  BY DEF Submit
<1>5. Kind(page, k.op, k.effect)
  BY <1>1, ControlKind
<1>6. /\ k.effect \in OnRow => dialog.id \in Ids
      /\ k.effect \in {"append", "all"} => dialog.id = None
  BY <1>2, <1>3, <1>5 DEF Kind, OnRow
<1>7. k.op \in WithRow => arg \in Row
  <2>1. ASSUME k.op \in WithRow PROVE dialog.id # None /\ dialog.was \in Row
    BY <1>2, <1>3, <2>1 DEF WithRow
  <2>2. CASE k.op = "status"
    BY <1>4, <2>1, <2>2 DEF WithRow, Row, Flags
  <2>3. CASE k.op # "status"
    BY <1>4, <2>1, <2>3, ArgumentsTyped
  <2> QED BY <2>2, <2>3
<1>8. Counted => dialog.id \in DOMAIN shown /\ ~loading /\ was = shown[dialog.id]
  <2>1. ASSUME Counted PROVE k.op = "status" /\ page \in {"AllBookings", "PendingApprovals"}
    BY <2>1, ControlsCounted DEF Counted
  <2>2. k.op = "status" => dialog.id # None
    BY <1>2, <1>3
  <2> QED BY <1>4, <2>1, <2>2 DEF Submit
<1> QED BY <1>1, <1>2, <1>4, <1>6, <1>7, <1>8, SentTally

(* Where calls on rows neither come nor go. *)
LEMMA QuietTally ==
    ASSUME TypeInv, TallyInv, UNCHANGED <<page, server, tally>>, ~miscounted' => ~miscounted,
           \A d \in calls' : \/ d \in calls \/ d.effect = "load"
                             \/ d.effect = "all" /\ ~Counted
                             \/ d.effect = "count" /\ CountGood(d)',
           \A c \in calls : c \in calls' \/ c.effect \in Reads,
           \A d \in calls' : d.effect \in Reads => d.op \in Reads /\ d.id = None
    PROVE  TallyInv'
<1>1. TallyTyped'
  BY DEF TallyInv, TallyTyped, Counted, Reads
<1>2. \A d \in calls' : CountGood(d)'
  <2>1. ASSUME NEW d \in calls', d \in calls PROVE CountGood(d)'
    BY <2>1 DEF TallyInv, CountGood, Counted
  <2> QED BY <2>1 DEF CountGood
<1>3. \A i \in Ids : Counted => CallsOn(i)' = CallsOn(i)
  <2>1. \A c \in calls : c.effect \in Reads => c.op \in Reads /\ c.id = None
    BY DEF TypeInv, CallGood, Reads
  <2>2. \A i \in Ids : i # None
    BY RowPagesAssumption DEF Ids
  <2> QED BY <2>1, <2>2 DEF CallsOn, Reads
<1>4. \A c \in calls' : c.effect = "assume" => c \in calls /\ c.id \in Ids
  BY DEF TypeInv, CallGood, OnRow
<1>5. TallyGood'
  BY <1>3, <1>4, TallyStill DEF TallyInv
<1> QED BY <1>1, <1>2, <1>5 DEF TallyInv

LEMMA ServeListTally ==
    ASSUME RowsInv, TallyInv, NEW c \in calls, ServeList(c)
    PROVE  TallyInv'
<1>1. TypeInv /\ CallGood(page, c) /\ c.effect \in Reads
  BY DEF RowsInv, TypeInv, ServeList, Reads
<1>2. PICK d : /\ calls' = (calls \ {c}) \cup {d} /\ d.effect = c.effect /\ d.op = c.op
               /\ d.id = None /\ d.tab = c.tab
               /\ d.list = [i \in {j \in Ids : Listed(page, c.tab, server[j])} |-> server[i]]
  BY <1>1, ServeListMakes
<1>3. UNCHANGED <<page, server, tally, miscounted>>
  BY DEF ServeList
<1>4. c.op \in Reads /\ (d.effect = "load" \/ d.effect = "count")
  BY <1>1, <1>2 DEF CallGood, Reads
<1>5. d.effect = "count" => CountGood(d)'
  <2>1. SUFFICES ASSUME d.effect = "count"
        PROVE  /\ Counted' /\ d.tab = "all" /\ DOMAIN d.list \subseteq Ids
               /\ \A i \in Ids : /\ i \in DOMAIN d.list <=> server'[i] # None
                                 /\ i \in DOMAIN d.list => d.list[i] = server'[i]
    BY DEF CountGood
  <2>2. Counted /\ c.tab = "all" /\ page \in {"AllBookings", "PendingApprovals"}
    BY <1>2, <2>1 DEF TallyInv, CountGood, Counted
  <2>3. \A i \in Ids : Listed(page, "all", server[i]) <=> server[i] # None
    BY <2>2 DEF Listed
  <2> QED BY <1>2, <1>3, <2>2, <2>3 DEF Counted
<1>6. \A b \in calls' : b.effect \in Reads => b.op \in Reads /\ b.id = None
  BY <1>1, <1>2, <1>4 DEF TypeInv, CallGood, Reads
<1> QED BY <1>1, <1>2, <1>3, <1>4, <1>5, <1>6, QuietTally

LEMMA ReadAllTally ==
    ASSUME RowsInv, TallyInv, page # None, NEW k \in Controls(page), ReadAll(k)
    PROVE  TallyInv'
<1>1. TypeInv /\ page = "Notifications" /\ UNCHANGED <<page, server, tally, miscounted>>
  BY ReadAllTyped DEF RowsInv, ReadAll
<1>2. PICK c : calls' = calls \cup {c} /\ c.effect = "all"
  BY <1>1, ReadAllTyped
<1>3. \A b \in calls' : b.effect \in Reads => b.op \in Reads /\ b.id = None
  BY <1>1, <1>2 DEF TypeInv, CallGood, Reads
<1> QED BY <1>1, <1>2, <1>3, QuietTally DEF Counted

LEMMA ListTally ==
    ASSUME RowsInv, TallyInv, Retry \/ \E t \in {"all", "pending"} : ChooseTab(t)
    PROVE  TallyInv'
<1>1. TypeInv /\ UNCHANGED <<page, server, tally, miscounted>>
  BY DEF RowsInv, Retry, ChooseTab
<1>2. PICK s, t : calls' = calls \cup {Reading(s, "load", t)}
  BY DEF Retry, ChooseTab
<1>3. PICK n : n = Reading(s, "load", t)
  OBVIOUS
<1>4. n.effect = "load" /\ n.op = "load" /\ n.id = None /\ calls' = calls \cup {n}
  BY <1>2, <1>3, ReadingGood DEF Reads
<1>5. \A b \in calls' : b.effect \in Reads => b.op \in Reads /\ b.id = None
  BY <1>1, <1>4 DEF TypeInv, CallGood, Reads
<1> QED BY <1>1, <1>4, <1>5, QuietTally

LEMMA DialogTally ==
    ASSUME RowsInv, TallyInv, UNCHANGED <<page, server, tally, miscounted, calls>>
    PROVE  TallyInv'
<1>1. \A b \in calls' : b.effect \in Reads => b.op \in Reads /\ b.id = None
  BY DEF RowsInv, TypeInv, CallGood, Reads
<1> QED BY <1>1, QuietTally DEF RowsInv

LEMMA ListAnswersTally ==
    ASSUME RowsInv, TallyInv, NEW c \in calls, ListArrives(c) \/ ListFails(c)
    PROVE  TallyInv'
<1>1. TypeInv /\ UNCHANGED <<page, server, tally, miscounted>> /\ calls' = calls \ {c} /\ c.effect \in Reads
  BY DEF RowsInv, ListArrives, ListFails, Reads
<1>2. \A b \in calls' : b.effect \in Reads => b.op \in Reads /\ b.id = None
  BY <1>1 DEF TypeInv, CallGood, Reads
<1> QED BY <1>1, <1>2, QuietTally

(* The count is of every booking, or is given up. *)
LEMMA CountArrivesTally ==
    ASSUME RowsInv, TallyInv, NEW c \in calls, CountArrives(c)
    PROVE  TallyInv'
<1>1. /\ TypeInv /\ TallyTyped /\ UNCHANGED <<page, server>> /\ calls' = calls \ {c}
      /\ c.effect = "count" /\ c.done /\ tally' = PendingIn(c.list)
      /\ miscounted' = (c.moved # {} \/ \E d \in calls : d.effect = "assume")
  BY DEF RowsInv, TallyInv, CountArrives
<1>2. Counted /\ CountGood(c) /\ Counted'
  BY <1>1 DEF TallyInv, CountGood, Counted
<1>3. TallyTyped'
  BY <1>1, <1>2 DEF TallyTyped
<1>4. \A d \in calls' : CountGood(d)'
  BY <1>1, CountsKept DEF TallyInv
<1>5. TallyGood'
  <2>1. SUFFICES ASSUME ~miscounted'
        PROVE  tally' = Cardinality(Tallied') /\ \A d \in calls' : d.effect # "assume"
    BY DEF TallyGood
  <2>2. c.moved = {} /\ \A d \in calls : d.effect # "assume"
    BY <1>1, <2>1
  <2>3. \A i \in Ids : CallsOn(i)' = {}
    BY <1>1, <1>2, <2>2, CountedCalls DEF CallsOn
  <2>4. Tallied' = {i \in Ids : server[i] # None /\ server[i].st = {"pending"}}
    BY <1>1, <2>3 DEF Tallied, Pending
  <2>5. {i \in DOMAIN c.list : c.list[i] # None /\ c.list[i].st = {"pending"}}
        = {i \in Ids : server[i] # None /\ server[i].st = {"pending"}}
    BY <1>1, <1>2, <2>2 DEF CountGood
  <2> QED BY <1>1, <2>2, <2>4, <2>5 DEF PendingIn
<1> QED BY <1>3, <1>4, <1>5 DEF TallyInv

(* A page that mounts has no count, and asks for one. *)
LEMMA MountedTally ==
    ASSUME NEW p, NEW kept, Mounted(p, kept), page' = p, \A c \in kept : c.effect \notin Reads,
           p \in {"AllBookings", "PendingApprovals"} => \A c \in kept : c.effect = "assume"
    PROVE  TallyInv'
<1>1. tally' = None
  BY DEF Mounted
<1>2. \A d \in calls' :
         \/ d \in kept
         \/ d.effect = "load"
         \/ d.effect = "count" /\ d.tab = "all" /\ ~d.done /\ p \in {"AllBookings", "PendingApprovals"}
  <2>1. PICK s, r \in Slots :
           calls' = kept \cup {Reading(s, "load", tab')}
              \cup (IF p \in {"AllBookings", "PendingApprovals"}
                    THEN {Reading(r, "count", "all")} ELSE {})
    BY DEF Mounted
  <2>2. PICK a, b : a = Reading(s, "load", tab') /\ b = Reading(r, "count", "all")
    OBVIOUS
  <2>3. a.effect = "load"
    BY <2>2, ReadingGood DEF Reads
  <2>4. b.effect = "count" /\ b.tab = "all" /\ ~b.done
    BY <2>2, ReadingGood DEF Reads
  <2>5. calls' = kept \cup {a} \cup (IF p \in {"AllBookings", "PendingApprovals"} THEN {b} ELSE {})
    BY <2>1, <2>2
  <2> QED BY <2>3, <2>4, <2>5
<1>3. TallyTyped'
  BY <1>1, <1>2 DEF TallyTyped, Counted, Reads
<1>4. TallyGood'
  BY <1>1 DEF TallyGood
<1>5. \A d \in calls' : CountGood(d)'
  BY <1>2 DEF CountGood, Counted, Reads
<1> QED BY <1>3, <1>4, <1>5 DEF TallyInv

LEMMA EnterTally ==
    ASSUME NEW p \in Pages, Enter(p)
    PROVE  TallyInv'
BY MountedTally DEF Enter

LEMMA ReturnTally ==
    ASSUME RowsInv, TallyInv, Return
    PROVE  TallyInv'
<1> DEFINE kept == {[c EXCEPT !.live = FALSE] : c \in {d \in calls : d.effect \notin {"load", "count"}}}
<1>1. page' = page /\ Mounted(page, kept)
  BY DEF Return
<1>2. \A d \in kept : /\ d.effect \notin Reads
                      /\ page \in {"AllBookings", "PendingApprovals"} => d.effect = "assume"
  <2>1. TAKE d \in kept
  <2>2. PICK c \in calls : d = [c EXCEPT !.live = FALSE] /\ c.effect \notin Reads
    BY DEF Reads
  <2>3. Shaped(c)
    BY DEF RowsInv, TypeInv, CallGood
  <2>4. d.effect = c.effect
    BY <2>2, <2>3, DeadCall
  <2> QED BY <2>2, <2>4 DEF TallyInv, TallyTyped, Counted
<1> HIDE DEF kept
<1> QED BY <1>1, <1>2, MountedTally

LEMMA ElsewhereTally ==
    ASSUME RowsInv, TallyInv, NEW i \in Ids, Elsewhere(i)
    PROVE  TallyInv'
<1>1. /\ \A x \in calls : CallGood(page, x)
      /\ calls' = Moved(calls, i) /\ UNCHANGED <<page, tally>> /\ miscounted' = Counted
  BY DEF RowsInv, TypeInv, Elsewhere
<1>2. \A d \in calls' : \E x \in calls : d.effect = x.effect
  <2>1. \A d \in Moved(calls, i) : \E x \in calls : Follows(x, d, i)
    BY <1>1, MovedGood
  <2> QED BY <1>1, <2>1 DEF Follows
<1>3. TallyTyped'
  BY <1>1, <1>2 DEF TallyInv, TallyTyped, Counted
<1>4. TallyGood'
  BY <1>1 DEF TallyInv, TallyTyped, TallyGood
<1>5. \A d \in calls' : CountGood(d)'
  BY <1>1, CountsMoved DEF TallyInv
<1> QED BY <1>3, <1>4, <1>5 DEF TallyInv

(* A change of status is carried out: the booking is counted as it was. *)
LEMMA ServeTally ==
    ASSUME RowsInv, TallyInv, NEW c \in calls, Serve(c)
    PROVE  TallyInv'
<1>1. TypeInv /\ StateTyped /\ CallGood(page, c) /\ TallyTyped
  BY DEF RowsInv, TypeInv, TallyInv
<1>2. /\ c.effect \in OnRow /\ c.id \in Ids /\ ~c.done /\ page' = page
      /\ \A i \in Ids \ {c.id} : server'[i] = server[i]
  BY <1>1, ServeMakes
<1>3. PICK d :
         /\ calls' = Moved((calls \ {c}) \cup {d}, c.id) /\ CallGood(page, d)
         /\ d.done /\ (d.live = c.live) /\ d.effect = c.effect /\ d.op = c.op
         /\ d.id = c.id /\ d.arg = c.arg /\ d.was = c.was
         /\ d.row = Served(c.op, server[c.id], c.arg)
         /\ d.row \in Row \cup {None, Refused}
         /\ server[c.id] = None => d.row = Refused
         /\ server'[c.id] = IF d.row = Refused THEN server[c.id] ELSE d.row
  BY <1>1, ServeMakes
<1>4. tally' = tally /\ miscounted' = (miscounted \/ (Counted /\ ~c.live))
  BY DEF Serve
<1> DEFINE cs == (calls \ {c}) \cup {d}
<1>5. \A x \in cs : CallGood(page, x)
  BY <1>1, <1>3 DEF TypeInv
<1>6. calls' = Moved(cs, c.id)
  BY <1>3
<1>7. \A x \in cs : x = d \/ (x \in calls /\ x # c)
  OBVIOUS
<1>8. d \in cs /\ \A x \in calls : x = c \/ x \in cs
  OBVIOUS
<1> HIDE DEF cs
<1>9. \A b \in calls' : \E x \in cs : Follows(x, b, c.id)
  <2>1. \A b \in Moved(cs, c.id) : \E x \in cs : Follows(x, b, c.id)
    BY <1>5, MovedGood
  <2> QED BY <1>6, <2>1
<1>10. TallyTyped'
  <2>1. \A b \in calls' : \E x \in calls : b.effect = x.effect
    BY <1>3, <1>7, <1>9 DEF Follows
  <2> QED BY <1>1, <1>2, <1>4, <2>1 DEF TallyTyped, Counted
<1>11. \A b \in calls' : CountGood(b)'
  <2>1. \A x \in cs : x.effect = "count" => CountGood(x)
    BY <1>2, <1>3, <1>7 DEF TallyInv, OnRow
  <2> QED BY <1>2, <1>5, <1>6, <2>1, CountsMoved
<1>12. TallyGood'
  <2>1. SUFFICES ASSUME tally # None, ~miscounted, Counted, c.live
        PROVE  /\ tally = Cardinality(Tallied')
               /\ \A b \in calls' : b.effect = "assume" => StatusGood(b)'
    BY <1>1, <1>4 DEF TallyGood, TallyTyped
  <2>2. tally = Cardinality(Tallied) /\ \A b \in calls : b.effect = "assume" => StatusGood(b)
    BY <2>1 DEF TallyInv, TallyGood
  <2>3. c.effect = "assume" /\ c.op = "status"
    BY <1>1, <1>2, <2>1, CountedCalls DEF TallyTyped, OnRow, Reads
  <2>4. /\ StatusGood(c) /\ CallsOn(c.id) = {c} /\ ~Carried(c)
        /\ Pending(c.id) <=> WasPending(c)
    BY <1>2, <2>2, <2>3 DEF StatusGood, CallsOn, Carried
  <2>5. \A j \in Ids : CallsOn(j)' = {x \in cs : x.id = j \/ x.op = "readAll"}
    BY <1>5, <1>6, MovedCallsOn
  <2>6. CallsOn(c.id)' = {d}
    <3>1. \A x \in cs : x.id = c.id \/ x.op = "readAll" => x = d
      BY <1>7, <2>4 DEF CallsOn
    <3> QED BY <1>2, <1>3, <1>8, <2>5, <3>1
  <2>7. ASSUME NEW j \in Ids, j # c.id PROVE CallsOn(j)' = CallsOn(j)
    <3>1. c \notin CallsOn(j) /\ d.id # j /\ d.op # "readAll"
      BY <1>3, <2>3, <2>7 DEF CallsOn
    <3> QED BY <1>7, <1>8, <2>5, <2>7, <3>1 DEF CallsOn
  <2>8. IF d.row = Refused THEN server'[c.id] = server[c.id]
        ELSE server'[c.id] # None /\ server'[c.id].st = c.arg.st
    <3>1. CASE server[c.id] = None
      BY <1>3, <3>1
    <3>2. CASE server[c.id] # None
      <4>1. PICK s \in SUBSET Flags, n \in Nat : server[c.id] = [st |-> s, rest |-> n]
        BY <1>1, <1>2, <3>2 DEF StateTyped, Row
      <4>2. d.row = [st |-> c.arg.st, rest |-> n]
        BY <1>3, <2>3, <3>2, <4>1 DEF Served
      <4>3. d.row # None
        <5>1. c.arg \in Row
          BY <1>1, <2>3 DEF CallGood, WithRow
        <5>2. d.row \in Row
          BY <4>2, <5>1 DEF Row
        <5> QED BY <5>2, RowPagesAssumption
      <4> QED BY <1>3, <4>2, <4>3
    <3> QED BY <3>1, <3>2
  <2>9. StatusGood(d)' /\ (Carried(d)' <=> d.row # Refused)
    <3>1. Carried(d)' <=> d.row # Refused
      BY <1>3, <2>1 DEF Carried
    <3>2. d.live /\ \A b \in CallsOn(d.id)' : b = d
      BY <1>3, <2>1, <2>6
    <3>3. Pending(d.id)' <=> IF d.row # Refused THEN d.arg.st = {"pending"} ELSE WasPending(d)
      BY <1>3, <2>4, <2>8 DEF Pending, WasPending
    <3> QED BY <3>1, <3>2, <3>3 DEF StatusGood, WasPending
  <2>10. Tallied' = Tallied
    <3>1. c.id \in Tallied' <=> c.id \in Tallied
      BY <1>2, <1>3, <2>4, <2>6, <2>8, <2>9 DEF Tallied, Pending, WasPending
    <3>2. ASSUME NEW j \in Ids, j # c.id PROVE j \in Tallied' <=> j \in Tallied
      BY <1>2, <2>7, <3>2 DEF Tallied, Pending, WasPending, Carried
    <3>3. Tallied \subseteq Ids /\ Tallied' \subseteq Ids
      BY DEF Tallied
    <3> QED BY <3>1, <3>2, <3>3
  <2>11. ASSUME NEW b \in calls', b.effect = "assume" PROVE StatusGood(b)'
    <3>1. b \in cs
      BY <1>9, <2>11 DEF Follows, Reads
    <3>2. CASE b = d
      BY <2>9, <3>2
    <3>3. CASE b \in calls /\ b # c
      <4>1. b.id \in Ids /\ b.id # c.id
        BY <1>1, <2>1, <2>4, <2>11, <3>3, CountedCalls DEF CallsOn
      <4>2. CallsOn(b.id)' = CallsOn(b.id) /\ server'[b.id] = server[b.id]
        BY <1>2, <2>7, <4>1
      <4> QED BY <2>2, <2>11, <3>3, <4>2 DEF StatusGood, Pending, Carried, WasPending
    <3> QED BY <1>7, <3>1, <3>2, <3>3
  <2> QED BY <2>2, <2>10, <2>11
<1> QED BY <1>10, <1>11, <1>12 DEF TallyInv

LEMMA ServeNewTally ==
    ASSUME RowsInv, TallyInv, NEW c \in calls, ServeNew(c)
    PROVE  TallyInv'
<1>1. TypeInv /\ StateTyped /\ CallGood(page, c) /\ TallyTyped /\ page' = page /\ tally' = tally
  BY DEF RowsInv, TypeInv, TallyInv, ServeNew
<1>2. c.effect = "append" /\ ~Counted /\ tally = None
  BY <1>1 DEF ServeNew, TallyTyped, Reads
<1>3. PICK d :
         /\ calls' = Moved((calls \ {c}) \cup {d}, NewRow) /\ CallGood(page, d)
         /\ d.effect = "append"
  BY <1>1, ServeNewMakes
<1> DEFINE cs == (calls \ {c}) \cup {d}
<1>4. /\ \A x \in cs : CallGood(page, x)
      /\ \A x \in cs : x.effect = "count" => CountGood(x)
      /\ calls' = Moved(cs, NewRow)
  BY <1>1, <1>3 DEF TypeInv, TallyInv
<1> HIDE DEF cs
<1>5. \A b \in calls' : CountGood(b)'
  BY <1>1, <1>4, CountsMoved
<1>6. TallyTyped' /\ TallyGood'
  BY <1>1, <1>2 DEF TallyTyped, TallyGood, Counted
<1> QED BY <1>5, <1>6 DEF TallyInv

LEMMA ServeAllTally ==
    ASSUME RowsInv, TallyInv, NEW c \in calls, ServeAll(c)
    PROVE  TallyInv'
<1>1. StateTyped /\ (\A b \in calls : CallGood(page, b)) /\ TallyTyped
  BY DEF RowsInv, TypeInv, TallyInv
<1>2. c.effect = "all" /\ page = "Notifications" /\ page' = page /\ tally' = tally
  BY <1>1, ServeAllMakes DEF ServeAll
<1>3. ~Counted /\ tally = None
  BY <1>1, <1>2 DEF Counted, TallyTyped
<1>4. PICK d : d = [c EXCEPT !.done = TRUE]
  OBVIOUS
<1>5. d.effect = "all"
  BY <1>1, <1>2, <1>4, DoneCall DEF CallGood
<1>6. ASSUME NEW b \in calls', b.effect = "count" PROVE FALSE
  <2>1. PICK e \in (calls \ {c}) \cup {d} :
            b = IF e.effect = "load" /\ e.done THEN [e EXCEPT !.moved = Ids] ELSE e
    BY <1>4 DEF ServeAll
  <2>2. CASE e.effect = "load" /\ e.done
    <3>1. Shaped(e) /\ b = [e EXCEPT !.moved = Ids]
      BY <1>1, <1>5, <2>1, <2>2 DEF CallGood
    <3>2. b.effect = e.effect
      BY <3>1, MovedCall
    <3> QED BY <1>6, <2>2, <3>2
  <2>3. CASE ~(e.effect = "load" /\ e.done)
    BY <1>3, <1>5, <1>6, <2>1, <2>3 DEF TallyInv, CountGood
  <2> QED BY <2>2, <2>3
<1>7. TallyTyped' /\ TallyGood' /\ \A b \in calls' : CountGood(b)'
  BY <1>2, <1>3, <1>6 DEF TallyTyped, TallyGood, CountGood, Counted
<1> QED BY <1>7 DEF TallyInv

(* Where a call on a row ends, its booking has none. *)
LEMMA EndedTally ==
    ASSUME TypeInv, TallyTyped, Counted, NEW c \in calls, c.effect = "assume", StatusGood(c),
           UNCHANGED <<page, server>>, calls' = calls \ {c},
           \A b \in calls : b.effect = "assume" => StatusGood(b)
    PROVE  /\ c.id \in Ids /\ CallsOn(c.id) = {c} /\ CallsOn(c.id)' = {}
           /\ \A j \in Ids \ {c.id} : j \in Tallied' <=> j \in Tallied
           /\ c.id \in Tallied' <=> Pending(c.id)
           /\ \A b \in calls' : b.effect = "assume" => StatusGood(b)'
<1>1. c.id \in Ids /\ CallsOn(c.id) = {c}
  BY CountedCalls DEF StatusGood, CallsOn
<1>2. \A j \in Ids : CallsOn(j)' = CallsOn(j) \ {c}
  BY DEF CallsOn
<1>3. \A j \in Ids \ {c.id} : CallsOn(j)' = CallsOn(j)
  BY <1>2, CountedCalls
<1>4. CallsOn(c.id)' = {}
  BY <1>1, <1>2
<1>5. ASSUME NEW j \in Ids \ {c.id} PROVE j \in Tallied' <=> j \in Tallied
  BY <1>3 DEF Tallied, Pending, WasPending, Carried
<1>6. c.id \in Tallied' <=> Pending(c.id)
  BY <1>1, <1>4 DEF Tallied, Pending
<1>7. ASSUME NEW b \in calls', b.effect = "assume" PROVE StatusGood(b)'
  <2>1. b \in calls /\ b # c
    OBVIOUS
  <2>2. b.id \in Ids /\ b.id # c.id
    BY <1>1, <1>7, <2>1, CountedCalls DEF CallsOn
  <2>3. CallsOn(b.id)' = CallsOn(b.id)
    BY <1>3, <2>2
  <2> QED BY <1>7, <2>1, <2>3 DEF StatusGood, Pending, Carried, WasPending
<1> QED BY <1>1, <1>4, <1>5, <1>6, <1>7

LEMMA SucceedTally ==
    ASSUME RowsInv, TallyInv, NEW c \in calls, Succeed(c)
    PROVE  TallyInv'
<1>1. /\ TypeInv /\ TallyTyped /\ UNCHANGED <<page, server>> /\ calls' = calls \ {c}
      /\ c.effect \notin Reads /\ c.done /\ c.row # Refused
      /\ tally' = IF c.live THEN Recount(c) ELSE tally
      /\ miscounted' = (miscounted \/ (tally = None /\ tally' # None))
  BY DEF RowsInv, TallyInv, Succeed, Reads
<1>2. \A b \in calls' : CountGood(b)'
  BY <1>1, CountsKept DEF TallyInv
<1>3. TallyTyped'
  BY <1>1 DEF TallyTyped, Counted, Recount
<1>4. TallyGood'
  <2>1. SUFFICES ASSUME tally # None, ~miscounted, Counted
        PROVE  tally' = Cardinality(Tallied') /\ \A b \in calls' : b.effect = "assume" => StatusGood(b)'
    BY <1>1 DEF TallyGood, TallyTyped, Recount
  <2>2. tally = Cardinality(Tallied) /\ \A b \in calls : b.effect = "assume" => StatusGood(b)
    BY <2>1 DEF TallyInv, TallyGood
  <2>3. c.effect = "assume" /\ c.op = "status" /\ StatusGood(c) /\ Carried(c)
    BY <1>1, <2>1, <2>2, CountedCalls DEF TallyTyped, StatusGood, Carried
  <2>4. /\ c.id \in Ids /\ CallsOn(c.id) = {c}
        /\ \A j \in Ids \ {c.id} : j \in Tallied' <=> j \in Tallied
        /\ c.id \in Tallied' <=> Pending(c.id)
        /\ \A b \in calls' : b.effect = "assume" => StatusGood(b)'
    BY <1>1, <2>1, <2>2, <2>3, EndedTally
  <2>5. /\ c.id \in Tallied <=> WasPending(c)
        /\ c.id \in Tallied' <=> c.arg.st = {"pending"}
    BY <2>3, <2>4 DEF Tallied, StatusGood
  <2>6. Tallied \subseteq Ids /\ Tallied' \subseteq Ids
    BY DEF Tallied
  <2>7. PICK S, T : S = Tallied /\ T = Tallied'
    OBVIOUS
  <2>8. /\ tally \in Nat /\ (c.id \in S => tally > 0)
        /\ Cardinality(T) = IF c.id \in T THEN (IF c.id \in S THEN tally - 1 ELSE tally) + 1
                            ELSE IF c.id \in S THEN tally - 1 ELSE tally
    <3>1. /\ S \subseteq Ids /\ T \subseteq Ids /\ tally = Cardinality(S) /\ c.id \in Ids
          /\ \A j \in Ids \ {c.id} : j \in S <=> j \in T
      BY <2>2, <2>4, <2>6, <2>7
    <3> QED BY ONLY <3>1, TallyMoves
  <2>9. tally' = Recount(c)
    BY <1>1, <2>3 DEF Carried
  <2>10. Recount(c) = IF c.arg.st = {"pending"}
                      THEN (IF WasPending(c) /\ tally > 0 THEN tally - 1 ELSE tally) + 1
                      ELSE IF WasPending(c) /\ tally > 0 THEN tally - 1 ELSE tally
    <3>1. tally \in Nat /\ None \notin Nat
      BY <2>8, RowPagesAssumption
    <3>2. PICK less : less = IF WasPending(c) /\ tally > 0 THEN tally - 1 ELSE tally
      OBVIOUS
    <3>3. less \in Nat /\ (tally > 0 <=> tally \notin {None, 0})
      BY <3>1, <3>2
    <3>4. OneMore(less) = less + 1
      BY <3>1, <3>3 DEF OneMore
    <3> QED BY <2>1, <2>3, <3>2, <3>3, <3>4 DEF Recount, WasPending
  <2>11. tally' = Cardinality(T)
    BY <2>5, <2>7, <2>8, <2>9, <2>10
  <2> QED BY <2>4, <2>7, <2>11
<1> QED BY <1>2, <1>3, <1>4 DEF TallyInv

LEMMA FailTally ==
    ASSUME RowsInv, TallyInv, NEW c \in calls, Fail(c)
    PROVE  TallyInv'
<1>1. /\ TypeInv /\ TallyTyped /\ UNCHANGED <<page, server, tally>> /\ calls' = calls \ {c}
      /\ c.effect \notin Reads
      /\ miscounted' = (miscounted \/ (Counted /\ c.done /\ c.row # Refused))
  BY DEF RowsInv, TallyInv, Fail, Reads
<1>2. \A b \in calls' : CountGood(b)'
  BY <1>1, CountsKept DEF TallyInv
<1>3. TallyTyped'
  BY <1>1 DEF TallyTyped, Counted
<1>4. TallyGood'
  <2>1. SUFFICES ASSUME tally # None, ~miscounted, Counted, ~Carried(c)
        PROVE  tally = Cardinality(Tallied') /\ \A b \in calls' : b.effect = "assume" => StatusGood(b)'
    BY <1>1 DEF TallyGood, TallyTyped, Carried
  <2>2. tally = Cardinality(Tallied) /\ \A b \in calls : b.effect = "assume" => StatusGood(b)
    BY <2>1 DEF TallyInv, TallyGood
  <2>3. c.effect = "assume" /\ StatusGood(c)
    BY <1>1, <2>1, <2>2 DEF TallyTyped
  <2>4. /\ c.id \in Ids /\ CallsOn(c.id) = {c}
        /\ \A j \in Ids \ {c.id} : j \in Tallied' <=> j \in Tallied
        /\ c.id \in Tallied' <=> Pending(c.id)
        /\ \A b \in calls' : b.effect = "assume" => StatusGood(b)'
    BY <1>1, <2>1, <2>2, <2>3, EndedTally
  <2>5. c.id \in Tallied <=> Pending(c.id)
    BY <2>1, <2>4 DEF Tallied
  <2>6. Tallied' = Tallied
    BY <2>4, <2>5 DEF Tallied
  <2> QED BY <2>2, <2>4, <2>6
<1> QED BY <1>2, <1>3, <1>4 DEF TallyInv

LEMMA StepTally ==
    ASSUME RowsInv, TallyInv, [Next]_vars
    PROVE  TallyInv'
<1>1. CASE \E p \in Pages : Enter(p)
  BY <1>1, EnterTally
<1>2. CASE Return \/ Retry \/ \E t \in {"all", "pending"} : ChooseTab(t)
  BY <1>2, ReturnTally, ListTally
<1>3. CASE Dismiss \/ UNCHANGED vars
  BY <1>3, DialogTally DEF Dismiss, vars
<1>4. CASE \E i \in Ids : Elsewhere(i)
  BY <1>4, ElsewhereTally
<1>5. CASE page # None /\ \E k \in Controls(page) :
              \/ Submit(k) \/ ReadAll(k) \/ OpenDialog(k, None)
              \/ \E i \in Ids : Click(k, i) \/ OpenDialog(k, i)
  <2>1. PICK k \in Controls(page) :
           \/ Submit(k) \/ ReadAll(k) \/ OpenDialog(k, None)
           \/ \E i \in Ids : Click(k, i) \/ OpenDialog(k, i)
    BY <1>5
  <2>2. CASE OpenDialog(k, None) \/ \E i \in Ids : OpenDialog(k, i)
    BY <2>2, DialogTally DEF OpenDialog
  <2> QED BY <1>5, <2>1, <2>2, SubmitTally, ReadAllTally, ClickTally
<1>6. CASE \E c \in calls :
              \/ ServeList(c) \/ Serve(c) \/ ServeNew(c) \/ ServeAll(c)
              \/ ListArrives(c) \/ CountArrives(c) \/ ListFails(c) \/ Succeed(c) \/ Fail(c)
  BY <1>6, ServeListTally, ServeTally, ServeNewTally, ServeAllTally,
     ListAnswersTally, CountArrivesTally, SucceedTally, FailTally
<1> QED BY <1>1, <1>2, <1>3, <1>4, <1>5, <1>6 DEF Next

(* The count on the tab "pending" is the number of pending bookings, once   *)
(* no change of status is in flight, unless miscounted names a reason       *)
(* (TallyExplained, AllBookings.jsx:71-83).                                 *)
THEOREM TallyAlwaysExplained == Spec => []TallyExplained
<1>1. Init => RowsInv /\ TallyInv
  <2>1. Init => RowsInv
    BY InitRows
  <2>2. Init => TallyInv
    <3>1. SUFFICES ASSUME Init PROVE TallyInv
      OBVIOUS
    <3>2. calls = {} /\ tally = None
      BY <3>1 DEF Init
    <3> QED BY <3>2 DEF TallyInv, TallyTyped, TallyGood
  <2> QED BY <2>1, <2>2
<1>2. RowsInv /\ TallyInv /\ [Next]_vars => RowsInv' /\ TallyInv'
  BY StepRows, StepTally
<1>3. RowsInv /\ TallyInv => TallyExplained
  <2>1. SUFFICES ASSUME RowsInv, TallyInv, tally # None, ~miscounted,
                        \A c \in calls : c.effect # "assume"
        PROVE  tally = PendingIn(server)
    BY DEF TallyExplained
  <2>2. Counted /\ TallyTyped /\ TypeInv /\ tally = Cardinality(Tallied)
    BY <2>1 DEF RowsInv, TallyInv, TallyTyped, TallyGood
  <2>3. \A i \in Ids : CallsOn(i) = {}
    BY <2>1, <2>2, CountedCalls DEF CallsOn
  <2>4. DOMAIN server = Ids
    BY <2>2 DEF TypeInv, StateTyped
  <2>5. Tallied = {i \in DOMAIN server : server[i] # None /\ server[i].st = {"pending"}}
    BY <2>3, <2>4 DEF Tallied, Pending
  <2> QED BY <2>2, <2>5 DEF PendingIn
<1> QED BY <1>1, <1>2, <1>3, PTL DEF Spec

=============================================================================
