------------------------------ MODULE Bookings ------------------------------
(***************************************************************************)
(* Creating, paying for, cancelling, checking in and overriding bookings.  *)
(*                                                                         *)
(* A worker is a thread that serves one HTTP request at a time with one    *)
(* SQLAlchemy session (2 replicas x 2 uvicorn processes x a thread pool).  *)
(* PostgreSQL runs at READ COMMITTED and no handler takes a row lock, so   *)
(* requests interleave between any two statements.  An action is one       *)
(* statement that reads shared rows, or one commit, with the Python code   *)
(* around it; what a request carries from one to the next is in req[w].    *)
(* Requests that end in a 4xx without writing change nothing and are left  *)
(* out.  A crash (a killed process, a lost connection) ends a request      *)
(* anywhere; its session is rolled back and its commits remain.            *)
(***************************************************************************)
EXTENDS Availability

CONSTANTS
    Workers,           \* the threads that serve requests
    Stays,             \* the stays guests ask for
    BookingIds,        \* bound: the bookings that can ever be placed
    PaymentIds,        \* bound: the payments that can ever be created
    Closures,          \* bound: the blackout dates staff may enter
    OverrideStatuses   \* bound: the statuses staff set by hand

BookingStatus == {"pending", "confirmed", "cancelled", "completed"}

ASSUME StaysAssumption == Stays \subseteq Stay
ASSUME ClosuresAssumption == Closures \subseteq Blackout
ASSUME OverrideAssumption == OverrideStatuses \subseteq BookingStatus

VARIABLES
    bookings,     \* the bookings table: bookings[id] is a row or NoBooking
    payments,     \* the payments table
    blackouts,    \* the blackout_dates table
    activeRooms,  \* the rooms with is_active
    notices,      \* the check-in and check-out notifications written
    charged,      \* the payments whose card the gateway has charged
    req,          \* req[w]: the request worker w is serving
    \* History variables: no action reads them.
    evidence,     \* evidence[b]: the rows the availability check of b saw
    revived,      \* bookings that have left "cancelled" for another status
    confirmed,    \* bookings that have been "confirmed" at some time
    overridden,   \* bookings whose status staff have set by hand
    orphaned      \* payments whose request crashed before it was done

tables == <<bookings, payments, blackouts, activeRooms, notices, charged>>
history == <<evidence, revived, confirmed, overridden, orphaned>>
vars == <<tables, req, history>>

-----------------------------------------------------------------------------
(* Rows and requests. *)

Booking == [room : Rooms, stay : Stays, status : BookingStatus]
NoBooking == [status |-> "none"]

Payment == [booking : BookingIds, status : {"pending", "succeeded", "failed"}]
NoPayment == [status |-> "none"]

Notice == [booking : BookingIds, title : {"Checked In", "Checked Out"}]

Evidence == [bookings : SUBSET BookingIds, closures : SUBSET Closures]
NoEvidence == [bookings |-> {}, closures |-> {}]

Idle == [pc |-> "idle"]

CreateRequest ==
    [pc : {"rooms", "insert"}, room : Rooms, stay : Stays, saw : Evidence]

(* Who is about to write which status over the one the session loaded.     *)
WriteRequest ==
    [pc : {"write"}, booking : BookingIds, loaded : BookingStatus,
     target : BookingStatus, by : {"guest", "desk", "staff"}]

NotifyRequest == [pc : {"notify"}, notice : Notice]

OpenPaymentRequest == [pc : {"open"}, booking : BookingIds]

PaymentRequest ==
    [pc : {"charge", "succeeded", "failed", "confirm"},
     booking : BookingIds, payment : PaymentIds]

Request ==
    {Idle} \cup CreateRequest \cup WriteRequest \cup NotifyRequest
           \cup OpenPaymentRequest \cup PaymentRequest

PaymentPcs == {"charge", "succeeded", "failed", "confirm"}

Placed(b) == bookings[b].status # "none"

PlacedIds == {b \in BookingIds : Placed(b)}

BookingRows == {bookings[b] : b \in PlacedIds}

Opened(p) == payments[p].status # "none"

Serve(w, r) == req' = [req EXCEPT ![w] = r]

TypeOK ==
    /\ bookings \in [BookingIds -> Booking \cup {NoBooking}]
    /\ payments \in [PaymentIds -> Payment \cup {NoPayment}]
    /\ blackouts \subseteq Closures
    /\ activeRooms \subseteq Rooms
    /\ notices \subseteq Notice
    /\ charged \subseteq PaymentIds
    /\ req \in [Workers -> Request]
    /\ evidence \in [BookingIds -> Evidence]
    /\ revived \subseteq BookingIds
    /\ confirmed \subseteq BookingIds
    /\ overridden \subseteq BookingIds
    /\ orphaned \subseteq PaymentIds

Init ==
    /\ bookings = [b \in BookingIds |-> NoBooking]
    /\ payments = [p \in PaymentIds |-> NoPayment]
    /\ blackouts = {}
    /\ activeRooms = Rooms
    /\ notices = {}
    /\ charged = {}
    /\ req = [w \in Workers |-> Idle]
    /\ evidence = [b \in BookingIds |-> NoEvidence]
    /\ revived = {}
    /\ confirmed = {}
    /\ overridden = {}
    /\ orphaned = {}

-----------------------------------------------------------------------------
(* POST /user/bookings: room lookup, two availability queries, insert. *)

(* The room lookup and the hotel-wide blackout query. *)
StartCreate(w, r, s) ==
    /\ req[w] = Idle
    /\ ~ HotelClosed(blackouts, s)
    /\ Serve(w, [pc |-> "rooms", room |-> r, stay |-> s,
                 saw |-> [bookings |-> {}, closures |-> HotelWide(blackouts)]])
    /\ UNCHANGED <<tables, history>>

(* The room query: one statement, one snapshot of rooms, bookings and      *)
(* room blackouts.  A room that is not in its answer is a 400.             *)
QueryRooms(w) ==
    /\ req[w].pc = "rooms"
    /\ LET free == FreeRooms(BookingRows, blackouts, activeRooms, req[w].stay)
           saw == [bookings |-> PlacedIds,
                   closures |-> req[w].saw.closures \cup RoomScoped(blackouts)]
       IN  \/ /\ req[w].room \in free
              /\ Serve(w, [pc |-> "insert", room |-> req[w].room,
                           stay |-> req[w].stay, saw |-> saw])
           \/ /\ req[w].room \notin free
              /\ Serve(w, Idle)
    /\ UNCHANGED <<tables, history>>

(* The insert and its commit.  Nothing is checked again. *)
InsertBooking(w, b) ==
    /\ req[w].pc = "insert"
    /\ ~ Placed(b)
    /\ bookings' = [bookings EXCEPT ![b] =
           [room |-> req[w].room, stay |-> req[w].stay, status |-> "pending"]]
    /\ evidence' = [evidence EXCEPT ![b] = req[w].saw]
    /\ Serve(w, Idle)
    /\ UNCHANGED <<payments, blackouts, activeRooms, notices, charged,
                   revived, confirmed, overridden, orphaned>>

-----------------------------------------------------------------------------
(* Status changes through update_booking_status. *)

StartWrite(w, b, target, by) ==
    Serve(w, [pc |-> "write", booking |-> b, loaded |-> bookings[b].status,
              target |-> target, by |-> by])

(* PUT /user/bookings/{id}/cancel: whatever the status is. *)
StartCancel(w, b) ==
    /\ req[w] = Idle
    /\ Placed(b)
    /\ StartWrite(w, b, "cancelled", "guest")
    /\ UNCHANGED <<tables, history>>

(* Mistakes: a guest who has not paid is checked in; the desk asks for a   *)
(* payment and not for the status, which a cancellation may have changed.  *)
CheckInUnpaid(w, b) ==
    /\ req[w] = Idle
    /\ Placed(b)
    /\ StartWrite(w, b, "completed", "desk")
    /\ UNCHANGED <<tables, history>>

CheckInPaid(w, b) ==
    /\ req[w] = Idle
    /\ \E p \in PaymentIds : payments[p] = [booking |-> b, status |-> "succeeded"]
    /\ StartWrite(w, b, "completed", "desk")
    /\ UNCHANGED <<tables, history>>

(* PUT /admin/bookings/{id}/checkin *)
StartCheckIn(w, b) ==
    /\ req[w] = Idle
    /\ bookings[b].status = "confirmed"
    /\ StartWrite(w, b, "completed", "desk")
    /\ UNCHANGED <<tables, history>>

(* PUT /admin/bookings/{id}/status *)
StartOverride(w, b, s) ==
    /\ req[w] = Idle
    /\ Placed(b)
    /\ StartWrite(w, b, s, "staff")
    /\ UNCHANGED <<tables, history>>

Revive(b, target) ==
    revived' = IF bookings[b].status = "cancelled" /\ target # "cancelled"
               THEN revived \cup {b} ELSE revived

AfterWrite(r) ==
    IF r.by = "desk"
    THEN [pc |-> "notify",
          notice |-> [booking |-> r.booking, title |-> "Checked In"]]
    ELSE Idle

(* The UPDATE ... SET status and its commit.  The session compares the new *)
(* status with the one it loaded: equal, it sends no UPDATE; different, it *)
(* overwrites whatever the row holds by now.                               *)
WriteStatus(w) ==
    LET r == req[w] IN
    /\ r.pc = "write"
    /\ \/ /\ r.loaded = r.target
          /\ UNCHANGED <<bookings, revived, confirmed, overridden>>
       \/ /\ r.loaded # r.target
          /\ bookings' = [bookings EXCEPT ![r.booking].status = r.target]
          /\ Revive(r.booking, r.target)
          /\ confirmed' = IF r.target = "confirmed" THEN confirmed \cup {r.booking}
                          ELSE confirmed
          /\ overridden' = IF r.by = "staff" THEN overridden \cup {r.booking}
                           ELSE overridden
    /\ Serve(w, AfterWrite(r))
    /\ UNCHANGED <<payments, blackouts, activeRooms, notices, charged,
                   evidence, orphaned>>

(* PUT /admin/bookings/{id}/checkout: a notification, the status stays. *)
StartCheckOut(w, b) ==
    /\ req[w] = Idle
    /\ bookings[b].status = "completed"
    /\ Serve(w, [pc |-> "notify",
                 notice |-> [booking |-> b, title |-> "Checked Out"]])
    /\ UNCHANGED <<tables, history>>

(* create_notification commits on its own. *)
WriteNotice(w) ==
    /\ req[w].pc = "notify"
    /\ notices' = notices \cup {req[w].notice}
    /\ Serve(w, Idle)
    /\ UNCHANGED <<bookings, payments, blackouts, activeRooms, charged, history>>

-----------------------------------------------------------------------------
(* POST /user/payments: process_payment with its four commits. *)

StartPayment(w, b) ==
    /\ req[w] = Idle
    /\ Placed(b)
    /\ bookings[b].status \notin {"cancelled", "completed"}
    /\ Serve(w, [pc |-> "open", booking |-> b])
    /\ UNCHANGED <<tables, history>>

(* Mistake: a status the column's constraint does not know. *)
OpenUnderNewStatus(w, p) ==
    /\ req[w].pc = "open"
    /\ ~ Opened(p)
    /\ payments' = [payments EXCEPT ![p] =
           [booking |-> req[w].booking, status |-> "processing"]]
    /\ Serve(w, [pc |-> "charge", booking |-> req[w].booking, payment |-> p])
    /\ UNCHANGED <<bookings, blackouts, activeRooms, notices, charged, history>>

(* create_payment *)
OpenPayment(w, p) ==
    /\ req[w].pc = "open"
    /\ ~ Opened(p)
    /\ payments' = [payments EXCEPT ![p] =
           [booking |-> req[w].booking, status |-> "pending"]]
    /\ Serve(w, [pc |-> "charge", booking |-> req[w].booking, payment |-> p])
    /\ UNCHANGED <<bookings, blackouts, activeRooms, notices, charged, history>>

(* _charge_card: the gateway takes the money or raises. *)
ChargeCard(w) ==
    /\ req[w].pc = "charge"
    /\ \/ /\ charged' = charged \cup {req[w].payment}
          /\ Serve(w, [req[w] EXCEPT !.pc = "succeeded"])
       \/ /\ Serve(w, [req[w] EXCEPT !.pc = "failed"])
          /\ UNCHANGED charged
    /\ UNCHANGED <<bookings, payments, blackouts, activeRooms, notices, history>>

(* Mistakes: a refused card is recorded as success; a refused card leaves  *)
(* the payment as it was.                                                  *)
RecordSuccess(w) ==
    /\ req[w].pc \in {"succeeded", "failed"}
    /\ payments' = [payments EXCEPT ![req[w].payment].status = "succeeded"]
    /\ Serve(w, [req[w] EXCEPT !.pc = "confirm"])
    /\ UNCHANGED <<bookings, blackouts, activeRooms, notices, charged, history>>

RecordOnlySuccess(w) ==
    \/ req[w].pc = "succeeded" /\ RecordSuccess(w)
    \/ req[w].pc = "failed" /\ Serve(w, Idle) /\ UNCHANGED <<tables, history>>

(* update_payment_status; a failure then ends the request with a 400. *)
RecordPayment(w) ==
    LET r == req[w] IN
    /\ r.pc \in {"succeeded", "failed"}
    /\ payments' = [payments EXCEPT ![r.payment].status = r.pc]
    /\ Serve(w, IF r.pc = "succeeded" THEN [r EXCEPT !.pc = "confirm"] ELSE Idle)
    /\ UNCHANGED <<bookings, blackouts, activeRooms, notices, charged, history>>

(* Mistakes: the booking is left to whoever reads the payment; a booking   *)
(* cancelled meanwhile is left cancelled.                                  *)
LeaveBooking(w) ==
    /\ req[w].pc = "confirm"
    /\ Serve(w, Idle)
    /\ UNCHANGED <<tables, history>>

ConfirmUnlessCancelled(w) ==
    LET b == req[w].booking IN
    /\ req[w].pc = "confirm"
    /\ bookings' = IF bookings[b].status = "cancelled" THEN bookings
                   ELSE [bookings EXCEPT ![b].status = "confirmed"]
    /\ Serve(w, Idle)
    /\ UNCHANGED <<payments, blackouts, activeRooms, notices, charged, history>>

(* booking.status = "confirmed": the earlier commits expired the booking,  *)
(* so the UPDATE is always sent and overwrites whatever the row holds.     *)
ConfirmBooking(w) ==
    LET b == req[w].booking IN
    /\ req[w].pc = "confirm"
    /\ bookings' = [bookings EXCEPT ![b].status = "confirmed"]
    /\ Revive(b, "confirmed")
    /\ confirmed' = confirmed \cup {b}
    /\ Serve(w, Idle)
    /\ UNCHANGED <<payments, blackouts, activeRooms, notices, charged,
                   evidence, overridden, orphaned>>

-----------------------------------------------------------------------------
(* Staff changes to what is available; each is one commit. *)

CreateBlackout(x) ==
    /\ blackouts' = blackouts \cup {x}
    /\ UNCHANGED <<bookings, payments, activeRooms, notices, charged, req, history>>

DeleteBlackout(x) ==
    /\ x \in blackouts
    /\ blackouts' = blackouts \ {x}
    /\ UNCHANGED <<bookings, payments, activeRooms, notices, charged, req, history>>

DeactivateRoom(r) ==
    /\ activeRooms' = activeRooms \ {r}
    /\ UNCHANGED <<bookings, payments, blackouts, notices, charged, req, history>>

ActivateRoom(r) ==
    /\ activeRooms' = activeRooms \cup {r}
    /\ UNCHANGED <<bookings, payments, blackouts, notices, charged, req, history>>

(* The process dies, or the session raises and is rolled back. *)
Crash(w) ==
    /\ req[w] # Idle
    /\ orphaned' = IF req[w].pc \in PaymentPcs THEN orphaned \cup {req[w].payment}
                   ELSE orphaned
    /\ Serve(w, Idle)
    /\ UNCHANGED <<tables, evidence, revived, confirmed, overridden>>

-----------------------------------------------------------------------------
Start(w) ==
    \/ \E r \in Rooms, s \in Stays : StartCreate(w, r, s)
    \/ \E b \in BookingIds :
           \/ StartCancel(w, b)
           \/ StartCheckIn(w, b)
           \/ StartCheckOut(w, b)
           \/ StartPayment(w, b)
           \/ \E s \in OverrideStatuses : StartOverride(w, b, s)

(* The steps of a request that has been accepted. *)
Continue(w) ==
    \/ QueryRooms(w)
    \/ \E b \in BookingIds : InsertBooking(w, b)
    \/ WriteStatus(w)
    \/ WriteNotice(w)
    \/ \E p \in PaymentIds : OpenPayment(w, p)
    \/ ChargeCard(w)
    \/ RecordPayment(w)
    \/ ConfirmBooking(w)

Manage ==
    \/ \E x \in Closures : CreateBlackout(x) \/ DeleteBlackout(x)
    \/ \E r \in Rooms : DeactivateRoom(r) \/ ActivateRoom(r)

Next ==
    \/ \E w \in Workers : Start(w) \/ Continue(w) \/ Crash(w)
    \/ Manage

Spec == Init /\ [][Next]_vars

(* A request that has been accepted runs on: the thread is scheduled and   *)
(* each statement returns or raises.  Guests and staff owe no request.     *)
FairSpec == Spec /\ \A w \in Workers : WF_vars(Continue(w))

-----------------------------------------------------------------------------
(* Properties. *)

Live(b) == bookings[b].status \notin {"none", "cancelled"}

Conflict(b, c) ==
    /\ bookings[b].room = bookings[c].room
    /\ Overlaps(bookings[b].stay, bookings[c].stay)

Funded == {b \in BookingIds :
              \E p \in PaymentIds : payments[p] = [booking |-> b, status |-> "succeeded"]}

InFlight(p, pc) == \E w \in Workers : req[w].pc = pc /\ req[w].payment = p

(* What guests are promised: two bookings that are not cancelled never     *)
(* share a room for a night (create_booking_endpoint's availability check).*)
NoDoubleBooking ==
    \A b, c \in BookingIds :
        b # c /\ Live(b) /\ Live(c) => ~ Conflict(b, c)

(* What the code delivers: if two live bookings do share a room for a      *)
(* night, then neither was committed when the other was checked (the       *)
(* check-then-insert race of create_booking_endpoint), or one of them had  *)
(* been cancelled and was brought back without a new check (by staff, by a *)
(* payment or by a check-in).  The query itself is never to blame.         *)
DoubleBookingExplained ==
    \A b, c \in BookingIds :
        b # c /\ Live(b) /\ Live(c) /\ Conflict(b, c) =>
            \/ c \notin evidence[b].bookings /\ b \notin evidence[c].bookings
            \/ b \in revived
            \/ c \in revived

(* A booking of a room that is blacked out on a night of the stay exists   *)
(* only if the blackout was entered after the booking's own queries ran:   *)
(* the hotel-wide one in get_available_rooms' first query, a room's in its *)
(* second.                                                                 *)
ClosedStayExplained ==
    \A b \in PlacedIds : \A x \in blackouts :
        /\ x.room \in {AllRooms, bookings[b].room}
        /\ FallsIn(x.date, bookings[b].stay)
        => x \notin evidence[b].closures

(* A booking is confirmed, completed or announced to the guest as checked  *)
(* in or out only if a payment for it succeeded, or staff set its status.  *)
(* Every path to these states reads a status, commits and writes later.    *)
StayFunded ==
    \A b \in BookingIds :
        \/ bookings[b].status \in {"confirmed", "completed"}
        \/ \E n \in notices : n.booking = b
        => b \in Funded \cup overridden

(* process_payment and the gateway agree: a payment is recorded as         *)
(* succeeded only if the card was charged, and a charged card whose        *)
(* payment is not yet recorded so is still "pending", with its request     *)
(* about to record it or crashed.                                          *)
MoneyAccounted ==
    \A p \in PaymentIds :
        /\ payments[p].status = "succeeded" => p \in charged
        /\ p \in charged /\ payments[p].status # "succeeded" =>
              /\ payments[p].status = "pending"
              /\ p \in orphaned \/ InFlight(p, "succeeded")

(* A guest whose payment succeeded sees the booking "pending" only while   *)
(* the payment's request is one commit away from confirming it, or because *)
(* that request crashed before it could, or because staff set the status.  *)
PaidButPendingExplained ==
    \A p \in PaymentIds :
        payments[p].status = "succeeded" =>
            LET b == payments[p].booking IN
            bookings[b].status = "pending" =>
                p \in orphaned \/ InFlight(p, "confirm") \/ b \in overridden

(* The handlers, with all their interleavings and crashes, implement the   *)
(* lifecycle of BookingLedger: each captured payment confirms the booking  *)
(* it was taken for, at most once, and nothing else confirms one; no       *)
(* booking is completed that was not confirmed before; nothing returns to  *)
(* pending; unless staff set the status by hand.                           *)
CapturedFor ==
    {pb \in PaymentIds \X BookingIds :
        payments[pb[1]] = [booking |-> pb[2], status |-> "succeeded"]}

Ledger == INSTANCE BookingLedger WITH
              status <- [b \in BookingIds |-> bookings[b].status],
              captured <- CapturedFor,
              due <- {p \in PaymentIds : InFlight(p, "confirm")}

ImplementsLedger == Ledger!Spec

(* A payment that was opened is settled, unless its request crashes        *)
(* (process_payment, from create_payment to update_payment_status).        *)
PaymentSettles ==
    \A p \in PaymentIds :
        payments[p].status = "pending" ~>
            payments[p].status # "pending" \/ p \in orphaned

(* A charged card confirms its booking, whatever cancels or checks in      *)
(* meanwhile, unless the request crashes first.                            *)
ChargeConfirms ==
    \A p \in PaymentIds, b \in BookingIds :
        p \in charged /\ payments[p] = [booking |-> b, status |-> "pending"] ~>
            bookings[b].status = "confirmed" \/ p \in orphaned
=============================================================================
