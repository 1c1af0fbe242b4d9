------------------------------ MODULE Checkout ------------------------------
(***************************************************************************)
(* From a room to a paid booking: pages/public/RoomDetails.jsx and         *)
(* Booking.jsx with the calendar and the counter they share                *)
(* (components/common/DateRangePicker.jsx, GuestsPicker.jsx), and          *)
(* BookingConfirmation.jsx.  "Confirm" is two calls, one to book and one   *)
(* to pay; nothing undoes the first when the second fails, and a call that *)
(* the page gives up after 15 s (services/api.js) is carried out all the   *)
(* same.  The server asks for the room's bookings and then inserts its     *)
(* own, loads a booking and then charges for it.  The calendar makes local *)
(* midnights into strings with toISOString and reads them back as local    *)
(* days, so that east of Greenwich (`east`) each trip through a string     *)
(* loses a day.  Days are numbers, today is day 1.                         *)
(***************************************************************************)
EXTENDS Integers, FiniteSets

CONSTANTS None,
          LastDay,       \* bound: the last day that is clicked
          MaxRooms,      \* bound: the rooms counter (30 in the code)
          MaxActs,       \* bound: clicks that change or leave something chosen
          MaxAttempts    \* bound: uses of "Confirm"

CheckoutAssumption ==
    /\ {LastDay, MaxRooms, MaxActs, MaxAttempts} \subseteq Nat
    /\ None \notin Int /\ None \notin {"card", "failed"}

VARIABLES
    place,                    \* the page: "room", "booking", "login", "confirmation"
    isAuthenticated, east,
    checkIn, checkOut, pickingEnd,   \* the dates as strings; the calendar's state
    picked,                   \* history: the days clicked for them
    counter, roomCount,       \* the picker's own rooms, and the page's
    step, named, cardOk, loading, error,   \* named: the guest's name is filled in
    visit,                    \* which mount of Booking this is
    attempts,                 \* uses of "Confirm" that have not ended
    quoted,                   \* the price of a night in the room the pages were given
    bookings, rate,           \* server: the room's bookings; what a night costs
    confirmation,             \* what the confirmation page shows
    tried, acts

pickVars == <<checkIn, checkOut, pickingEnd, picked>>
countVars == <<counter, roomCount>>
formVars == <<step, named, cardOk>>
userVars == <<isAuthenticated, east, quoted, rate>>   \* and what stays as it is
checkoutVars == <<place, userVars, pickVars, countVars, formVars, loading, error, visit,
                  attempts, bookings, confirmation, tried, acts>>

NoDays == [in |-> None, out |-> None]

(* RoomDetails with the room it was linked to with. *)
CheckoutInit ==
    /\ place = "room" /\ isAuthenticated \in BOOLEAN /\ east \in BOOLEAN
    /\ checkIn = None /\ checkOut = None /\ pickingEnd = FALSE /\ picked = NoDays
    /\ counter = 1 /\ roomCount = 1
    /\ step = 1 /\ named = FALSE /\ cardOk = FALSE /\ loading = FALSE /\ error = None
    /\ visit = 0 /\ attempts = {} /\ bookings = {} /\ confirmation = None
    /\ tried = 0 /\ acts = 0 /\ quoted = 1 /\ rate \in {1, 2}

Act == acts < MaxActs /\ acts' = acts + 1
PickerShown == place = "room" \/ (place = "booking" /\ step = 2)

-----------------------------------------------------------------------------
(* DateRangePicker *)

toStr(d) == IF east THEN d - 1 ELSE d

(* handleDay: ciDate is the string read back, and written again. *)
PickDay(d) ==
    /\ PickerShown
    /\ IF checkIn = None \/ (pickingEnd /\ d >= checkIn) THEN UNCHANGED acts ELSE Act
    /\ IF checkIn = None \/ ~pickingEnd \/ d < checkIn
       THEN /\ checkIn' = toStr(d) /\ checkOut' = None /\ pickingEnd' = TRUE
            /\ picked' = [in |-> d, out |-> None]
       ELSE /\ checkIn' = toStr(checkIn) /\ checkOut' = toStr(d) /\ pickingEnd' = FALSE
            /\ picked' = [picked EXCEPT !.out = d]
    /\ UNCHANGED <<place, userVars, countVars, formVars, loading, error, visit, attempts,
                   bookings, confirmation, tried>>

ClearCheckIn ==    \* Mistake for ClearDays: the check-out stays
    /\ PickerShown /\ checkIn # None /\ Act
    /\ checkIn' = None /\ pickingEnd' = FALSE /\ picked' = NoDays
    /\ UNCHANGED <<place, userVars, checkOut, countVars, formVars, loading, error, visit,
                   attempts, bookings, confirmation, tried>>
ClearDays ==
    /\ PickerShown /\ checkIn # None /\ Act
    /\ checkIn' = None /\ checkOut' = None /\ pickingEnd' = FALSE /\ picked' = NoDays
    /\ UNCHANGED <<place, userVars, countVars, formVars, loading, error, visit, attempts,
                   bookings, confirmation, tried>>

(* GuestsPicker: its buttons change its own copy, "Done" reports it. *)
CountRooms(n) ==
    /\ PickerShown /\ n # counter /\ Act
    /\ counter' = n
    /\ UNCHANGED <<place, userVars, pickVars, roomCount, formVars, loading, error, visit,
                   attempts, bookings, confirmation, tried>>
CountDone ==
    /\ PickerShown /\ counter # roomCount
    /\ roomCount' = counter
    /\ UNCHANGED <<place, userVars, pickVars, counter, formVars, loading, error, visit,
                   attempts, bookings, confirmation, tried, acts>>

-----------------------------------------------------------------------------
(* Moving between the pages.  A page that is left forgets what it held, but
   its handlers run to their end.                                        *)

(* requireAuth("book"): the dates go along, the rooms do not. *)
BookNow ==
    /\ place = "room" /\ isAuthenticated /\ Act
    /\ place' = "booking" /\ visit' = visit + 1
    /\ step' = 1 /\ named' = FALSE /\ cardOk' = FALSE
    /\ pickingEnd' = FALSE /\ counter' = 1 /\ roomCount' = 1 /\ loading' = FALSE /\ error' = None
    /\ UNCHANGED <<userVars, checkIn, checkOut, picked, attempts, bookings, confirmation, tried>>
(* The prompt, and its link; the way back from /login is a new one. *)
Prompted ==
    /\ place = "room" /\ ~isAuthenticated
    /\ place' = "login"
    /\ UNCHANGED <<userVars, pickVars, countVars, formVars, loading, error, visit, attempts,
                   bookings, confirmation, tried, acts>>
ToRoomAborting ==    \* Mistake for ToRoom: the page aborts its calls as it goes
    /\ place # "room" /\ Act
    /\ place' = "room" /\ isAuthenticated' = (isAuthenticated \/ place = "login")
    /\ checkIn' = None /\ checkOut' = None /\ pickingEnd' = FALSE /\ picked' = NoDays
    /\ counter' = 1 /\ roomCount' = 1 /\ attempts' = {}
    /\ quoted' \in {quoted, rate}
    /\ UNCHANGED <<east, rate, formVars, loading, error, visit, bookings,
                   confirmation, tried>>
(* By a list of rooms, which may have been read a while ago. *)
ToRoom ==
    /\ place # "room" /\ Act
    /\ place' = "room" /\ isAuthenticated' = (isAuthenticated \/ place = "login")
    /\ checkIn' = None /\ checkOut' = None /\ pickingEnd' = FALSE /\ picked' = NoDays
    /\ counter' = 1 /\ roomCount' = 1
    /\ quoted' \in {quoted, rate}
    /\ UNCHANGED <<east, rate, formVars, loading, error, visit, attempts, bookings,
                   confirmation, tried>>
(* The user menu, or a refused token; Booking's effect leaves at once. *)
SignOut ==
    /\ isAuthenticated /\ place \in {"room", "booking"} /\ Act
    /\ isAuthenticated' = FALSE
    /\ place' = IF place = "booking" THEN "login" ELSE place
    /\ UNCHANGED <<east, quoted, rate, pickVars, countVars, formVars, loading, error, visit, attempts,
                   bookings, confirmation, tried>>

-----------------------------------------------------------------------------
(* Booking, its three steps *)

(* Typed, or the profile's, which may arrive after the page. *)
NameGiven ==
    /\ place = "booking" /\ step = 1 /\ ~named
    /\ named' = TRUE
    /\ UNCHANGED <<place, userVars, pickVars, countVars, step, cardOk, loading, error, visit,
                   attempts, bookings, confirmation, tried, acts>>
TypeCard ==
    /\ place = "booking" /\ step = 3 /\ ~cardOk
    /\ cardOk' = TRUE
    /\ UNCHANGED <<place, userVars, pickVars, countVars, step, named, loading, error, visit,
                   attempts, bookings, confirmation, tried, acts>>

ToStep(n) ==
    /\ place = "booking" /\ n # step
    /\ \/ n = 2 /\ step = 1 /\ named /\ error' = None
       \/ n = 3 /\ step = 2 /\ checkIn # None /\ checkOut # None /\ UNCHANGED error
       \/ n < step /\ Act /\ UNCHANGED error
    /\ n > step => UNCHANGED acts
    /\ step' = n
    (* the calendar and the counter of step 2 are mounted and unmounted *)
    /\ pickingEnd' = FALSE /\ counter' = roomCount
    /\ UNCHANGED <<place, userVars, checkIn, checkOut, picked, roomCount, named, cardOk,
                   loading, visit, attempts, bookings, confirmation, tried>>

nights(a, b) == IF b - a > 1 THEN b - a ELSE 1
total == nights(checkIn, checkOut) * roomCount * quoted

(* handleConfirm, up to its first await.  at: "book", "checked", "booked",
   "pay", "loaded", "paid" as the two calls proceed, "failed" after an answer
   that is an error.  awaited: the page has not given it up.  saw (history):
   the bookings the server looked at. *)
Confirm ==
    /\ place = "booking" /\ step = 3 /\ ~loading
    /\ IF cardOk
       THEN /\ tried < MaxAttempts /\ tried' = tried + 1
            /\ attempts' = attempts \cup
                 {[no |-> tried + 1, visit |-> visit, at |-> "book", awaited |-> TRUE,
                   in |-> checkIn, out |-> checkOut, rooms |-> roomCount, quoted |-> quoted,
                   shown |-> total, saw |-> {}, night |-> 0, booking |-> None]}
            /\ loading' = TRUE /\ error' = None
       ELSE error' = "card" /\ UNCHANGED <<tried, attempts, loading>>
    /\ UNCHANGED <<place, userVars, pickVars, countVars, formVars, visit, bookings, confirmation, acts>>

-----------------------------------------------------------------------------
(* The server: the room is refused for dates a booking that is not cancelled
   holds, and for a stay of no night; the price counts nights, at what the
   room and the pricing rules make of one.                                *)

Overlaps(b, a) == b.in < a.out /\ a.in < b.out
Taken(a) == \E b \in bookings : b.st # "cancelled" /\ Overlaps(b, a)
Answered == {"booked", "paid", "failed"}
(* An answer nobody waits for is lost. *)
Becomes(a, new) ==
    attempts' = (attempts \ {a}) \cup {n \in {new} : n.awaited \/ n.at \notin Answered}
serverKeeps == <<place, userVars, pickVars, countVars, formVars, loading, error, visit,
                 confirmation, tried, acts>>

Query(a) ==
    /\ a.at = "book"
    /\ Becomes(a, IF Taken(a) \/ a.out <= a.in THEN [a EXCEPT !.at = "failed"]
                  ELSE [a EXCEPT !.at = "checked", !.saw = {b.id : b \in bookings}, !.night = rate])
    /\ UNCHANGED <<serverKeeps, bookings>>
Booked(a) ==
    [id |-> a.no, visit |-> a.visit, in |-> a.in, out |-> a.out, st |-> "pending",
     night |-> a.night, price |-> (a.out - a.in) * a.night, charged |-> 0, revived |-> FALSE,
     rooms |-> a.rooms, quoted |-> a.quoted, shown |-> a.shown, saw |-> a.saw]
Insert(a) ==
    /\ a.at = "checked"
    /\ Becomes(a, [a EXCEPT !.at = "booked", !.booking = a.no])
    /\ bookings' = bookings \cup {Booked(a)}
    /\ UNCHANGED serverKeeps

LoadPayment(a) ==
    /\ a.at = "pay"
    /\ \E b \in bookings :
         /\ b.id = a.booking
         /\ Becomes(a, [a EXCEPT !.at = IF b.st = "cancelled" THEN "failed" ELSE "loaded"])
    /\ UNCHANGED <<serverKeeps, bookings>>
(* Whatever the row holds by now; or the process dies once it has charged.
   revived (history): the payment was for a booking cancelled meanwhile. *)
Charge(a) ==
    /\ a.at = "loaded"
    /\ \E b \in bookings, dies \in BOOLEAN :
         /\ b.id = a.booking
         /\ Becomes(a, [a EXCEPT !.at = IF dies THEN "failed" ELSE "paid"])
         /\ bookings' = (bookings \ {b}) \cup
              {IF dies THEN [b EXCEPT !.charged = @ + b.price]
               ELSE [b EXCEPT !.charged = @ + b.price, !.st = "confirmed",
                              !.revived = @ \/ b.st = "cancelled"]}
    /\ UNCHANGED serverKeeps

(* The guest cancels in another tab, or staff do; staff change the price. *)
Cancelled(b) ==
    /\ b.st # "cancelled" /\ Act
    /\ bookings' = (bookings \ {b}) \cup {[b EXCEPT !.st = "cancelled"]}
    /\ UNCHANGED <<place, userVars, pickVars, countVars, formVars, loading, error, visit,
                   attempts, confirmation, tried>>
Reprice ==
    /\ Act
    /\ rate' \in {1, 2} \ {rate}
    /\ UNCHANGED <<place, isAuthenticated, east, quoted, pickVars, countVars, formVars,
                   loading, error, visit, attempts, bookings, confirmation, tried>>

-----------------------------------------------------------------------------
(* handleConfirm, from its awaits on. *)

BookingMade(a) ==
    /\ a.awaited /\ a.at = "booked"
    /\ Becomes(a, [a EXCEPT !.at = "pay"])
    /\ UNCHANGED <<serverKeeps, bookings>>

Mine(a) == place = "booking" /\ a.visit = visit
(* navigate() works after the page was left, and takes the guest along. *)
PaymentMade(a) ==
    /\ a.awaited /\ a.at = "paid"
    /\ attempts' = attempts \ {a}
    /\ place' = "confirmation"
    /\ confirmation' = [booking |-> a.booking, in |-> a.in, out |-> a.out]
    /\ loading' = IF Mine(a) THEN FALSE ELSE loading
    /\ UNCHANGED <<userVars, pickVars, countVars, formVars, error, visit, bookings, tried, acts>>

(* A refusal, an error, or the timeout, at any time before the answer: what
   the server has not done yet it still may do, or not. *)
AttemptFails(a) ==
    /\ a.awaited
    /\ Becomes(a, [a EXCEPT !.awaited = FALSE])
    /\ loading' = IF Mine(a) THEN FALSE ELSE loading
    /\ error' = IF Mine(a) THEN "failed" ELSE error
    /\ UNCHANGED <<place, userVars, pickVars, countVars, formVars, visit, bookings,
                   confirmation, tried, acts>>
(* The server fails, or never got it. *)
CallEnds(a) ==
    /\ ~a.awaited
    /\ attempts' = attempts \ {a}
    /\ UNCHANGED <<serverKeeps, bookings>>

CheckoutNext ==
    \/ ClearDays \/ CountDone \/ BookNow \/ Prompted \/ ToRoom \/ SignOut
    \/ NameGiven \/ TypeCard \/ Confirm
    \/ \E d \in 1..LastDay : PickDay(d)
    \/ \E n \in 1..MaxRooms : CountRooms(n)
    \/ \E n \in 1..3 : ToStep(n)
    \/ \E b \in bookings : Cancelled(b)
    \/ Reprice
    \/ \E a \in attempts : \/ Query(a) \/ Insert(a) \/ LoadPayment(a) \/ Charge(a)
                           \/ BookingMade(a) \/ PaymentMade(a) \/ AttemptFails(a) \/ CallEnds(a)

-----------------------------------------------------------------------------
(* The stay on the page is the one that was clicked; east of Greenwich its
   check-in is two days early and its check-out one, a night more than was
   clicked (DateRangePicker.jsx:31, 87), and while only the check-in is
   chosen one day early.  No sequence of clicks, clearings, steps and pages
   makes it anything else, nor a stay that ends before it begins.        *)
StayExplained ==
    LET early(n) == IF east THEN n ELSE 0
    IN  /\ (checkIn = None) = (picked.in = None) /\ (checkOut = None) = (picked.out = None)
        /\ checkIn # None /\ checkOut = None => checkIn = picked.in - early(1)
        /\ checkOut # None => /\ checkIn = picked.in - early(2)
                              /\ checkOut = picked.out - early(1)
                              /\ checkIn <= checkOut

(* A booking that holds the room and that nobody will pay. *)
Pays(a) == a.awaited \/ a.at \in {"pay", "loaded"}
Orphan(b, tries) == b.st = "pending" /\ \A a \in tries : a.booking = b.id => ~Pays(a)
Paid == {b \in bookings : b.charged > 0}
Live == {b \in bookings : b.st # "cancelled"}
Unseen(b, c) == b.visit # c.visit /\ b.id \notin c.saw /\ c.id \notin b.saw

(* Such a booking is left behind only by a try that fails now, with a message
   if its page is still there (Booking.jsx:118 gives the booking up and does
   not cancel it, and it is what refuses the next try), or by one that was
   given up before and that the server went on with (api.js:8).  Leaving the
   page does not stop a try.  The guest never pays twice for one booking; for
   nights that overlap only if one of the two was cancelled and its payment
   brought it back (payment.py:34, 66), or if they were booked from two
   mounts of the page and the server looked for each before the other was
   there (bookings.py:39, 50).  What is charged is what the page showed
   unless the price the server found was not the one the page was given, or
   more rooms than one were counted, which are not booked (Booking.jsx:77,
   100); and the confirmation page, also when it comes up over another page,
   shows a booking that was paid. *)
HoldsExplained ==
    [][/\ \A b \in bookings' :
            Orphan(b, attempts') /\ ~(\E c \in bookings : c.id = b.id /\ Orphan(c, attempts)) =>
            \E a \in attempts :
                a.no = b.id /\ (a.awaited => place' = place /\ (Mine(a) => error' # None))
       /\ \A b \in Paid' :
            /\ b.charged = b.price
            /\ b.rooms = 1 /\ b.night = b.quoted => b.charged = b.shown
       /\ \A b, c \in (Paid \cap Live)' :
            Overlaps(b, c) => b = c \/ b.revived \/ c.revived \/ Unseen(b, c)
       /\ place' = "confirmation" => \E b \in Paid' :
            b.id = confirmation'.booking /\ b.in = confirmation'.in /\ b.out = confirmation'.out
      ]_checkoutVars
=============================================================================
